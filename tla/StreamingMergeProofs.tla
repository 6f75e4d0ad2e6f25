------------------------ MODULE StreamingMergeProofs ------------------------
(***************************************************************************)
(* A compaction drained in budgeted calls, for any number of runs and      *)
(* partitions and entries of any length: its rows come out once and in     *)
(* order however the calls pause and fail, and what it writes shows what   *)
(* its inputs show.                                                        *)
(***************************************************************************)
EXTENDS StreamingMerge, ReconcileProofs, SequenceTheorems, FiniteSetTheorems

(***************************************************************************)
(* Sequences and natural numbers.                                          *)
(***************************************************************************)
\* Every non-empty set of natural numbers has a least element.
LEMMA LeastNat ==
  ASSUME NEW T \in SUBSET Nat, T # {}
  PROVE  \E x \in T : \A y \in T : x <= y
<1>1. IsWellFoundedOn(OpToRel(<, Nat), Nat)
  BY NatLessThanWellFounded
<1>2. PICK x \in T : \A y \in T : ~(<<y, x>> \in OpToRel(<, Nat))
  BY <1>1, WFMin
<1>3. \A y \in T : ~(y < x)
  BY <1>2 DEF OpToRel
<1> QED BY <1>3

LEMMA RangeEmpty == Range(<<>>) = {}
BY DEF Range

LEMMA RangeType ==
  ASSUME NEW S, NEW s \in Seq(S)
  PROVE  Range(s) \subseteq S
BY LenProperties, ElementOfSeq DEF Range

LEMMA RangeConcat ==
  ASSUME NEW S, NEW s \in Seq(S), NEW t \in Seq(S)
  PROVE  s \o t \in Seq(S) /\ Range(s \o t) = Range(s) \cup Range(t)
<1> DEFINE u == s \o t
<1>1. /\ u \in Seq(S) /\ Len(u) = Len(s) + Len(t)
      /\ \A i \in 1 .. Len(s) + Len(t) :
            u[i] = IF i <= Len(s) THEN s[i] ELSE t[i - Len(s)]
  BY ConcatProperties
<1>2. /\ Len(s) \in Nat /\ Len(t) \in Nat
      /\ DOMAIN s = 1 .. Len(s) /\ DOMAIN t = 1 .. Len(t) /\ DOMAIN u = 1 .. Len(u)
  BY <1>1, LenProperties
<1> HIDE DEF u
<1>3. ASSUME NEW i \in DOMAIN s PROVE i \in DOMAIN u /\ u[i] = s[i]
  BY <1>1, <1>2
<1>4. ASSUME NEW i \in DOMAIN t PROVE i + Len(s) \in DOMAIN u /\ u[i + Len(s)] = t[i]
  BY <1>1, <1>2
<1>5. ASSUME NEW i \in DOMAIN u PROVE u[i] \in Range(s) \cup Range(t)
  <2>1. CASE i <= Len(s)
    <3>1. i \in DOMAIN s /\ u[i] = s[i]
      BY <2>1, <1>1, <1>2
    <3> QED BY <3>1 DEF Range
  <2>2. CASE ~(i <= Len(s))
    <3>1. i - Len(s) \in DOMAIN t /\ u[i] = t[i - Len(s)]
      BY <2>2, <1>1, <1>2
    <3> QED BY <3>1 DEF Range
  <2> QED BY <2>1, <2>2
<1>6. Range(s) \subseteq Range(u)
  BY <1>3 DEF Range
<1>7. Range(t) \subseteq Range(u)
  BY <1>4 DEF Range
<1>8. Range(u) \subseteq Range(s) \cup Range(t)
  BY <1>5 DEF Range
<1> QED BY <1>1, <1>6, <1>7, <1>8 DEF u

LEMMA RangeOne ==
  ASSUME NEW S, NEW a \in S
  PROVE  <<a>> \in Seq(S) /\ Range(<<a>>) = {a} /\ DOMAIN <<a>> = 1 .. 1
BY DEF Range

LEMMA RangeAppend ==
  ASSUME NEW S, NEW s \in Seq(S), NEW a \in S
  PROVE  Append(s, a) \in Seq(S) /\ Append(s, a) = s \o <<a>>
BY DEF Range

LEMMA RangeHeadTail ==
  ASSUME NEW S, NEW s \in Seq(S), s # <<>>
  PROVE  /\ Head(s) \in S /\ Tail(s) \in Seq(S)
         /\ Range(s) = {Head(s)} \cup Range(Tail(s))
<1>1. /\ Head(s) \in S /\ Tail(s) \in Seq(S) /\ Len(Tail(s)) = Len(s) - 1
      /\ \A i \in 1 .. Len(Tail(s)) : Tail(s)[i] = s[i + 1]
  BY HeadTailProperties
<1>2. /\ Len(s) \in Nat \ {0} /\ DOMAIN s = 1 .. Len(s) /\ Head(s) = s[1]
      /\ DOMAIN Tail(s) = 1 .. Len(Tail(s))
  BY <1>1, LenProperties, EmptySeq
<1> DEFINE t == Tail(s)
<1> HIDE DEF t
<1>3. /\ \A i \in 1 .. Len(s) - 1 : t[i] = s[i + 1]
      /\ DOMAIN t = 1 .. Len(s) - 1
  BY <1>1, <1>2 DEF t
<1>4. Range(s) \subseteq {s[1]} \cup Range(t)
  <2>1. ASSUME NEW i \in 1 .. Len(s), i # 1 PROVE i - 1 \in DOMAIN t /\ t[i - 1] = s[i]
    BY <2>1, <1>2, <1>3
  <2> QED BY <2>1, <1>2 DEF Range
<1>5. {s[1]} \cup Range(t) \subseteq Range(s)
  <2>1. ASSUME NEW i \in DOMAIN t PROVE i + 1 \in DOMAIN s /\ t[i] = s[i + 1]
    BY <1>2, <1>3
  <2>2. 1 \in DOMAIN s
    BY <1>2
  <2> QED BY <2>1, <2>2 DEF Range
<1> QED BY <1>1, <1>2, <1>4, <1>5 DEF t

(***************************************************************************)
(* Groups and their order.                                                 *)
(***************************************************************************)
Sound == {f \in Fact : f.ts <= Infinity /\ f.ttl <= f.ldt}
GroupSet == [ck : Clusters \cup {0}, lo : Nat, hi : Nat, facts : SUBSET Sound]

\* The rows of a sequence of groups are in clustering order, each key once.
Ascending(s) ==
    \A i, j \in DOMAIN s : i < j /\ s[i].ck # 0 /\ s[j].ck # 0 => s[i].ck < s[j].ck

\* The clustering keys of the rows among some groups.
Keys(G) == {x.ck : x \in G} \ {0}

Below(A, B) == \A a \in A, b \in B : a < b

LEMMA KeysType == ASSUME NEW G, G \subseteq GroupSet PROVE Keys(G) \subseteq Clusters
BY DEF Keys, GroupSet

LEMMA KeysUnion == ASSUME NEW G, NEW H PROVE Keys(G \cup H) = Keys(G) \cup Keys(H)
BY DEF Keys

LEMMA KeyOf == ASSUME NEW s, NEW i \in DOMAIN s, s[i].ck # 0 PROVE s[i].ck \in Keys(Range(s))
BY DEF Keys, Range

LEMMA AscendingEmpty == Ascending(<<>>)
BY DEF Ascending

LEMMA AscendingOne == ASSUME NEW a PROVE Ascending(<<a>>)
BY DEF Ascending

LEMMA AscendingConcat ==
  ASSUME NEW s \in Seq(GroupSet), NEW t \in Seq(GroupSet),
         Ascending(s), Ascending(t), Below(Keys(Range(s)), Keys(Range(t)))
  PROVE  Ascending(s \o t)
<1> DEFINE u == s \o t
<1>1. /\ Len(u) = Len(s) + Len(t) /\ u \in Seq(GroupSet)
      /\ \A i \in 1 .. Len(s) + Len(t) :
            u[i] = IF i <= Len(s) THEN s[i] ELSE t[i - Len(s)]
  BY ConcatProperties
<1>2. /\ Len(s) \in Nat /\ Len(t) \in Nat
      /\ DOMAIN s = 1 .. Len(s) /\ DOMAIN t = 1 .. Len(t) /\ DOMAIN u = 1 .. Len(u)
  BY <1>1, LenProperties
<1> HIDE DEF u
<1> SUFFICES ASSUME NEW i \in DOMAIN u, NEW j \in DOMAIN u, i < j, u[i].ck # 0, u[j].ck # 0
             PROVE  u[i].ck < u[j].ck
  BY DEF Ascending, u
<1>3. CASE j <= Len(s)
  <2>1. i \in DOMAIN s /\ j \in DOMAIN s /\ u[i] = s[i] /\ u[j] = s[j]
    BY <1>3, <1>1, <1>2
  <2> QED BY <2>1 DEF Ascending
<1>4. CASE i > Len(s)
  <2>1. /\ i - Len(s) \in DOMAIN t /\ j - Len(s) \in DOMAIN t /\ i - Len(s) < j - Len(s)
        /\ u[i] = t[i - Len(s)] /\ u[j] = t[j - Len(s)]
    BY <1>4, <1>1, <1>2
  <2> QED BY <2>1 DEF Ascending
<1>5. CASE i <= Len(s) /\ j > Len(s)
  <2>1. /\ i \in DOMAIN s /\ j - Len(s) \in DOMAIN t
        /\ u[i] = s[i] /\ u[j] = t[j - Len(s)]
    BY <1>5, <1>1, <1>2
  <2>2. u[i].ck \in Keys(Range(s)) /\ u[j].ck \in Keys(Range(t))
    BY <2>1, KeyOf
  <2> QED BY <2>2 DEF Below
<1> QED BY <1>3, <1>4, <1>5, <1>2

LEMMA AscendingTail ==
  ASSUME NEW s \in Seq(GroupSet), s # <<>>, Ascending(s)
  PROVE  Ascending(Tail(s)) /\ Below(Keys({Head(s)}), Keys(Range(Tail(s))))
<1>1. /\ Tail(s) \in Seq(GroupSet) /\ Len(Tail(s)) = Len(s) - 1
      /\ \A i \in 1 .. Len(Tail(s)) : Tail(s)[i] = s[i + 1]
  BY HeadTailProperties
<1>2. /\ Len(s) \in Nat \ {0} /\ DOMAIN s = 1 .. Len(s) /\ Head(s) = s[1]
      /\ DOMAIN Tail(s) = 1 .. Len(Tail(s))
  BY <1>1, LenProperties, EmptySeq
<1> DEFINE t == Tail(s)
<1> HIDE DEF t
<1>3. \A i \in DOMAIN t : i \in Nat \ {0} /\ t[i] = s[i + 1] /\ i + 1 \in DOMAIN s
  BY <1>1, <1>2 DEF t
<1>4. Ascending(t)
  <2> SUFFICES ASSUME NEW i \in DOMAIN t, NEW j \in DOMAIN t, i < j,
                      t[i].ck # 0, t[j].ck # 0
               PROVE  t[i].ck < t[j].ck
    BY DEF Ascending
  <2>1. i + 1 < j + 1
    BY <1>3
  <2> QED BY <1>3, <2>1 DEF Ascending
<1>5. ASSUME NEW i \in DOMAIN t, t[i].ck # 0, s[1].ck # 0 PROVE s[1].ck < t[i].ck
  <2>1. 1 < i + 1 /\ 1 \in DOMAIN s /\ i + 1 \in DOMAIN s /\ t[i] = s[i + 1]
    BY <1>2, <1>3
  <2> QED BY <2>1, <1>5 DEF Ascending
<1>6. Below(Keys({s[1]}), Keys(Range(t)))
  BY <1>5 DEF Below, Keys, Range
<1> QED BY <1>2, <1>4, <1>6 DEF t

(***************************************************************************)
(* The filter of reshadow_and_flush_awaiting: it keeps the groups that     *)
(* have facts, all of them and in their order.  The position of the k-th   *)
(* kept group exists because the count of kept positions up to i grows by  *)
(* at most one with i.                                                     *)
(***************************************************************************)
Count(K, i) == Cardinality({j \in K : j <= i})

LEMMA CountGrows ==
  ASSUME NEW n \in Nat, NEW K \in SUBSET (1 .. n)
  PROVE  /\ IsFiniteSet(K) /\ Cardinality(K) \in Nat /\ Count(K, n) = Cardinality(K)
         /\ Count(K, 0) = 0
         /\ \A i \in 0 .. n : Count(K, i) \in Nat
         /\ \A i \in 1 .. n : Count(K, i) = Count(K, i - 1) + (IF i \in K THEN 1 ELSE 0)
<1>1. IsFiniteSet(1 .. n)
  BY FS_Interval
<1>2. ASSUME NEW L \in SUBSET K PROVE IsFiniteSet(L) /\ Cardinality(L) \in Nat
  <2>1. L \in SUBSET (1 .. n)
    OBVIOUS
  <2>2. IsFiniteSet(L)
    BY <1>1, <2>1, FS_Subset
  <2> QED BY <2>2, FS_CardinalityType
<1>0. \A j \in K : j \in Nat /\ j >= 1 /\ j <= n
  OBVIOUS
<1>3. {j \in K : j <= n} = K /\ {j \in K : j <= 0} = {}
  <2>1. \A j \in K : j <= n /\ ~(j <= 0)
    BY <1>0
  <2> QED BY <2>1
<1>4. ASSUME NEW i \in 1 .. n
      PROVE  Count(K, i) = Count(K, i - 1) + (IF i \in K THEN 1 ELSE 0)
  <2> DEFINE L == {j \in K : j <= i - 1}
  <2>1. i \notin L /\ {j \in K : j <= i} = (IF i \in K THEN L \cup {i} ELSE L)
    <3>1. \A j \in K : j <= i <=> j <= i - 1 \/ j = i
      BY <1>0
    <3>2. ~(i <= i - 1)
      OBVIOUS
    <3> QED BY <3>1, <3>2
  <2>2. IsFiniteSet(L) /\ Cardinality(L) \in Nat
    BY <1>2
  <2> HIDE DEF L
  <2>3. Cardinality(L \cup {i}) = Cardinality(L) + 1
    BY <2>1, <2>2, FS_AddElement
  <2>4. Count(K, i) = Cardinality(IF i \in K THEN L \cup {i} ELSE L)
    BY <2>1 DEF Count
  <2>5. Count(K, i - 1) = Cardinality(L)
    BY DEF Count, L
  <2> QED BY <2>2, <2>3, <2>4, <2>5
<1>5. \A i \in 0 .. n : Count(K, i) \in Nat
  BY <1>2 DEF Count
<1>6. IsFiniteSet(K) /\ Cardinality(K) \in Nat
  BY <1>2
<1>7. Count(K, n) = Cardinality(K) /\ Count(K, 0) = 0
  BY <1>3, FS_EmptySet DEF Count
<1> QED BY <1>4, <1>5, <1>6, <1>7

LEMMA CountMonotone ==
  ASSUME NEW n \in Nat, NEW K \in SUBSET (1 .. n), NEW i \in K, NEW j \in K, i < j
  PROVE  Count(K, i) < Count(K, j)
<1> DEFINE A == {x \in K : x <= i}
           B == {x \in K : x <= j}
<1>1. A \subseteq B /\ j \in B /\ j \notin A /\ B \subseteq 1 .. n
  <2>1. \A x \in K : x \in 1 .. n
    OBVIOUS
  <2>2. \A x \in K : x <= i => x <= j
    BY <2>1
  <2>3. j <= j /\ ~(j <= i)
    BY <2>1
  <2> QED BY <2>1, <2>2, <2>3
<1>2. IsFiniteSet(B)
  <2>1. IsFiniteSet(1 .. n)
    BY FS_Interval
  <2> HIDE DEF B
  <2> QED BY <1>1, <2>1, FS_Subset
<1> HIDE DEF A, B
<1>3. Cardinality(A) <= Cardinality(B) /\ Cardinality(A) # Cardinality(B)
  <2>1. A \in SUBSET B /\ A # B
    BY <1>1
  <2> QED BY <2>1, <1>2, FS_Subset
<1>4. Cardinality(A) \in Nat /\ Cardinality(B) \in Nat
  BY <1>1, <1>2, FS_Subset, FS_CardinalityType
<1> QED BY <1>3, <1>4 DEF Count, A, B

LEMMA NthExists ==
  ASSUME NEW n \in Nat, NEW K \in SUBSET (1 .. n), NEW k \in 1 .. Cardinality(K)
  PROVE  \E i \in K : Count(K, i) = k
<1>1. /\ Cardinality(K) \in Nat /\ Count(K, n) = Cardinality(K) /\ Count(K, 0) = 0
      /\ \A i \in 0 .. n : Count(K, i) \in Nat
      /\ \A i \in 1 .. n : Count(K, i) = Count(K, i - 1) + (IF i \in K THEN 1 ELSE 0)
  BY CountGrows
<1> DEFINE T == {i \in 0 .. n : Count(K, i) >= k}
<1>2. T \in SUBSET Nat /\ T # {}
  BY <1>1
<1>3. PICK i \in T : \A j \in T : i <= j
  <2> HIDE DEF T
  <2> QED BY <1>2, LeastNat
<1>4. i \in 1 .. n /\ Count(K, i) >= k
  BY <1>1, <1>3
<1>5. i - 1 \in 0 .. n /\ ~(Count(K, i - 1) >= k)
  BY <1>3, <1>4
<1>6. Count(K, i) = Count(K, i - 1) + (IF i \in K THEN 1 ELSE 0)
  BY <1>1, <1>4
<1>7. Count(K, i) \in Nat /\ Count(K, i - 1) \in Nat
  BY <1>1, <1>4, <1>5
<1>8. i \in K /\ Count(K, i) = k
  BY <1>4, <1>5, <1>6, <1>7
<1> QED BY <1>8

LEMMA SurvivorsOf ==
  ASSUME NEW s \in Seq(GroupSet)
  PROVE  /\ Survivors(s) \in Seq(GroupSet)
         /\ Range(Survivors(s)) = {x \in Range(s) : x.facts # {}}
         /\ Ascending(s) => Ascending(Survivors(s))
<1> DEFINE K == {i \in DOMAIN s : s[i].facts # {}}
           nth(k) == CHOOSE i \in K : Cardinality({j \in K : j <= i}) = k
           n == Cardinality(K)
           S == [k \in 1 .. n |-> s[nth(k)]]
<1>1. Survivors(s) = S
  BY DEF Survivors
<1>2. Len(s) \in Nat /\ DOMAIN s = 1 .. Len(s) /\ \A i \in DOMAIN s : s[i] \in GroupSet
  BY LenProperties, ElementOfSeq
<1>3. K \in SUBSET (1 .. Len(s))
  BY <1>2
<1>4. n \in Nat
  BY <1>2, <1>3, CountGrows
<1>5. ASSUME NEW k \in 1 .. n PROVE nth(k) \in K /\ Count(K, nth(k)) = k
  <2> HIDE DEF K
  <2>1. \E i \in K : Cardinality({j \in K : j <= i}) = k
    BY <1>2, <1>3, NthExists DEF Count
  <2> QED BY <2>1 DEF Count
<1>6. ASSUME NEW k \in 1 .. n, NEW l \in 1 .. n, k < l PROVE nth(k) < nth(l)
  <2>1. nth(k) \in K /\ nth(l) \in K /\ Count(K, nth(k)) = k /\ Count(K, nth(l)) = l
    BY <1>5
  <2>2. nth(k) \in 1 .. Len(s) /\ nth(l) \in 1 .. Len(s)
    BY <2>1, <1>3
  <2> HIDE DEF K, nth, n
  <2>3. ~(nth(l) < nth(k))
    <3>1. nth(l) < nth(k) => l < k
      BY <1>2, <1>3, <2>1, CountMonotone
    <3> QED BY <3>1, <1>6, <1>4
  <2>4. nth(l) # nth(k)
    BY <1>6, <2>1, <1>4
  <2> QED BY <2>2, <2>3, <2>4
<1>7. ASSUME NEW i \in K PROVE \E k \in 1 .. n : nth(k) = i
  <2>1. Count(K, i) \in 1 .. n
    <3>1. {j \in K : j <= i} \in SUBSET K /\ i \in {j \in K : j <= i}
      BY <1>2
    <3>2. IsFiniteSet(K)
      BY <1>2, <1>3, CountGrows
    <3> DEFINE L == {j \in K : j <= i}
    <3> HIDE DEF K, L
    <3>3. IsFiniteSet(L) /\ Cardinality(L) <= Cardinality(K)
      BY <3>1, <3>2, FS_Subset DEF L
    <3>4. Cardinality(L) \in Nat /\ Cardinality(L) # 0
      BY <3>1, <3>3, FS_CardinalityType, FS_EmptySet DEF L
    <3> QED BY <3>3, <3>4, <1>4 DEF Count, L
  <2> DEFINE k == Count(K, i)
  <2> HIDE DEF k
  <2>2. k \in 1 .. n
    BY <2>1 DEF k
  <2>3. nth(k) \in K /\ Count(K, nth(k)) = k
    BY <1>5, <2>2
  <2>4. nth(k) \in 1 .. Len(s) /\ i \in 1 .. Len(s) /\ k \in Nat
    BY <2>2, <2>3, <1>3, <1>4
  <2> HIDE DEF K, nth, n
  <2>5. ~(nth(k) < i) /\ ~(i < nth(k))
    <3>1. Count(K, i) = k
      BY DEF k
    <3>2. nth(k) < i => k < k
      BY <1>2, <1>3, <1>7, <2>3, <3>1, CountMonotone
    <3>3. i < nth(k) => k < k
      BY <1>2, <1>3, <1>7, <2>3, <3>1, CountMonotone
    <3> QED BY <3>2, <3>3, <2>4
  <2>6. nth(k) = i
    BY <2>4, <2>5
  <2> QED BY <2>2, <2>6
<1>8. \A k \in 1 .. n : nth(k) \in DOMAIN s /\ s[nth(k)] \in GroupSet /\ s[nth(k)].facts # {}
  BY <1>5, <1>2
<1>9. S \in Seq(GroupSet) /\ DOMAIN S = 1 .. n
  <2> HIDE DEF nth, n, K
  <2> QED BY <1>8, <1>4
<1>10. Range(S) = {x \in Range(s) : x.facts # {}}
  <2>1. Range(S) = {s[nth(k)] : k \in 1 .. n}
    <3> HIDE DEF nth, n, K
    <3> QED BY DEF Range
  <2>2. {s[nth(k)] : k \in 1 .. n} \subseteq {x \in Range(s) : x.facts # {}}
    <3> HIDE DEF nth, n, K
    <3> QED BY <1>8 DEF Range
  <2>3. ASSUME NEW x \in Range(s), x.facts # {} PROVE x \in {s[nth(k)] : k \in 1 .. n}
    <3>1. PICK i \in DOMAIN s : x = s[i]
      BY DEF Range
    <3>2. i \in K
      BY <3>1, <2>3
    <3> HIDE DEF nth, n, K
    <3> QED BY <3>1, <3>2, <1>7
  <2> HIDE DEF nth, n, K
  <2> QED BY <2>1, <2>2, <2>3
<1>11. ASSUME Ascending(s) PROVE Ascending(S)
  <2> HIDE DEF nth, n, K
  <2> SUFFICES ASSUME NEW k \in 1 .. n, NEW l \in 1 .. n, k < l,
                      S[k].ck # 0, S[l].ck # 0
               PROVE  S[k].ck < S[l].ck
    BY DEF Ascending
  <2>1. nth(k) < nth(l) /\ nth(k) \in DOMAIN s /\ nth(l) \in DOMAIN s
    BY <1>6, <1>8
  <2>2. S[k] = s[nth(k)] /\ S[l] = s[nth(l)]
    OBVIOUS
  <2> HIDE DEF S
  <2> QED BY <2>1, <2>2, <1>11 DEF Ascending
<1> HIDE DEF S
<1> QED BY <1>1, <1>9, <1>10, <1>11

\* SetToSeq lists a finite set.
LEMMA SetToSeqOf ==
  ASSUME NEW X, IsFiniteSet(X), X \subseteq GroupSet
  PROVE  SetToSeq(X) \in Seq(GroupSet) /\ Range(SetToSeq(X)) = X
<1> DEFINE n == Cardinality(X)
           s == SetToSeq(X)
<1>1. n \in Nat /\ ExistsBijection(1 .. n, X)
  BY FS_CardinalityType
<1>2. \E f \in [1 .. n -> X] : IsInjective(f)
  BY <1>1 DEF ExistsBijection, Bijection, Injection
<1>3. s \in [1 .. n -> X] /\ IsInjective(s)
  BY <1>2 DEF SetToSeq
<1> HIDE DEF s
<1>4. s \in Injection(1 .. n, X)
  BY <1>3 DEF Injection
<1>5. Cardinality(1 .. n) = n
  BY <1>1, FS_Interval
<1>6. s \in Surjection(1 .. n, X)
  BY <1>4, <1>5, FS_Injection
<1>7. Range(s) = X
  BY <1>3, <1>6 DEF Surjection, Range
<1>8. s \in Seq(GroupSet)
  <2> HIDE DEF n
  <2> QED BY <1>1, <1>3
<1> QED BY <1>7, <1>8 DEF s

(***************************************************************************)
(* The steps of the StreamingMerger on a checkpoint: which fields they     *)
(* change, and to what.                                                    *)
(***************************************************************************)
ClusterSet == [ck : Clusters \cup {0}, facts : SUBSET Sound]

Checkpoint ==
    [part : Partitions \cup {0}, pending : Seq(GroupSet), ranges : SUBSET GroupSet,
     pdel : SUBSET Sound, resolved : BOOLEAN, cluster : ClusterSet,
     awaiting : Seq(GroupSet), emitted : BOOLEAN, rows : Seq(GroupSet)]

\* The fields no step but the drain loop's changes.
SameKept(d, c) == d.part = c.part /\ d.rows = c.rows

LEMMA FreshType == fresh \in Checkpoint
<1>1. NoCluster \in ClusterSet
  BY DEF NoCluster, ClusterSet
<1>2. <<>> \in Seq(GroupSet)
  BY EmptySeq
<1> QED BY <1>1, <1>2 DEF fresh, Checkpoint

LEMMA ReconciledType ==
  ASSUME NEW F \in SUBSET Sound, NEW g
  PROVE  reconcile_cluster(F, g) \in SUBSET Sound
<1>1. ASSUME NEW c \in Sound
      PROVE  [c EXCEPT !.kind = "celldel", !.ttl = 0, !.ldt = c.ldt - c.ttl] \in Sound
  <2>1. c.ts \in Nat /\ c.ldt \in Nat /\ c.ttl \in Nat /\ c.ts <= Infinity /\ c.ttl <= c.ldt
    BY DEF Sound, Fact
  <2>2. c.ldt - c.ttl \in Nat
    BY <2>1
  <2> DEFINE n == c.ldt - c.ttl
             x == [c EXCEPT !.kind = "celldel", !.ttl = 0, !.ldt = n]
  <2> HIDE DEF n
  <2>3. x \in Fact /\ x.ts = c.ts /\ x.ttl = 0 /\ x.ldt = n
    BY <2>2 DEF Sound, Fact, CellKinds, n
  <2> HIDE DEF x
  <2>4. x \in Sound
    BY <2>1, <2>2, <2>3 DEF Sound, n
  <2> QED BY <2>4 DEF x, n
<1>2. Of(F, CellKinds) \subseteq Sound /\ Of(F, {"rowdel"}) \subseteq Sound
      /\ Of(F, {"coldel"}) \subseteq Sound
  BY DEF Of
<1> DEFINE won == apply_complex_deletions(resolve_cell_winners(F), F)
           kept == shadow_by_row_deletion(won, F)
           live == expire_ttl_cells(kept, g)
<1>3. kept \subseteq Sound
  BY <1>2 DEF shadow_by_row_deletion, apply_complex_deletions, resolve_cell_winners
<1>4. live \subseteq Sound
  <2> HIDE DEF kept
  <2> QED BY <1>1, <1>3 DEF expire_ttl_cells
<1>5. /\ purge_gc_grace(live, g) \subseteq Sound
      /\ purge_gc_grace(Newest(Of(F, {"rowdel"})), g) \subseteq Sound
      /\ purge_gc_grace(Newest(Of(F, {"coldel"})), g) \subseteq Sound
  <2> HIDE DEF live
  <2> QED BY <1>2, <1>4 DEF purge_gc_grace, Newest
<1> HIDE DEF live
<1> QED BY <1>5 DEF reconcile_cluster, build, live, kept, won

LEMMA ShadowingType ==
  ASSUME NEW F \in SUBSET Sound, NEW D, NEW g
  PROVE  apply_shadowing(F, D) \in SUBSET Sound /\ purge_gc_grace(F, g) \in SUBSET Sound
BY DEF apply_shadowing, purge_gc_grace

LEMMA OneGroupOf ==
  ASSUME NEW ck \in Clusters \cup {0}, NEW lo \in Nat, NEW hi \in Nat,
         NEW F \in SUBSET Sound
  PROVE  LET s == OneGroup(ck, lo, hi, F)
         IN  /\ s \in Seq(GroupSet) /\ Ascending(s)
             /\ Range(s) = IF F = {} THEN {} ELSE {Group(ck, lo, hi, F)}
<1>1. CASE F = {}
  BY <1>1, EmptySeq, AscendingEmpty, RangeEmpty DEF OneGroup
<1>2. CASE F # {}
  <2> DEFINE a == Group(ck, lo, hi, F)
  <2>1. a \in GroupSet
    BY DEF Group, GroupSet
  <2> HIDE DEF a
  <2>2. <<a>> \in Seq(GroupSet) /\ Range(<<a>>) = {a} /\ Ascending(<<a>>)
    BY <2>1, RangeOne, AscendingOne
  <2> QED BY <2>2, <1>2 DEF OneGroup, a
<1> QED BY <1>1, <1>2

LEMMA LastClusterType == LastCluster \in Clusters /\ \A n \in Clusters : n <= LastCluster
BY StreamingMergeAssumption DEF LastCluster

\* What resolve_partition_prefix puts in front of the partition's rows.
Prefix(c) ==
    IF c.resolved THEN <<>> ELSE OneGroup(0, 1, LastCluster, purge_gc_grace(c.pdel, gc))

LEMMA PrefixOf ==
  ASSUME NEW c \in Checkpoint
  PROVE  /\ Prefix(c) \in Seq(GroupSet) /\ Ascending(Prefix(c))
         /\ Range(Prefix(c)) =
               IF c.resolved \/ purge_gc_grace(c.pdel, gc) = {} THEN {}
               ELSE {Group(0, 1, LastCluster, purge_gc_grace(c.pdel, gc))}
<1>1. c.pdel \in SUBSET Sound
  BY DEF Checkpoint
<1>2. LastCluster \in Nat
  BY LastClusterType, StreamingMergeAssumption
<1>3. purge_gc_grace(c.pdel, gc) \in SUBSET Sound
  BY <1>1, ShadowingType
<1> DEFINE F == purge_gc_grace(c.pdel, gc)
<1> HIDE DEF F
<1>0. F \in SUBSET Sound /\ 1 \in Nat /\ 0 \in Clusters \cup {0}
  BY <1>3 DEF F
<1>4. /\ OneGroup(0, 1, LastCluster, F) \in Seq(GroupSet)
      /\ Ascending(OneGroup(0, 1, LastCluster, F))
      /\ Range(OneGroup(0, 1, LastCluster, F)) =
            IF F = {} THEN {} ELSE {Group(0, 1, LastCluster, F)}
  BY <1>0, <1>2, OneGroupOf
<1>5. <<>> \in Seq(GroupSet) /\ Ascending(<<>>) /\ Range(<<>>) = {}
  BY EmptySeq, AscendingEmpty, RangeEmpty
<1> QED BY <1>4, <1>5 DEF Prefix, F

LEMMA ResolveFields ==
  ASSUME NEW c \in Checkpoint
  PROVE  LET d == resolve_partition_prefix(c)
         IN  /\ d \in Checkpoint /\ SameKept(d, c)
             /\ d.ranges = c.ranges /\ d.pdel = c.pdel /\ d.cluster = c.cluster
             /\ d.awaiting = c.awaiting /\ d.emitted = c.emitted
             /\ d.resolved = TRUE /\ d.pending = c.pending \o Prefix(c)
<1> DEFINE d == resolve_partition_prefix(c)
<1>1. Prefix(c) \in Seq(GroupSet) /\ c.pending \in Seq(GroupSet)
  BY PrefixOf DEF Checkpoint
<1>2. CASE c.resolved
  <2>1. d = c
    BY <1>2 DEF resolve_partition_prefix
  <2>2. Prefix(c) = <<>> /\ c.pending \o <<>> = c.pending
    BY <1>2, <1>1, ConcatEmptySeq DEF Prefix
  <2>3. c.resolved = TRUE
    BY <1>2 DEF Checkpoint
  <2> HIDE DEF d
  <2> QED BY <2>1, <2>2, <2>3 DEF SameKept, d
<1>3. CASE ~c.resolved
  <2> DEFINE P == c.pending \o Prefix(c)
  <2>1. d = [c EXCEPT !.resolved = TRUE, !.pending = P]
    BY <1>3 DEF resolve_partition_prefix, Prefix
  <2>2. P \in Seq(GroupSet)
    BY <1>1, ConcatProperties
  <2> HIDE DEF P, d
  <2>3. d \in Checkpoint
    BY <2>1, <2>2 DEF Checkpoint
  <2> QED BY <2>1, <2>3 DEF SameKept, d, P, Checkpoint
<1> QED BY <1>2, <1>3

\* What finalize_current_cluster makes of the cluster: groups that go out, or
\* groups that wait for the range tombstones to come.
Reconciled(c) == reconcile_cluster(c.cluster.facts, gc)

GoesOut(c) ==
    IF c.cluster = NoCluster \/ Reconciled(c) = {} \/ c.ranges # {} THEN <<>>
    ELSE OneGroup(c.cluster.ck, c.cluster.ck, c.cluster.ck,
                  apply_shadowing(Reconciled(c), c.pdel))

Waits(c) ==
    IF c.cluster = NoCluster \/ Reconciled(c) = {} \/ c.ranges = {} THEN <<>>
    ELSE <<Group(c.cluster.ck, c.cluster.ck, c.cluster.ck, Reconciled(c))>>

LEMMA FinalGroups ==
  ASSUME NEW c \in Checkpoint
  PROVE  /\ GoesOut(c) \in Seq(GroupSet) /\ Ascending(GoesOut(c))
         /\ Waits(c) \in Seq(GroupSet) /\ Ascending(Waits(c))
         /\ Range(GoesOut(c)) =
               IF \/ c.cluster = NoCluster \/ Reconciled(c) = {} \/ c.ranges # {}
                  \/ apply_shadowing(Reconciled(c), c.pdel) = {}
               THEN {}
               ELSE {Group(c.cluster.ck, c.cluster.ck, c.cluster.ck,
                           apply_shadowing(Reconciled(c), c.pdel))}
         /\ Range(Waits(c)) =
               IF c.cluster = NoCluster \/ Reconciled(c) = {} \/ c.ranges = {} THEN {}
               ELSE {Group(c.cluster.ck, c.cluster.ck, c.cluster.ck, Reconciled(c))}
<1> DEFINE ck == c.cluster.ck
           F == Reconciled(c)
           G == apply_shadowing(F, c.pdel)
           a == Group(ck, ck, ck, F)
<1>1. ck \in Clusters \cup {0} /\ ck \in Nat /\ c.cluster.facts \in SUBSET Sound
  <2>1. c.cluster \in ClusterSet
    BY DEF Checkpoint
  <2>2. ck \in Clusters \cup {0} /\ c.cluster.facts \in SUBSET Sound
    BY <2>1 DEF ClusterSet
  <2> HIDE DEF ck
  <2> QED BY <2>2, StreamingMergeAssumption
<1>2. F \in SUBSET Sound
  BY <1>1, ReconciledType DEF Reconciled
<1>3. G \in SUBSET Sound
  <2> HIDE DEF F
  <2> QED BY <1>2, ShadowingType
<1>4. a \in GroupSet
  <2> HIDE DEF F, ck
  <2> QED BY <1>1, <1>2 DEF Group, GroupSet
<1>5. <<>> \in Seq(GroupSet) /\ Ascending(<<>>) /\ Range(<<>>) = {}
  BY EmptySeq, AscendingEmpty, RangeEmpty
<1>6. <<a>> \in Seq(GroupSet) /\ Ascending(<<a>>) /\ Range(<<a>>) = {a}
  <2> HIDE DEF a
  <2> QED BY <1>4, RangeOne, AscendingOne
<1>7. /\ OneGroup(ck, ck, ck, G) \in Seq(GroupSet) /\ Ascending(OneGroup(ck, ck, ck, G))
      /\ Range(OneGroup(ck, ck, ck, G)) = IF G = {} THEN {} ELSE {Group(ck, ck, ck, G)}
  <2> HIDE DEF G, ck
  <2> QED BY <1>1, <1>3, OneGroupOf
<1>8. GoesOut(c) = IF c.cluster = NoCluster \/ F = {} \/ c.ranges # {} THEN <<>>
                   ELSE OneGroup(ck, ck, ck, G)
  BY DEF GoesOut
<1>9. Waits(c) = IF c.cluster = NoCluster \/ F = {} \/ c.ranges = {} THEN <<>> ELSE <<a>>
  BY DEF Waits
<1> HIDE DEF F, G, a, ck
<1>10. /\ GoesOut(c) \in Seq(GroupSet) /\ Ascending(GoesOut(c))
       /\ Range(GoesOut(c)) = IF c.cluster = NoCluster \/ F = {} \/ c.ranges # {} \/ G = {}
                              THEN {} ELSE {Group(ck, ck, ck, G)}
  BY <1>5, <1>7, <1>8
<1>11. /\ Waits(c) \in Seq(GroupSet) /\ Ascending(Waits(c))
       /\ Range(Waits(c)) = IF c.cluster = NoCluster \/ F = {} \/ c.ranges = {}
                            THEN {} ELSE {a}
  BY <1>5, <1>6, <1>9
<1> QED BY <1>10, <1>11 DEF F, G, a, ck

LEMMA FinalizeFields ==
  ASSUME NEW c \in Checkpoint
  PROVE  LET d == finalize_current_cluster(c)
         IN  /\ d \in Checkpoint /\ SameKept(d, c)
             /\ d.ranges = c.ranges /\ d.pdel = c.pdel /\ d.emitted = c.emitted
             /\ d.resolved = TRUE /\ d.cluster = NoCluster
             /\ d.pending = (c.pending \o Prefix(c)) \o GoesOut(c)
             /\ d.awaiting = c.awaiting \o Waits(c)
<1> DEFINE b == resolve_partition_prefix(c)
           e == [b EXCEPT !.cluster = NoCluster]
           d == finalize_current_cluster(c)
           ck == c.cluster.ck
           F == Reconciled(c)
           G == apply_shadowing(F, c.pdel)
           a == Group(ck, ck, ck, F)
<1>1. /\ b \in Checkpoint /\ SameKept(b, c)
      /\ b.ranges = c.ranges /\ b.pdel = c.pdel /\ b.awaiting = c.awaiting
      /\ b.emitted = c.emitted /\ b.resolved = TRUE /\ b.pending = c.pending \o Prefix(c)
  BY ResolveFields
<1>2. NoCluster \in ClusterSet
  BY DEF NoCluster, ClusterSet
<1> HIDE DEF b
<1>3. /\ e \in Checkpoint /\ SameKept(e, c)
      /\ e.ranges = c.ranges /\ e.pdel = c.pdel /\ e.awaiting = c.awaiting
      /\ e.emitted = c.emitted /\ e.resolved = TRUE /\ e.pending = c.pending \o Prefix(c)
      /\ e.cluster = NoCluster
  BY <1>1, <1>2 DEF Checkpoint, SameKept
<1>4. Shadowed(a, {}, c.pdel).facts = G /\ a.facts = F
  <2>1. a.facts = F /\ a = [ck |-> ck, lo |-> ck, hi |-> ck, facts |-> F]
    BY DEF Group
  <2>2. Shadowed(a, {}, c.pdel).facts = apply_shadowing(apply_shadowing(F, {}), c.pdel)
    <3> HIDE DEF F, ck
    <3>1. UNION {t.facts : t \in {y \in {} : Covers(y, a.ck)}} = {}
      OBVIOUS
    <3> QED BY <2>1, <3>1 DEF Shadowed
  <2>3. apply_shadowing(F, {}) = F
    BY DEF apply_shadowing
  <2> QED BY <2>1, <2>2, <2>3
<1>5. d = IF c.cluster = NoCluster \/ F = {} THEN e
          ELSE IF c.ranges = {} THEN [e EXCEPT !.pending = @ \o OneGroup(ck, ck, ck, G)]
          ELSE [e EXCEPT !.awaiting = Append(@, a)]
  <2>1. d = IF c.cluster = NoCluster \/ a.facts = {} THEN e
            ELSE IF c.ranges = {}
            THEN [e EXCEPT !.pending =
                     @ \o OneGroup(ck, ck, ck, Shadowed(a, {}, c.pdel).facts)]
            ELSE [e EXCEPT !.awaiting = Append(@, a)]
    BY DEF finalize_current_cluster, Reconciled, b
  <2> HIDE DEF e, d, a, F, G, ck
  <2> QED BY <2>1, <1>4
<1>6. /\ GoesOut(c) \in Seq(GroupSet) /\ Waits(c) \in Seq(GroupSet)
      /\ e.pending \in Seq(GroupSet) /\ e.awaiting \in Seq(GroupSet)
  BY <1>3, FinalGroups DEF Checkpoint
<1>7. GoesOut(c) = IF c.cluster = NoCluster \/ F = {} \/ c.ranges # {} THEN <<>>
                   ELSE OneGroup(ck, ck, ck, G)
  BY DEF GoesOut
<1>8. Waits(c) = IF c.cluster = NoCluster \/ F = {} \/ c.ranges = {} THEN <<>> ELSE <<a>>
  BY DEF Waits
<1> HIDE DEF e, d, a, F, G, ck
<1>9. e.pending \o <<>> = e.pending /\ e.awaiting \o <<>> = e.awaiting
  BY <1>6, ConcatEmptySeq
<1>10. CASE c.cluster = NoCluster \/ F = {}
  <2>1. d = e
    BY <1>5, <1>10
  <2>2. GoesOut(c) = <<>> /\ Waits(c) = <<>>
    BY <1>7, <1>8, <1>10
  <2> QED BY <2>1, <2>2, <1>3, <1>9 DEF d
<1>11. CASE ~(c.cluster = NoCluster \/ F = {}) /\ c.ranges = {}
  <2> DEFINE P == e.pending \o GoesOut(c)
  <2>1. d = [e EXCEPT !.pending = P] /\ Waits(c) = <<>>
    BY <1>5, <1>7, <1>8, <1>11
  <2>2. P \in Seq(GroupSet)
    BY <1>6, ConcatProperties
  <2>3. P = (c.pending \o Prefix(c)) \o GoesOut(c)
    BY <1>3
  <2> HIDE DEF P
  <2>4. /\ d \in Checkpoint /\ SameKept(d, e) /\ d.ranges = e.ranges /\ d.pdel = e.pdel
        /\ d.emitted = e.emitted /\ d.resolved = e.resolved /\ d.cluster = e.cluster
        /\ d.awaiting = e.awaiting /\ d.pending = P
    BY <2>1, <2>2, <1>3 DEF Checkpoint, SameKept
  <2> QED BY <2>1, <2>3, <2>4, <1>3, <1>9 DEF SameKept, d
<1>12. CASE ~(c.cluster = NoCluster \/ F = {}) /\ c.ranges # {}
  <2> DEFINE Q == e.awaiting \o Waits(c)
  <2>1. Waits(c) = <<a>> /\ GoesOut(c) = <<>>
    BY <1>7, <1>8, <1>12
  <2>2. a \in GroupSet
    <3>1. a \in Range(Waits(c))
      BY <2>1 DEF Range
    <3> QED BY <3>1, <1>6, RangeType
  <2>3. Append(e.awaiting, a) = Q /\ Q \in Seq(GroupSet)
    BY <2>1, <2>2, <1>6, RangeAppend
  <2>4. d = [e EXCEPT !.awaiting = Q]
    BY <2>3, <1>5, <1>12
  <2>5. Q = c.awaiting \o Waits(c)
    BY <1>3
  <2> HIDE DEF Q
  <2>6. /\ d \in Checkpoint /\ SameKept(d, e) /\ d.ranges = e.ranges /\ d.pdel = e.pdel
        /\ d.emitted = e.emitted /\ d.resolved = e.resolved /\ d.cluster = e.cluster
        /\ d.pending = e.pending /\ d.awaiting = Q
    BY <2>3, <2>4, <1>3 DEF Checkpoint, SameKept
  <2> QED BY <2>1, <2>5, <2>6, <1>3, <1>9 DEF SameKept, d
<1> QED BY <1>10, <1>11, <1>12

\* A fact at clustering key ck that no range tombstone in R over ck and no
\* partition deletion in P shadows.
Unshadowed(f, ck, R, P) ==
    /\ \A t \in R : Covers(t, ck) => \A d \in t.facts : f.ts > d.ts
    /\ \A d \in P : f.ts > d.ts

LEMMA ShadowedFields ==
  ASSUME NEW x \in GroupSet, NEW R, NEW P
  PROVE  LET y == Shadowed(x, R, P)
         IN  /\ y \in GroupSet /\ y.ck = x.ck /\ y.lo = x.lo /\ y.hi = x.hi
             /\ y.facts = {f \in x.facts : Unshadowed(f, x.ck, R, P)}
<1> DEFINE D == UNION {t.facts : t \in {z \in R : Covers(z, x.ck)}}
           F == apply_shadowing(apply_shadowing(x.facts, D), P)
           y == Shadowed(x, R, P)
<1>1. y = [x EXCEPT !.facts = F]
  BY DEF Shadowed
<1>2. F = {f \in x.facts : Unshadowed(f, x.ck, R, P)}
  <2>1. ASSUME NEW f
        PROVE  (\A d \in D : f.ts > d.ts)
                  <=> \A t \in R : Covers(t, x.ck) => \A d \in t.facts : f.ts > d.ts
    OBVIOUS
  <2> HIDE DEF D
  <2> QED BY <2>1 DEF apply_shadowing, Unshadowed
<1>3. F \in SUBSET Sound
  <2> HIDE DEF F
  <2> QED BY <1>2 DEF GroupSet
<1> HIDE DEF F
<1>4. y \in GroupSet /\ y.ck = x.ck /\ y.lo = x.lo /\ y.hi = x.hi /\ y.facts = F
  BY <1>1, <1>3 DEF GroupSet
<1> QED BY <1>2, <1>4

\* The groups reshadow_and_flush_awaiting lets go.
Released(c) ==
    IF c.awaiting = <<>> THEN <<>>
    ELSE Survivors([i \in DOMAIN c.awaiting |-> Shadowed(c.awaiting[i], c.ranges, c.pdel)])

LEMMA ReleasedGroups ==
  ASSUME NEW c \in Checkpoint
  PROVE  /\ Released(c) \in Seq(GroupSet)
         /\ Ascending(c.awaiting) => Ascending(Released(c))
         /\ Range(Released(c)) =
               {x \in {Shadowed(y, c.ranges, c.pdel) : y \in Range(c.awaiting)} :
                    x.facts # {}}
<1>1. CASE c.awaiting = <<>>
  BY <1>1, EmptySeq, AscendingEmpty, RangeEmpty DEF Released
<1>2. CASE c.awaiting # <<>>
  <2> DEFINE a == c.awaiting
             S(y) == Shadowed(y, c.ranges, c.pdel)
             s == [i \in DOMAIN a |-> S(a[i])]
  <2>1. a \in Seq(GroupSet)
    BY DEF Checkpoint
  <2>2. Len(a) \in Nat /\ DOMAIN a = 1 .. Len(a) /\ \A i \in DOMAIN a : a[i] \in GroupSet
    BY <2>1, LenProperties, ElementOfSeq
  <2> HIDE DEF a
  <2>3. \A i \in DOMAIN a : S(a[i]) \in GroupSet /\ S(a[i]).ck = a[i].ck
    BY <2>2, ShadowedFields
  <2> HIDE DEF S
  <2>4. /\ s \in Seq(GroupSet) /\ DOMAIN s = DOMAIN a
        /\ \A i \in DOMAIN a : s[i] = S(a[i]) /\ s[i].ck = a[i].ck
    BY <2>2, <2>3
  <2>5. Range(s) = {S(y) : y \in Range(a)}
    <3> HIDE DEF s
    <3> QED BY <2>4 DEF Range
  <2>6. Ascending(a) => Ascending(s)
    <3> HIDE DEF s
    <3> QED BY <2>4 DEF Ascending
  <2>7. Released(c) = Survivors(s)
    BY <1>2 DEF Released, a, S
  <2> HIDE DEF s
  <2>8. /\ Survivors(s) \in Seq(GroupSet)
        /\ Range(Survivors(s)) = {x \in Range(s) : x.facts # {}}
        /\ Ascending(s) => Ascending(Survivors(s))
    BY <2>4, SurvivorsOf
  <2>9. Range(Survivors(s)) = {x \in {S(y) : y \in Range(a)} : x.facts # {}}
    BY <2>5, <2>8
  <2> QED BY <2>6, <2>7, <2>8, <2>9 DEF a, S
<1> QED BY <1>1, <1>2

LEMMA ReshadowFields ==
  ASSUME NEW c \in Checkpoint
  PROVE  LET d == reshadow_and_flush_awaiting(c)
         IN  /\ d \in Checkpoint /\ SameKept(d, c)
             /\ d.ranges = c.ranges /\ d.pdel = c.pdel /\ d.emitted = c.emitted
             /\ d.resolved = c.resolved /\ d.cluster = c.cluster
             /\ d.pending = c.pending \o Released(c) /\ d.awaiting = <<>>
<1> DEFINE d == reshadow_and_flush_awaiting(c)
           P == c.pending \o Released(c)
<1>1. c.pending \in Seq(GroupSet) /\ Released(c) \in Seq(GroupSet) /\ <<>> \in Seq(GroupSet)
  BY ReleasedGroups, EmptySeq DEF Checkpoint
<1>2. P \in Seq(GroupSet)
  BY <1>1, ConcatProperties
<1>3. CASE c.awaiting = <<>>
  <2>1. d = c /\ Released(c) = <<>>
    BY <1>3 DEF reshadow_and_flush_awaiting, Released
  <2>2. c.pending \o <<>> = c.pending
    BY <1>1, ConcatEmptySeq
  <2> HIDE DEF d
  <2> QED BY <2>1, <2>2, <1>3 DEF SameKept, d
<1>4. CASE c.awaiting # <<>>
  <2>1. d = [c EXCEPT !.awaiting = <<>>, !.pending = P]
    BY <1>4 DEF reshadow_and_flush_awaiting, Released
  <2> HIDE DEF d, P
  <2>2. d \in Checkpoint
    BY <2>1, <1>1, <1>2 DEF Checkpoint
  <2> QED BY <2>1, <2>2 DEF SameKept, Checkpoint, d, P
<1> QED BY <1>3, <1>4

\* The range tombstones flush_range_tombstones writes.
Flushed(c) ==
    {x \in c.ranges : purge_gc_grace(apply_shadowing(x.facts, c.pdel), gc) # {}}

LEMMA FlushFields ==
  ASSUME NEW c \in Checkpoint, IsFiniteSet(c.ranges)
  PROVE  LET d == flush_range_tombstones(c)
         IN  /\ d \in Checkpoint /\ SameKept(d, c)
             /\ d.ranges = c.ranges /\ d.pdel = c.pdel /\ d.emitted = TRUE
             /\ d.resolved = c.resolved /\ d.cluster = c.cluster /\ d.awaiting = c.awaiting
             /\ d.pending = c.pending \o SetToSeq(Flushed(c))
             /\ SetToSeq(Flushed(c)) \in Seq(GroupSet)
             /\ Range(SetToSeq(Flushed(c))) = Flushed(c)
<1> DEFINE d == flush_range_tombstones(c)
           T == SetToSeq(Flushed(c))
           P == c.pending \o T
<1>1. Flushed(c) \subseteq GroupSet /\ IsFiniteSet(Flushed(c))
  <2>1. Flushed(c) \in SUBSET c.ranges /\ c.ranges \subseteq GroupSet
    BY DEF Flushed, Checkpoint
  <2> QED BY <2>1, FS_Subset
<1>2. T \in Seq(GroupSet) /\ Range(T) = Flushed(c)
  BY <1>1, SetToSeqOf
<1>3. d = [c EXCEPT !.emitted = TRUE, !.pending = P]
  BY DEF flush_range_tombstones, Flushed
<1> HIDE DEF T, d
<1>4. P \in Seq(GroupSet)
  BY <1>2, ConcatProperties DEF Checkpoint
<1> HIDE DEF P
<1>5. d \in Checkpoint
  BY <1>3, <1>4 DEF Checkpoint
<1> QED BY <1>2, <1>3, <1>5 DEF SameKept, Checkpoint, d, T, P

(***************************************************************************)
(* Order.  W is the set of keys the writer has of the partition, L that of *)
(* the keys the inputs still have.                                         *)
(***************************************************************************)
Out(c) == Range(c.rows) \cup Range(c.pending) \cup Range(c.awaiting)
ClusterKey(c) == {c.cluster.ck} \ {0}

Shape(c) ==
    /\ c.ranges = {} => c.awaiting = <<>>
    /\ c.cluster.ck = 0 => c.cluster = NoCluster
    /\ IsFiniteSet(c.ranges) /\ \A x \in c.ranges : x.ck = 0
    /\ ~c.resolved => c.pending = <<>> /\ c.awaiting = <<>> /\ c.rows = <<>>
    /\ c.part = 0 => c = fresh

Ordered(c, W, L) ==
    /\ Ascending(c.rows) /\ Ascending(c.pending) /\ Ascending(c.awaiting)
    /\ Below(Keys(Range(c.rows)), Keys(Range(c.pending)))
    /\ Below(Keys(Range(c.rows)), Keys(Range(c.awaiting)))
    /\ Below(Keys(Range(c.pending)), Keys(Range(c.awaiting)))
    /\ Below(Keys(Out(c)), ClusterKey(c) \cup L)
    /\ \A k \in ClusterKey(c), l \in L : k <= l
    /\ Below(W, Keys(Out(c)) \cup ClusterKey(c) \cup L)

LEMMA KeysOut ==
  ASSUME NEW c
  PROVE  Keys(Out(c)) = Keys(Range(c.rows)) \cup Keys(Range(c.pending))
                           \cup Keys(Range(c.awaiting))
BY DEF Keys, Out

LEMMA CheckpointParts ==
  ASSUME NEW c \in Checkpoint
  PROVE  /\ c.rows \in Seq(GroupSet) /\ c.pending \in Seq(GroupSet)
         /\ c.awaiting \in Seq(GroupSet) /\ c.cluster \in ClusterSet
         /\ Out(c) \subseteq GroupSet /\ Keys(Out(c)) \subseteq Nat
         /\ ClusterKey(c) \subseteq Nat /\ ClusterKey(c) \subseteq Clusters
         /\ c.ranges \subseteq GroupSet /\ c.pdel \subseteq Sound
         /\ c.cluster.facts \subseteq Sound
<1>1. /\ c.rows \in Seq(GroupSet) /\ c.pending \in Seq(GroupSet)
      /\ c.awaiting \in Seq(GroupSet) /\ c.cluster \in ClusterSet
      /\ c.ranges \subseteq GroupSet /\ c.pdel \subseteq Sound
  BY DEF Checkpoint
<1>2. /\ Range(c.rows) \subseteq GroupSet /\ Range(c.pending) \subseteq GroupSet
      /\ Range(c.awaiting) \subseteq GroupSet
  BY <1>1, RangeType
<1>3. Out(c) \subseteq GroupSet
  BY <1>2 DEF Out
<1>4. Keys(Out(c)) \subseteq Clusters
  BY <1>3, KeysType
<1>5. ClusterKey(c) \subseteq Clusters /\ c.cluster.facts \subseteq Sound
  BY <1>1 DEF ClusterKey, ClusterSet
<1> QED BY <1>1, <1>3, <1>4, <1>5, StreamingMergeAssumption

LEMMA KeysOne ==
  /\ Keys({}) = {}
  /\ \A ck, lo, hi, F : Keys({Group(ck, lo, hi, F)}) = {ck} \ {0}
<1>1. Keys({}) = {}
  BY DEF Keys
<1>2. ASSUME NEW ck, NEW lo, NEW hi, NEW F PROVE Keys({Group(ck, lo, hi, F)}) = {ck} \ {0}
  <2>1. Group(ck, lo, hi, F).ck = ck
    BY DEF Group
  <2> HIDE DEF Group
  <2> QED BY <2>1 DEF Keys
<1> QED BY <1>1, <1>2

LEMMA PrefixKeys == ASSUME NEW c \in Checkpoint PROVE Keys(Range(Prefix(c))) = {}
<1> DEFINE F == purge_gc_grace(c.pdel, gc)
<1> HIDE DEF F
<1>1. Range(Prefix(c)) = IF c.resolved \/ F = {} THEN {} ELSE {Group(0, 1, LastCluster, F)}
  BY PrefixOf DEF F
<1>2. Keys({}) = {} /\ Keys({Group(0, 1, LastCluster, F)}) = {0} \ {0}
  BY KeysOne
<1> QED BY <1>1, <1>2

LEMMA FinalKeys ==
  ASSUME NEW c \in Checkpoint
  PROVE  /\ Keys(Range(GoesOut(c))) \subseteq ClusterKey(c)
         /\ Keys(Range(Waits(c))) \subseteq ClusterKey(c)
         /\ c.ranges # {} => GoesOut(c) = <<>>
         /\ c.ranges = {} => Waits(c) = <<>>
<1> DEFINE ck == c.cluster.ck
           F == Reconciled(c)
           G == apply_shadowing(F, c.pdel)
<1>1. /\ Keys({}) = {} /\ Keys({Group(ck, ck, ck, F)}) = {ck} \ {0}
      /\ Keys({Group(ck, ck, ck, G)}) = {ck} \ {0}
  BY KeysOne
<1>2. Range(GoesOut(c)) = {} \/ Range(GoesOut(c)) = {Group(ck, ck, ck, G)}
  BY FinalGroups
<1>3. Range(Waits(c)) = {} \/ Range(Waits(c)) = {Group(ck, ck, ck, F)}
  BY FinalGroups
<1>4. /\ c.ranges # {} => GoesOut(c) = <<>>
      /\ c.ranges = {} => Waits(c) = <<>>
  BY DEF GoesOut, Waits
<1> HIDE DEF F, G
<1> QED BY <1>1, <1>2, <1>3, <1>4 DEF ClusterKey

LEMMA FinalizeOrdered ==
  ASSUME NEW c \in Checkpoint, NEW W \in SUBSET Nat, NEW L \in SUBSET Nat,
         Shape(c), Ordered(c, W, L), Below(ClusterKey(c), L), c.part # 0
  PROVE  LET d == finalize_current_cluster(c) IN Shape(d) /\ Ordered(d, W, L)
<1> DEFINE d == finalize_current_cluster(c)
           p == c.pending \o Prefix(c)
           q == p \o GoesOut(c)
           a == c.awaiting \o Waits(c)
           K == ClusterKey(c)
<1>1. /\ d \in Checkpoint /\ d.part = c.part /\ d.rows = c.rows /\ d.ranges = c.ranges
      /\ d.pdel = c.pdel /\ d.resolved = TRUE /\ d.cluster = NoCluster
      /\ d.pending = q /\ d.awaiting = a
  BY FinalizeFields DEF SameKept
<1>2. /\ c.rows \in Seq(GroupSet) /\ c.pending \in Seq(GroupSet)
      /\ c.awaiting \in Seq(GroupSet) /\ K \subseteq Nat /\ Keys(Out(c)) \subseteq Nat
  BY CheckpointParts
<1>3. /\ Prefix(c) \in Seq(GroupSet) /\ Ascending(Prefix(c)) /\ Keys(Range(Prefix(c))) = {}
      /\ GoesOut(c) \in Seq(GroupSet) /\ Ascending(GoesOut(c))
      /\ Waits(c) \in Seq(GroupSet) /\ Ascending(Waits(c))
  BY PrefixOf, PrefixKeys, FinalGroups
<1>4. /\ Keys(Range(GoesOut(c))) \subseteq K /\ Keys(Range(Waits(c))) \subseteq K
      /\ c.ranges # {} => GoesOut(c) = <<>>
      /\ c.ranges = {} => Waits(c) = <<>> /\ c.awaiting = <<>>
  BY FinalKeys DEF Shape
<1> HIDE DEF d, K
<1>5. p \in Seq(GroupSet) /\ Keys(Range(p)) = Keys(Range(c.pending)) /\ Ascending(p)
  <2>1. p \in Seq(GroupSet) /\ Range(p) = Range(c.pending) \cup Range(Prefix(c))
    BY <1>2, <1>3, RangeConcat
  <2>2. Below(Keys(Range(c.pending)), Keys(Range(Prefix(c))))
    BY <1>3 DEF Below
  <2>3. Ascending(p)
    BY <2>2, <1>2, <1>3, AscendingConcat DEF Ordered
  <2>4. Keys(Range(p)) = Keys(Range(c.pending)) \cup Keys(Range(Prefix(c)))
    BY <2>1, KeysUnion
  <2> HIDE DEF p
  <2> QED BY <2>1, <2>3, <2>4, <1>3
<1>6. /\ Below(Keys(Range(c.pending)), K) /\ Below(Keys(Range(c.rows)), K)
      /\ Below(Keys(Range(c.awaiting)), K) /\ Below(Keys(Out(c)), L)
      /\ Below(W, Keys(Out(c))) /\ Below(W, K) /\ Below(W, L) /\ Below(K, L)
      /\ Keys(Out(c)) = Keys(Range(c.rows)) \cup Keys(Range(c.pending))
                           \cup Keys(Range(c.awaiting))
  BY KeysOut DEF Ordered, Below, K
<1> HIDE DEF p
<1>7. /\ q \in Seq(GroupSet) /\ Ascending(q)
      /\ Keys(Range(q)) = Keys(Range(c.pending)) \cup Keys(Range(GoesOut(c)))
  <2>1. q \in Seq(GroupSet) /\ Range(q) = Range(p) \cup Range(GoesOut(c))
    BY <1>3, <1>5, RangeConcat
  <2>2. Below(Keys(Range(p)), Keys(Range(GoesOut(c))))
    BY <1>4, <1>5, <1>6 DEF Below
  <2>3. Ascending(q)
    BY <2>2, <1>3, <1>5, AscendingConcat
  <2> QED BY <2>1, <2>3, <1>5, KeysUnion
<1>8. /\ a \in Seq(GroupSet) /\ Ascending(a)
      /\ Keys(Range(a)) = Keys(Range(c.awaiting)) \cup Keys(Range(Waits(c)))
  <2>1. a \in Seq(GroupSet) /\ Range(a) = Range(c.awaiting) \cup Range(Waits(c))
    BY <1>2, <1>3, RangeConcat
  <2>2. Below(Keys(Range(c.awaiting)), Keys(Range(Waits(c))))
    BY <1>4, <1>6 DEF Below
  <2>3. Ascending(a)
    BY <2>2, <1>2, <1>3, AscendingConcat DEF Ordered
  <2> QED BY <2>1, <2>3, KeysUnion
<1>9. Keys(Range(GoesOut(c))) = {} \/ Keys(Range(a)) = {}
  <2>1. Keys(Range(<<>>)) = {}
    BY RangeEmpty DEF Keys
  <2> QED BY <2>1, <1>4, <1>8
<1> HIDE DEF q, a
<1>10. Keys(Out(d)) \subseteq Keys(Out(c)) \cup K
  BY <1>1, <1>4, <1>6, <1>7, <1>8, KeysOut
<1>11. ClusterKey(d) = {}
  BY <1>1 DEF ClusterKey, NoCluster
<1>12. Ordered(d, W, L)
  <2>1. Ascending(d.rows) /\ Ascending(d.pending) /\ Ascending(d.awaiting)
    BY <1>1, <1>7, <1>8 DEF Ordered
  <2>2. /\ Below(Keys(Range(c.rows)), Keys(Range(c.pending)))
        /\ Below(Keys(Range(c.rows)), Keys(Range(c.awaiting)))
        /\ Below(Keys(Range(c.pending)), Keys(Range(c.awaiting)))
    BY DEF Ordered
  <2>3. /\ Below(Keys(Range(d.rows)), Keys(Range(d.pending)))
        /\ Below(Keys(Range(d.rows)), Keys(Range(d.awaiting)))
    BY <2>2, <1>1, <1>4, <1>6, <1>7, <1>8 DEF Below
  <2>4. Below(Keys(Range(d.pending)), Keys(Range(d.awaiting)))
    BY <2>2, <1>1, <1>4, <1>6, <1>7, <1>8, <1>9 DEF Below
  <2>5. Below(Keys(Out(d)), L) /\ Below(W, Keys(Out(d)))
    BY <1>6, <1>10 DEF Below
  <2> QED BY <2>1, <2>3, <2>4, <2>5, <1>6, <1>11 DEF Ordered, Below
<1>13. Shape(d)
  <2>1. d.ranges = {} => d.awaiting = <<>>
    <3>1. <<>> \o <<>> = <<>>
      BY EmptySeq, ConcatEmptySeq
    <3> QED BY <3>1, <1>1, <1>4 DEF a
  <2> QED BY <2>1, <1>1 DEF Shape
<1> QED BY <1>12, <1>13 DEF d

LEMMA ReleasedKeys ==
  ASSUME NEW c \in Checkpoint
  PROVE  Keys(Range(Released(c))) \subseteq Keys(Range(c.awaiting))
<1>1. Range(c.awaiting) \subseteq GroupSet
  BY CheckpointParts, RangeType
<1>2. \A y \in Range(c.awaiting) : Shadowed(y, c.ranges, c.pdel).ck = y.ck
  BY <1>1, ShadowedFields
<1>3. Range(Released(c)) \subseteq {Shadowed(y, c.ranges, c.pdel) : y \in Range(c.awaiting)}
  BY ReleasedGroups
<1> QED BY <1>2, <1>3 DEF Keys

LEMMA ReshadowOrdered ==
  ASSUME NEW c \in Checkpoint, NEW W \in SUBSET Nat, NEW L \in SUBSET Nat,
         Shape(c), Ordered(c, W, L), c.part # 0
  PROVE  LET d == reshadow_and_flush_awaiting(c) IN Shape(d) /\ Ordered(d, W, L)
<1> DEFINE d == reshadow_and_flush_awaiting(c)
           p == c.pending \o Released(c)
<1>1. /\ d \in Checkpoint /\ d.part = c.part /\ d.rows = c.rows /\ d.ranges = c.ranges
      /\ d.pdel = c.pdel /\ d.resolved = c.resolved /\ d.cluster = c.cluster
      /\ d.pending = p /\ d.awaiting = <<>>
  BY ReshadowFields DEF SameKept
<1>2. c.pending \in Seq(GroupSet) /\ Released(c) \in Seq(GroupSet)
  BY CheckpointParts, ReleasedGroups
<1>3. Keys(Range(Released(c))) \subseteq Keys(Range(c.awaiting)) /\ Ascending(Released(c))
  BY ReleasedKeys, ReleasedGroups DEF Ordered
<1> HIDE DEF d
<1>4. p \in Seq(GroupSet) /\ Range(p) = Range(c.pending) \cup Range(Released(c))
  BY <1>2, RangeConcat
<1>5. Ascending(p)
  <2>1. Below(Keys(Range(c.pending)), Keys(Range(Released(c))))
    BY <1>3 DEF Below, Ordered
  <2> QED BY <2>1, <1>2, <1>3, AscendingConcat DEF Ordered
<1>6. Keys(Range(p)) = Keys(Range(c.pending)) \cup Keys(Range(Released(c)))
  BY <1>4, KeysUnion
<1>7. Keys(Range(d.awaiting)) = {}
  BY <1>1, RangeEmpty, KeysOne
<1> HIDE DEF p
<1>8. Keys(Out(d)) \subseteq Keys(Out(c)) /\ ClusterKey(d) = ClusterKey(c)
  BY <1>1, <1>3, <1>6, <1>7, KeysOut DEF ClusterKey
<1>9. Ordered(d, W, L)
  <2>1. Ascending(d.rows) /\ Ascending(d.pending) /\ Ascending(d.awaiting)
    BY <1>1, <1>5, AscendingEmpty DEF Ordered
  <2>2. /\ Below(Keys(Range(d.rows)), Keys(Range(d.pending)))
        /\ Below(Keys(Range(d.rows)), Keys(Range(d.awaiting)))
        /\ Below(Keys(Range(d.pending)), Keys(Range(d.awaiting)))
    BY <1>1, <1>3, <1>6, <1>7 DEF Below, Ordered
  <2>3. /\ Below(Keys(Out(d)), ClusterKey(d) \cup L)
        /\ Below(W, Keys(Out(d)) \cup ClusterKey(d) \cup L)
        /\ \A k \in ClusterKey(d), l \in L : k <= l
    BY <1>8 DEF Ordered, Below
  <2> QED BY <2>1, <2>2, <2>3 DEF Ordered
<1>10. Shape(d)
  <2>1. ~d.resolved => d.pending = <<>>
    <3> SUFFICES ASSUME ~c.resolved PROVE p = <<>>
      BY <1>1
    <3>1. c.pending = <<>> /\ Released(c) = <<>>
      BY DEF Shape, Released
    <3> QED BY <3>1, EmptySeq, ConcatEmptySeq DEF p
  <2> QED BY <2>1, <1>1 DEF Shape
<1> QED BY <1>9, <1>10 DEF d

LEMMA FlushOrdered ==
  ASSUME NEW c \in Checkpoint, NEW W \in SUBSET Nat, NEW L \in SUBSET Nat,
         Shape(c), Ordered(c, W, L), c.part # 0, c.resolved
  PROVE  LET d == flush_range_tombstones(c) IN Shape(d) /\ Ordered(d, W, L)
<1> DEFINE d == flush_range_tombstones(c)
           t == SetToSeq(Flushed(c))
           p == c.pending \o t
<1>1. /\ d \in Checkpoint /\ d.part = c.part /\ d.rows = c.rows /\ d.ranges = c.ranges
      /\ d.pdel = c.pdel /\ d.resolved = c.resolved /\ d.cluster = c.cluster
      /\ d.pending = p /\ d.awaiting = c.awaiting
      /\ t \in Seq(GroupSet) /\ Range(t) = Flushed(c)
  BY FlushFields DEF SameKept, Shape
<1>2. c.pending \in Seq(GroupSet)
  BY CheckpointParts
<1> HIDE DEF d, t
<1>3. \A x \in Range(t) : x.ck = 0
  BY <1>1 DEF Flushed, Shape
<1>4. Keys(Range(t)) = {} /\ Ascending(t)
  <2>1. \A i \in DOMAIN t : t[i].ck = 0
    BY <1>3 DEF Range
  <2> QED BY <1>3, <2>1 DEF Keys, Ascending
<1>5. p \in Seq(GroupSet) /\ Range(p) = Range(c.pending) \cup Range(t)
  BY <1>1, <1>2, RangeConcat
<1>6. Ascending(p)
  <2>1. Below(Keys(Range(c.pending)), Keys(Range(t)))
    BY <1>4 DEF Below
  <2> QED BY <2>1, <1>1, <1>2, <1>4, AscendingConcat DEF Ordered
<1>7. Keys(Range(p)) = Keys(Range(c.pending))
  <2>1. Keys(Range(p)) = Keys(Range(c.pending)) \cup Keys(Range(t))
    BY <1>5, KeysUnion
  <2> HIDE DEF p
  <2> QED BY <2>1, <1>4
<1> HIDE DEF p
<1>8. Keys(Out(d)) = Keys(Out(c)) /\ ClusterKey(d) = ClusterKey(c)
  BY <1>1, <1>7, KeysOut DEF ClusterKey
<1>9. Ordered(d, W, L)
  BY <1>1, <1>6, <1>7, <1>8 DEF Ordered
<1>10. Shape(d)
  BY <1>1 DEF Shape
<1> QED BY <1>9, <1>10 DEF d

\* cluster_group: a group goes from the pending ones to the buffered rows.
Popped(c) == [c EXCEPT !.pending = Tail(@), !.rows = Append(@, Head(c.pending))]

LEMMA PoppedFields ==
  ASSUME NEW c \in Checkpoint, c.pending # <<>>
  PROVE  LET d == Popped(c)
         IN  /\ d \in Checkpoint /\ d.part = c.part /\ d.ranges = c.ranges
             /\ d.pdel = c.pdel /\ d.resolved = c.resolved /\ d.cluster = c.cluster
             /\ d.emitted = c.emitted /\ d.awaiting = c.awaiting
             /\ d.pending = Tail(c.pending) /\ d.rows = c.rows \o <<Head(c.pending)>>
             /\ Range(d.rows) = Range(c.rows) \cup {Head(c.pending)}
             /\ Range(c.pending) = {Head(c.pending)} \cup Range(d.pending)
<1> DEFINE d == Popped(c)
           h == Head(c.pending)
           t == Tail(c.pending)
           r == Append(c.rows, h)
<1>1. c.pending \in Seq(GroupSet) /\ c.rows \in Seq(GroupSet)
  BY CheckpointParts
<1>2. h \in GroupSet /\ t \in Seq(GroupSet) /\ Range(c.pending) = {h} \cup Range(t)
  BY <1>1, RangeHeadTail
<1> HIDE DEF h, t
<1>3. r \in Seq(GroupSet) /\ r = c.rows \o <<h>>
  BY <1>1, <1>2, RangeAppend
<1>4. <<h>> \in Seq(GroupSet) /\ Range(<<h>>) = {h}
  BY <1>2, RangeOne
<1>5. Range(c.rows \o <<h>>) = Range(c.rows) \cup {h}
  <2> DEFINE o == <<h>>
  <2> HIDE DEF o
  <2>1. o \in Seq(GroupSet) /\ Range(o) = {h}
    BY <1>4 DEF o
  <2>2. Range(c.rows \o o) = Range(c.rows) \cup Range(o)
    BY <1>1, <2>1, RangeConcat
  <2> QED BY <2>1, <2>2 DEF o
<1>6. d = [c EXCEPT !.pending = t, !.rows = r]
  BY DEF Popped, h, t
<1> HIDE DEF r, d
<1>7. d \in Checkpoint /\ d.pending = t /\ d.rows = r
  BY <1>2, <1>3, <1>6 DEF Checkpoint
<1>8. /\ d.part = c.part /\ d.ranges = c.ranges /\ d.pdel = c.pdel
      /\ d.resolved = c.resolved /\ d.cluster = c.cluster /\ d.emitted = c.emitted
      /\ d.awaiting = c.awaiting
  BY <1>6 DEF Checkpoint
<1> QED BY <1>2, <1>3, <1>5, <1>7, <1>8 DEF d, h, t

LEMMA PoppedOrdered ==
  ASSUME NEW c \in Checkpoint, NEW W \in SUBSET Nat, NEW L \in SUBSET Nat,
         Shape(c), Ordered(c, W, L), c.part # 0, c.pending # <<>>
  PROVE  Shape(Popped(c)) /\ Ordered(Popped(c), W, L)
<1> DEFINE d == Popped(c)
           h == Head(c.pending)
<1>1. /\ d \in Checkpoint /\ d.part = c.part /\ d.ranges = c.ranges
      /\ d.pdel = c.pdel /\ d.resolved = c.resolved /\ d.cluster = c.cluster
      /\ d.awaiting = c.awaiting
      /\ d.pending = Tail(c.pending) /\ d.rows = c.rows \o <<h>>
      /\ Range(d.rows) = Range(c.rows) \cup {h}
      /\ Range(c.pending) = {h} \cup Range(d.pending)
  BY PoppedFields
<1>2. c.pending \in Seq(GroupSet) /\ c.rows \in Seq(GroupSet)
  BY CheckpointParts
<1>3. h \in GroupSet
  BY <1>2, RangeHeadTail
<1> HIDE DEF d
<1>4. Ascending(d.pending) /\ Below(Keys({h}), Keys(Range(d.pending)))
  BY <1>1, <1>2, AscendingTail DEF Ordered
<1> HIDE DEF h
<1>5. /\ Keys(Range(d.rows)) = Keys(Range(c.rows)) \cup Keys({h})
      /\ Keys(Range(c.pending)) = Keys({h}) \cup Keys(Range(d.pending))
  BY <1>1, KeysUnion
<1>6. Ascending(d.rows)
  <2>1. <<h>> \in Seq(GroupSet) /\ Range(<<h>>) = {h} /\ Ascending(<<h>>)
    BY <1>3, RangeOne, AscendingOne
  <2>2. Below(Keys(Range(c.rows)), Keys(Range(<<h>>)))
    BY <2>1, <1>5 DEF Ordered, Below
  <2> QED BY <2>1, <2>2, <1>1, <1>2, AscendingConcat DEF Ordered
<1>7. Out(d) = Out(c) /\ ClusterKey(d) = ClusterKey(c)
  BY <1>1 DEF Out, ClusterKey
<1>8. Ordered(d, W, L)
  <2>1. /\ Below(Keys(Range(d.rows)), Keys(Range(d.pending)))
        /\ Below(Keys(Range(d.rows)), Keys(Range(d.awaiting)))
        /\ Below(Keys(Range(d.pending)), Keys(Range(d.awaiting)))
    BY <1>1, <1>4, <1>5 DEF Ordered, Below
  <2> QED BY <2>1, <1>1, <1>4, <1>6, <1>7 DEF Ordered
<1>9. Shape(d)
  BY <1>1 DEF Shape
<1> QED BY <1>8, <1>9 DEF d

(***************************************************************************)
(* What step_streaming does with an entry, by its kind.                    *)
(***************************************************************************)
SoundEntry(e) == e \in Entry /\ WellFormed(e) /\ e.facts \subseteq Sound

WithDeletion(c, e) == [c EXCEPT !.pdel = Newest(@ \cup e.facts)]
WithRange(c, e) == [c EXCEPT !.ranges = @ \cup {Group(0, e.lo, e.hi, e.facts)}]
WithRow(c, e) == [c EXCEPT !.cluster = [ck |-> e.ck, facts |-> @.facts \cup e.facts]]

NewCluster(c, e) == c.cluster # NoCluster /\ c.cluster.ck # e.ck
Ready(c, e) == IF NewCluster(c, e) THEN finalize_current_cluster(c) ELSE c

LEMMA EntryKinds ==
  ASSUME NEW e, SoundEntry(e)
  PROVE  /\ e.ck = 0 => /\ KindOf(e) \in Carriers
                        /\ \E f \in e.facts : e.facts = {f} /\ f.kind = KindOf(e)
         /\ e.ck # 0 => /\ KindOf(e) \notin Carriers
                        /\ e.facts # {} /\ \A f \in e.facts : f.kind \notin Carriers
                        /\ e.lo = e.ck /\ e.hi = e.ck
<1> DEFINE h == CHOOSE f \in e.facts : TRUE
<1>1. KindOf(e) = h.kind
  BY DEF KindOf
<1>2. e.facts # {} => h \in e.facts
  OBVIOUS
<1> HIDE DEF h
<1> QED BY <1>1, <1>2 DEF SoundEntry, WellFormed

LEMMA EntryFields ==
  ASSUME NEW e, SoundEntry(e)
  PROVE  /\ e.part \in Partitions /\ e.ck \in Clusters \cup {0} /\ e.ck \in Nat
         /\ e.lo \in Nat /\ e.hi \in Nat /\ e.facts \subseteq Sound
         /\ Group(0, e.lo, e.hi, e.facts) \in GroupSet
<1>1. /\ e.part \in Partitions /\ e.ck \in Clusters \cup {0} /\ e.lo \in Clusters
      /\ e.hi \in Clusters /\ e.facts \subseteq Sound
  BY DEF SoundEntry, Entry
<1>2. e.ck \in Nat /\ e.lo \in Nat /\ e.hi \in Nat
  <2>1. \A n \in Clusters : n \in Nat
    BY StreamingMergeAssumption
  <2>2. 0 \in Nat
    OBVIOUS
  <2> DEFINE k == e.ck
  <2>3. k \in Clusters \/ k = 0
    BY <1>1
  <2> HIDE DEF k
  <2>4. k \in Nat
    BY <2>1, <2>2, <2>3
  <2> QED BY <1>1, <2>1, <2>4 DEF k
<1>3. Group(0, e.lo, e.hi, e.facts) \in GroupSet
  BY <1>1, <1>2 DEF Group, GroupSet
<1> QED BY <1>1, <1>2, <1>3

LEMMA AbsorbCases ==
  ASSUME NEW c, NEW e, SoundEntry(e)
  PROVE  /\ KindOf(e) = "partdel" => Absorb(c, e) = WithDeletion(c, e)
         /\ KindOf(e) = "rangedel" =>
               Absorb(c, e) = IF c.resolved THEN reshadow_and_flush_awaiting(WithRange(c, e))
                              ELSE WithRange(c, e)
         /\ e.ck # 0 => Absorb(c, e) = WithRow(Ready(c, e), e)
<1>1. CASE KindOf(e) = "partdel"
  <2>1. e.ck = 0
    BY <1>1, EntryKinds DEF Carriers
  <2> QED BY <1>1, <2>1 DEF Absorb, WithDeletion
<1>2. CASE KindOf(e) = "rangedel"
  <2>1. e.ck = 0
    BY <1>2, EntryKinds DEF Carriers
  <2> QED BY <1>2, <2>1 DEF Absorb, WithRange
<1>3. CASE e.ck # 0
  <2>1. KindOf(e) # "partdel" /\ KindOf(e) # "rangedel"
    BY <1>3, EntryKinds DEF Carriers
  <2> QED BY <1>3, <2>1 DEF Absorb, WithRow, Ready, NewCluster
<1> QED BY <1>1, <1>2, <1>3

LEMMA WithDeletionFields ==
  ASSUME NEW c \in Checkpoint, NEW e, SoundEntry(e)
  PROVE  LET d == WithDeletion(c, e)
         IN  /\ d \in Checkpoint /\ SameKept(d, c) /\ d.pending = c.pending
             /\ d.ranges = c.ranges /\ d.resolved = c.resolved /\ d.cluster = c.cluster
             /\ d.awaiting = c.awaiting /\ d.emitted = c.emitted
             /\ d.pdel = Newest(c.pdel \cup e.facts)
<1> DEFINE P == Newest(c.pdel \cup e.facts)
           d == WithDeletion(c, e)
<1>1. P \in SUBSET Sound
  BY EntryFields, CheckpointParts DEF Newest
<1>2. d = [c EXCEPT !.pdel = P]
  BY DEF WithDeletion
<1> HIDE DEF P, d
<1>3. d \in Checkpoint
  BY <1>1, <1>2 DEF Checkpoint
<1>4. d.pdel = P
  BY <1>2 DEF Checkpoint
<1>5. /\ SameKept(d, c) /\ d.pending = c.pending
      /\ d.ranges = c.ranges /\ d.resolved = c.resolved /\ d.cluster = c.cluster
      /\ d.awaiting = c.awaiting /\ d.emitted = c.emitted
  BY <1>2 DEF Checkpoint, SameKept
<1> QED BY <1>3, <1>4, <1>5 DEF P, d

LEMMA WithRangeFields ==
  ASSUME NEW c \in Checkpoint, NEW e, SoundEntry(e)
  PROVE  LET d == WithRange(c, e)
         IN  /\ d \in Checkpoint /\ SameKept(d, c) /\ d.pending = c.pending
             /\ d.pdel = c.pdel /\ d.resolved = c.resolved /\ d.cluster = c.cluster
             /\ d.awaiting = c.awaiting /\ d.emitted = c.emitted
             /\ d.ranges = c.ranges \cup {Group(0, e.lo, e.hi, e.facts)}
<1> DEFINE P == c.ranges \cup {Group(0, e.lo, e.hi, e.facts)}
           d == WithRange(c, e)
<1>1. P \in SUBSET GroupSet
  BY EntryFields, CheckpointParts
<1>2. d = [c EXCEPT !.ranges = P]
  BY DEF WithRange
<1> HIDE DEF P, d
<1>3. d \in Checkpoint
  BY <1>1, <1>2 DEF Checkpoint
<1>4. d.ranges = P
  BY <1>2 DEF Checkpoint
<1>5. /\ SameKept(d, c) /\ d.pending = c.pending
      /\ d.pdel = c.pdel /\ d.resolved = c.resolved /\ d.cluster = c.cluster
      /\ d.awaiting = c.awaiting /\ d.emitted = c.emitted
  BY <1>2 DEF Checkpoint, SameKept
<1> QED BY <1>3, <1>4, <1>5 DEF P, d

LEMMA WithRowFields ==
  ASSUME NEW c \in Checkpoint, NEW e, SoundEntry(e)
  PROVE  LET d == WithRow(c, e)
         IN  /\ d \in Checkpoint /\ SameKept(d, c) /\ d.pending = c.pending
             /\ d.pdel = c.pdel /\ d.resolved = c.resolved /\ d.ranges = c.ranges
             /\ d.awaiting = c.awaiting /\ d.emitted = c.emitted
             /\ d.cluster.ck = e.ck /\ d.cluster.facts = c.cluster.facts \cup e.facts
<1> DEFINE P == [ck |-> e.ck, facts |-> c.cluster.facts \cup e.facts]
           d == WithRow(c, e)
<1>1. c.cluster.facts \cup e.facts \in SUBSET Sound /\ e.ck \in Clusters \cup {0}
  BY EntryFields, CheckpointParts
<1>2. /\ P \in ClusterSet /\ P.ck = e.ck /\ P.facts = c.cluster.facts \cup e.facts
  BY <1>1 DEF ClusterSet
<1>3. d = [c EXCEPT !.cluster = P]
  BY DEF WithRow
<1> HIDE DEF P, d
<1>4. d \in Checkpoint
  BY <1>2, <1>3 DEF Checkpoint
<1>5. d.cluster = P
  BY <1>3 DEF Checkpoint
<1>6. /\ SameKept(d, c) /\ d.pending = c.pending
      /\ d.pdel = c.pdel /\ d.resolved = c.resolved /\ d.ranges = c.ranges
      /\ d.awaiting = c.awaiting /\ d.emitted = c.emitted
  BY <1>3 DEF Checkpoint, SameKept
<1> QED BY <1>2, <1>4, <1>5, <1>6 DEF d

LEMMA OrderedFewer ==
  ASSUME NEW c, NEW W, NEW L, NEW M, M \subseteq L, Ordered(c, W, L)
  PROVE  Ordered(c, W, M)
BY DEF Ordered, Below

LEMMA AbsorbOrdered ==
  ASSUME NEW c \in Checkpoint, NEW W \in SUBSET Nat, NEW L \in SUBSET Nat,
         NEW M \in SUBSET L, NEW e, SoundEntry(e),
         Shape(c), Ordered(c, W, L), c.part # 0,
         e.ck # 0 => e.ck \in L /\ \A l \in M : e.ck <= l
  PROVE  LET d == Absorb(c, e)
         IN  d \in Checkpoint /\ SameKept(d, c) /\ Shape(d) /\ Ordered(d, W, M)
<1>1. Ordered(c, W, M) /\ M \in SUBSET Nat
  BY OrderedFewer
<1>2. CASE KindOf(e) = "partdel"
  <2> DEFINE d == WithDeletion(c, e)
  <2>1. /\ d \in Checkpoint /\ SameKept(d, c) /\ d.pending = c.pending
        /\ d.ranges = c.ranges /\ d.resolved = c.resolved /\ d.cluster = c.cluster
        /\ d.awaiting = c.awaiting
    BY WithDeletionFields
  <2>2. Absorb(c, e) = d
    BY <1>2, AbsorbCases
  <2> HIDE DEF d
  <2>3. Ordered(d, W, M)
    BY <2>1, <1>1 DEF Ordered, SameKept, Out, ClusterKey
  <2>4. Shape(d)
    BY <2>1 DEF Shape, SameKept
  <2> QED BY <2>1, <2>2, <2>3, <2>4
<1>3. CASE KindOf(e) = "rangedel"
  <2> DEFINE d == WithRange(c, e)
  <2>1. /\ d \in Checkpoint /\ SameKept(d, c) /\ d.pending = c.pending
        /\ d.resolved = c.resolved /\ d.cluster = c.cluster /\ d.awaiting = c.awaiting
        /\ d.ranges = c.ranges \cup {Group(0, e.lo, e.hi, e.facts)}
    BY WithRangeFields
  <2>2. Absorb(c, e) = IF c.resolved THEN reshadow_and_flush_awaiting(d) ELSE d
    BY <1>3, AbsorbCases
  <2> HIDE DEF d
  <2>3. Ordered(d, W, M)
    BY <2>1, <1>1 DEF Ordered, SameKept, Out, ClusterKey
  <2>4. Shape(d)
    <3>1. IsFiniteSet(d.ranges)
      BY <2>1, FS_AddElement DEF Shape
    <3>2. Group(0, e.lo, e.hi, e.facts).ck = 0
      BY DEF Group
    <3> QED BY <2>1, <3>1, <3>2 DEF Shape, SameKept
  <2>5. d.part # 0
    BY <2>1 DEF SameKept
  <2>6. LET b == reshadow_and_flush_awaiting(d)
        IN  b \in Checkpoint /\ SameKept(b, d) /\ Shape(b) /\ Ordered(b, W, M)
    BY <1>1, <2>1, <2>3, <2>4, <2>5, ReshadowFields, ReshadowOrdered
  <2> QED BY <2>1, <2>2, <2>3, <2>4, <2>6 DEF SameKept
<1>4. CASE e.ck # 0
  <2> DEFINE b == Ready(c, e)
             d == WithRow(b, e)
             N == M \cup {e.ck}
  <2>1. N \in SUBSET Nat /\ N \subseteq L /\ Ordered(c, W, N) /\ e.ck \in Nat
    BY <1>4, EntryFields, OrderedFewer
  <2>2. /\ b \in Checkpoint /\ SameKept(b, c) /\ Shape(b) /\ Ordered(b, W, N)
        /\ b.cluster = NoCluster \/ b.cluster.ck = e.ck
    <3>1. CASE NewCluster(c, e)
      <4>1. Below(ClusterKey(c), N)
        <5>1. \A k \in ClusterKey(c) : k \in Nat /\ k = c.cluster.ck
          BY CheckpointParts DEF ClusterKey
        <5>2. \A k \in ClusterKey(c), l \in N : k <= l
          BY <2>1 DEF Ordered
        <5>3. ASSUME NEW k \in ClusterKey(c), NEW l \in N PROVE k < l
          <6>1. k <= e.ck /\ k # e.ck
            BY <5>1, <5>2, <3>1 DEF NewCluster
          <6>2. k < e.ck /\ e.ck <= l
            BY <6>1, <5>1, <2>1, <1>4
          <6>3. l \in Nat
            BY <2>1
          <6> QED BY <6>2, <6>3, <5>1, <2>1
        <5> QED BY <5>3 DEF Below
      <4>2. b = finalize_current_cluster(c)
        BY <3>1 DEF Ready
      <4> QED BY <4>1, <4>2, <2>1, FinalizeFields, FinalizeOrdered
    <3>2. CASE ~NewCluster(c, e)
      <4>1. b = c
        BY <3>2 DEF Ready
      <4> QED BY <4>1, <3>2, <2>1 DEF NewCluster, SameKept
    <3> QED BY <3>1, <3>2
  <2>3. Absorb(c, e) = d
    BY <1>4, AbsorbCases
  <2> HIDE DEF b
  <2>4. /\ d \in Checkpoint /\ SameKept(d, b) /\ d.pending = b.pending
        /\ d.resolved = b.resolved /\ d.ranges = b.ranges /\ d.awaiting = b.awaiting
        /\ d.cluster.ck = e.ck
    BY <2>2, WithRowFields
  <2> HIDE DEF d
  <2>5. Out(d) = Out(b) /\ ClusterKey(d) = {e.ck}
    BY <2>4, <1>4 DEF Out, ClusterKey, SameKept
  <2>6. Ordered(d, W, M)
    <3>1. /\ Below(Keys(Out(b)), N) /\ Below(W, Keys(Out(b)) \cup N)
      BY <2>2 DEF Ordered, Below
    <3>2. /\ Below(Keys(Out(d)), ClusterKey(d) \cup M)
          /\ Below(W, Keys(Out(d)) \cup ClusterKey(d) \cup M)
      BY <3>1, <2>5 DEF Below
    <3>3. \A k \in ClusterKey(d), l \in M : k <= l
      BY <2>5, <1>4
    <3> QED BY <3>2, <3>3, <2>2, <2>4 DEF Ordered, SameKept
  <2>7. Shape(d)
    BY <2>2, <2>4, <1>4 DEF Shape, SameKept
  <2> QED BY <2>2, <2>3, <2>4, <2>6, <2>7 DEF SameKept
<1>5. KindOf(e) \in {"partdel", "rangedel"} \/ e.ck # 0
  BY EntryKinds DEF Carriers
<1> QED BY <1>2, <1>3, <1>4, <1>5

(***************************************************************************)
(* The heap.  ps is the position of each run, so that the entries ahead    *)
(* and behind can be compared before and after a step.                     *)
(***************************************************************************)
InputOK == \E m \in Merges : input = m.input /\ gc = m.gc

PosOK ==
    /\ pos \in [DOMAIN input -> Nat \ {0}]
    /\ \A r \in DOMAIN input : pos[r] <= Len(input[r]) + 1

Ahead(ps, p) ==
    {e \in Entries(input) : e.part = p /\ \E r \in DOMAIN input : \E i \in DOMAIN input[r] :
                                              ps[r] <= i /\ input[r][i] = e}
Behind(ps, p) ==
    {e \in Entries(input) : e.part = p /\ \E r \in DOMAIN input : \E i \in DOMAIN input[r] :
                                              i < ps[r] /\ input[r][i] = e}

\* No entry ahead belongs to a partition before p.
InFront(ps, p) ==
    \A r \in DOMAIN input : \A i \in DOMAIN input[r] : ps[r] <= i => p <= input[r][i].part

LEMMA InputFacts ==
  ASSUME InputOK
  PROVE  /\ DOMAIN input \subseteq Nat
         /\ gc \in GcSettings
         /\ \A r \in DOMAIN input :
               /\ Len(input[r]) \in Nat /\ DOMAIN input[r] = 1 .. Len(input[r])
               /\ FileOrder(input[r])
               /\ \A i \in DOMAIN input[r] : SoundEntry(input[r][i])
         /\ \A e \in Entries(input) : SoundEntry(e)
<1>1. PICK m \in Merges : input = m.input /\ gc = m.gc
  BY DEF InputOK
<1>2. /\ input \in Seq(Seq(Entry)) /\ \A r \in DOMAIN input : FileOrder(input[r])
      /\ \A e \in Entries(input) : /\ WellFormed(e)
                                   /\ \A f \in e.facts : f.ts <= Infinity /\ f.ttl <= f.ldt
      /\ gc \in [now : Nat, gc_before : Nat, max_purgeable : Nat]
  BY <1>1, MergesAssumption
<1>3. DOMAIN input = 1 .. Len(input) /\ Len(input) \in Nat
  BY <1>2, LenProperties
<1>4. \A r \in DOMAIN input : input[r] \in Seq(Entry)
  BY <1>2, <1>3, ElementOfSeq
<1>5. ASSUME NEW r \in DOMAIN input
      PROVE  /\ Len(input[r]) \in Nat /\ DOMAIN input[r] = 1 .. Len(input[r])
             /\ \A i \in DOMAIN input[r] : input[r][i] \in Entry
  <2> DEFINE s == input[r]
  <2>1. s \in Seq(Entry)
    BY <1>4
  <2> HIDE DEF s
  <2>2. /\ Len(s) \in Nat /\ DOMAIN s = 1 .. Len(s)
        /\ \A i \in DOMAIN s : s[i] \in Entry
    BY <2>1, LenProperties, ElementOfSeq
  <2> QED BY <2>2 DEF s
<1>6. ASSUME NEW e \in Entries(input) PROVE SoundEntry(e)
  <2>1. PICK r \in DOMAIN input : e \in Range(input[r])
    BY DEF Entries
  <2>2. e \in Entry
    BY <2>1, <1>5 DEF Range
  <2>3. e.facts \subseteq Fact
    BY <2>2 DEF Entry
  <2>4. e.facts \subseteq Sound
    BY <1>2, <2>3 DEF Sound
  <2> QED BY <1>2, <2>2, <2>4 DEF SoundEntry
<1>7. ASSUME NEW r \in DOMAIN input, NEW i \in DOMAIN input[r] PROVE input[r][i] \in Entries(input)
  BY DEF Entries, Range
<1>8. gc \in GcSettings
  BY <1>2 DEF GcSettings
<1> QED BY <1>2, <1>3, <1>5, <1>6, <1>7, <1>8

\* The entries that are heads.
LEMMA HeadFacts ==
  ASSUME InputOK, PosOK, NEW r \in DOMAIN input, HasHead(r)
  PROVE  /\ pos[r] \in DOMAIN input[r] /\ pos[r] \in Nat /\ SoundEntry(head(r))
         /\ head(r).part \in Nat /\ head(r).part \in Partitions /\ head(r).ck \in Nat
         /\ head(r) \in Ahead(pos, head(r).part)
<1>1. pos[r] \in DOMAIN input[r] /\ pos[r] \in Nat
  BY InputFacts DEF PosOK, HasHead
<1>2. SoundEntry(head(r))
  BY <1>1, InputFacts DEF head
<1>3. head(r).part \in Partitions /\ head(r).ck \in Nat
  BY <1>2, EntryFields
<1>4. head(r) \in Entries(input)
  BY <1>1 DEF Entries, Range, head
<1>5. head(r) \in Ahead(pos, head(r).part)
  BY <1>1, <1>4 DEF Ahead, head
<1>6. head(r).part \in Nat
  BY <1>3, StreamingMergeAssumption
<1> QED BY <1>1, <1>2, <1>3, <1>5, <1>6

\* An entry ahead has the head of its run in front of it, or is it.
LEMMA AheadOfHead ==
  ASSUME InputOK, PosOK, NEW q \in DOMAIN input, NEW i \in DOMAIN input[q], pos[q] <= i
  PROVE  /\ HasHead(q) /\ head(q).part <= input[q][i].part
         /\ \/ i = pos[q] /\ input[q][i] = head(q)
            \/ pos[q] \in DOMAIN input[q] /\ pos[q] < i
<1>1. /\ Len(input[q]) \in Nat /\ DOMAIN input[q] = 1 .. Len(input[q])
      /\ FileOrder(input[q]) /\ SoundEntry(input[q][i])
  BY InputFacts
<1>2. pos[q] \in Nat \ {0}
  BY DEF PosOK
<1>3. HasHead(q)
  BY <1>1, <1>2 DEF HasHead
<1>4. pos[q] \in DOMAIN input[q] /\ head(q).part \in Nat
  BY <1>3, HeadFacts
<1>5. CASE pos[q] = i
  BY <1>3, <1>4, <1>5 DEF head
<1>6. CASE pos[q] # i
  <2>1. pos[q] < i
    BY <1>1, <1>2, <1>6
  <2>2. input[q][pos[q]].part <= input[q][i].part
    BY <2>1, <1>1, <1>4 DEF FileOrder
  <2> QED BY <2>1, <2>2, <1>3, <1>4 DEF head
<1> QED BY <1>5, <1>6

\* If any run has a head, one is at the top.
LEMMA TopExists ==
  ASSUME InputOK, PosOK, NEW q \in DOMAIN input, HasHead(q)
  PROVE  \E r \in DOMAIN input : IsTop(r)
<1> DEFINE H == {r \in DOMAIN input : HasHead(r)}
           A == {head(r).part : r \in H}
<1>1. \A r \in H : head(r).part \in Nat /\ head(r).ck \in Nat /\ r \in Nat
  BY HeadFacts, InputFacts
<1>2. q \in H
  OBVIOUS
<1> HIDE DEF H
<1>3. PICK a \in A : \A x \in A : a <= x
  <2>1. A \in SUBSET Nat /\ A # {}
    BY <1>1, <1>2
  <2> HIDE DEF A
  <2> QED BY <2>1, LeastNat
<1> DEFINE I == {r \in H : head(r).part = a}
           B == {head(r).ck : r \in I}
<1>4. I # {} /\ I \subseteq H
  BY <1>3
<1> HIDE DEF I
<1>5. PICK b \in B : \A x \in B : b <= x
  <2>1. B \in SUBSET Nat /\ B # {}
    BY <1>1, <1>4
  <2> HIDE DEF B
  <2> QED BY <2>1, LeastNat
<1> DEFINE C == {r \in I : head(r).ck = b}
<1>6. PICK r \in C : \A x \in C : r <= x
  <2>1. C \in SUBSET Nat /\ C # {}
    BY <1>1, <1>4, <1>5
  <2> HIDE DEF C
  <2> QED BY <2>1, LeastNat
<1>7. r \in H /\ head(r).part = a /\ head(r).ck = b
  BY <1>4, <1>6 DEF I
<1>8. ASSUME NEW s \in H PROVE Precedes(r, s)
  <2>1. a <= head(s).part /\ a \in Nat /\ head(s).part \in Nat /\ head(s).ck \in Nat /\ b \in Nat
    BY <1>1, <1>3, <1>7
  <2>2. CASE head(s).part = a
    <3>1. s \in I
      BY <2>2 DEF I
    <3>2. b <= head(s).ck
      BY <3>1, <1>5
    <3>3. head(s).ck = b => r <= s
      BY <3>1, <1>6
    <3> QED BY <2>1, <2>2, <3>2, <3>3, <1>7 DEF Precedes
  <2>3. CASE head(s).part # a
    BY <2>1, <2>3, <1>7 DEF Precedes
  <2> QED BY <2>2, <2>3
<1> QED BY <1>7, <1>8 DEF IsTop, H

LEMMA TopFront ==
  ASSUME InputOK, PosOK, NEW r \in DOMAIN input, IsTop(r)
  PROVE  InFront(pos, head(r).part)
<1> SUFFICES ASSUME NEW q \in DOMAIN input, NEW i \in DOMAIN input[q], pos[q] <= i
             PROVE  head(r).part <= input[q][i].part
  BY DEF InFront
<1>1. HasHead(q) /\ head(q).part <= input[q][i].part
  BY AheadOfHead
<1>2. head(r).part \in Nat /\ head(q).part \in Nat
  BY <1>1, HeadFacts DEF IsTop
<1>3. head(r).part <= head(q).part
  BY <1>1, <1>2 DEF IsTop, Precedes
<1>4. input[q][i].part \in Nat
  <2>1. input[q][i].part \in Partitions
    BY InputFacts, EntryFields
  <2> QED BY <2>1, StreamingMergeAssumption
<1> QED BY <1>1, <1>2, <1>3, <1>4

\* When a row is at the top, the rows of its partition that are ahead do not
\* come before it, and no partition deletion is ahead.
LEMMA TopOrder ==
  ASSUME InputOK, PosOK, NEW r \in DOMAIN input, IsTop(r), head(r).ck # 0,
         NEW a \in Ahead(pos, head(r).part)
  PROVE  (a.ck # 0 => head(r).ck <= a.ck) /\ KindOf(a) # "partdel"
<1> DEFINE e == head(r)
<1>0. PICK q \in DOMAIN input : \E i \in DOMAIN input[q] :
           pos[q] <= i /\ input[q][i] = a /\ a.part = e.part
  BY DEF Ahead
<1>1. PICK i \in DOMAIN input[q] : pos[q] <= i /\ input[q][i] = a /\ a.part = e.part
  BY <1>0
<1>2. /\ HasHead(q) /\ head(q).part <= a.part
      /\ \/ i = pos[q] /\ a = head(q)
         \/ pos[q] \in DOMAIN input[q] /\ pos[q] < i
  BY <1>1, AheadOfHead
<1>3. /\ e.part \in Nat /\ e.ck \in Nat /\ head(q).part \in Nat /\ head(q).ck \in Nat
      /\ SoundEntry(head(q)) /\ r \in Nat /\ q \in Nat
  BY <1>2, HeadFacts, InputFacts DEF IsTop
<1>4. head(q).part = e.part /\ e.ck <= head(q).ck
  BY <1>1, <1>2, <1>3 DEF IsTop, Precedes
<1>5. head(q).ck # 0
  BY <1>3, <1>4
<1>6. KindOf(head(q)) \notin Carriers
  BY <1>3, <1>5, EntryKinds
<1>7. CASE a = head(q)
  BY <1>4, <1>6, <1>7 DEF Carriers
<1>8. CASE pos[q] \in DOMAIN input[q] /\ pos[q] < i
  <2>1. FileOrder(input[q]) /\ SoundEntry(a)
    BY <1>1, InputFacts
  <2>2. input[q][pos[q]] = head(q)
    BY DEF head
  <2>3. /\ KindOf(a) # "partdel"
        /\ a.ck # 0 => head(q).ck < a.ck
    BY <2>1, <2>2, <1>1, <1>4, <1>5, <1>8 DEF FileOrder
  <2>4. a.ck \in Nat
    BY <2>1, EntryFields
  <2> QED BY <2>3, <2>4, <1>3, <1>4
<1> QED BY <1>2, <1>7, <1>8

LEMMA DrainedMeansNone ==
  ASSUME InputOK, PosOK, cur.part \in Partitions, InFront(pos, cur.part), PartitionDrained
  PROVE  Ahead(pos, cur.part) = {}
<1> SUFFICES ASSUME NEW a \in Ahead(pos, cur.part) PROVE FALSE
  OBVIOUS
<1>0. PICK q \in DOMAIN input : \E i \in DOMAIN input[q] :
           pos[q] <= i /\ input[q][i] = a /\ a.part = cur.part
  BY DEF Ahead
<1>1. PICK i \in DOMAIN input[q] : pos[q] <= i /\ input[q][i] = a /\ a.part = cur.part
  BY <1>0
<1>2. HasHead(q)
  BY <1>1, AheadOfHead
<1>3. PICK r \in DOMAIN input : IsTop(r)
  BY <1>2, TopExists
<1>4. head(r).part <= a.part
  BY <1>1, <1>3, TopFront DEF InFront
<1>5. pos[r] \in DOMAIN input[r] /\ head(r).part \in Nat /\ pos[r] \in Nat
  BY <1>3, HeadFacts DEF IsTop
<1>6. cur.part <= head(r).part
  BY <1>5 DEF InFront, head
<1>7. cur.part \in Nat
  BY StreamingMergeAssumption
<1>8. head(r).part = cur.part
  BY <1>1, <1>4, <1>5, <1>6, <1>7
<1> QED BY <1>3, <1>8 DEF PartitionDrained

\* What pulling the head of a run does to the entries ahead and behind.
LEMMA PullMoves ==
  ASSUME InputOK, PosOK, NEW r \in DOMAIN input, HasHead(r), NEW ps,
         ps = [pos EXCEPT ![r] = @ + 1]
  PROVE  /\ ps \in [DOMAIN input -> Nat \ {0}]
         /\ \A q \in DOMAIN input : ps[q] <= Len(input[q]) + 1
         /\ \A p : p # head(r).part =>
               Ahead(ps, p) = Ahead(pos, p) /\ Behind(ps, p) = Behind(pos, p)
         /\ \A p : Ahead(ps, p) \subseteq Ahead(pos, p)
         /\ Ahead(pos, head(r).part) = Ahead(ps, head(r).part) \cup {head(r)}
         /\ Behind(ps, head(r).part) = Behind(pos, head(r).part) \cup {head(r)}
         /\ \A p : InFront(pos, p) => InFront(ps, p)
<1>1. /\ pos[r] \in DOMAIN input[r] /\ pos[r] \in Nat
      /\ Len(input[r]) \in Nat /\ DOMAIN input[r] = 1 .. Len(input[r])
  BY HeadFacts, InputFacts
<1>2. /\ ps[r] = pos[r] + 1 /\ \A q \in DOMAIN input : q # r => ps[q] = pos[q]
      /\ ps \in [DOMAIN input -> Nat \ {0}]
  BY <1>1 DEF PosOK
<1>3. \A q \in DOMAIN input : ps[q] <= Len(input[q]) + 1
  BY <1>1, <1>2 DEF PosOK
<1>4. ASSUME NEW q \in DOMAIN input, NEW i \in DOMAIN input[q]
      PROVE  i \in Nat /\ pos[q] \in Nat
  BY InputFacts DEF PosOK
<1>5. ASSUME NEW q \in DOMAIN input, NEW i \in DOMAIN input[q]
      PROVE  /\ pos[q] <= i <=> (ps[q] <= i \/ (q = r /\ i = pos[r]))
             /\ i < ps[q] <=> (i < pos[q] \/ (q = r /\ i = pos[r]))
  <2>1. i \in Nat /\ pos[q] \in Nat
    BY <1>4
  <2>2. CASE q = r
    BY <2>1, <2>2, <1>2
  <2>3. CASE q # r
    BY <2>3, <1>2
  <2> QED BY <2>2, <2>3
<1>6. head(r) = input[r][pos[r]]
  BY DEF head
<1>61. head(r) \in Entries(input)
  BY <1>1, <1>6 DEF Entries, Range
<1> HIDE DEF head, HasHead
<1>7. ASSUME NEW p
      PROVE  Ahead(pos, p) = Ahead(ps, p) \cup {x \in {head(r)} : x.part = p}
  BY <1>1, <1>5, <1>6, <1>61 DEF Ahead
<1>8. ASSUME NEW p
      PROVE  Behind(ps, p) = Behind(pos, p) \cup {x \in {head(r)} : x.part = p}
  BY <1>1, <1>5, <1>6, <1>61 DEF Behind
<1>9. \A p : InFront(pos, p) => InFront(ps, p)
  <2> SUFFICES ASSUME NEW p, InFront(pos, p), NEW q \in DOMAIN input, NEW i \in DOMAIN input[q],
                      ps[q] <= i
               PROVE  p <= input[q][i].part
    BY DEF InFront
  <2>1. pos[q] <= i
    BY <1>5
  <2> QED BY <2>1 DEF InFront
<1>10. \A p : p # head(r).part =>
          Ahead(ps, p) = Ahead(pos, p) /\ Behind(ps, p) = Behind(pos, p)
  <2> SUFFICES ASSUME NEW p, p # head(r).part
               PROVE  Ahead(ps, p) = Ahead(pos, p) /\ Behind(ps, p) = Behind(pos, p)
    OBVIOUS
  <2>1. {x \in {head(r)} : x.part = p} = {}
    OBVIOUS
  <2> QED BY <2>1, <1>7, <1>8
<1>11. \A p : Ahead(ps, p) \subseteq Ahead(pos, p)
  BY <1>7
<1>12. {x \in {head(r)} : x.part = head(r).part} = {head(r)}
  OBVIOUS
<1>13. /\ Ahead(pos, head(r).part) = Ahead(ps, head(r).part) \cup {head(r)}
       /\ Behind(ps, head(r).part) = Behind(pos, head(r).part) \cup {head(r)}
  BY <1>7, <1>8, <1>12
<1> QED BY <1>2, <1>3, <1>9, <1>10, <1>11, <1>13

(***************************************************************************)
(* The inductive invariant.                                                *)
(***************************************************************************)
StateInv ==
    /\ InputOK /\ PosOK
    /\ phase \in {"idle", "drain", "complete"} /\ boundary \in BOOLEAN /\ failures \in Nat
    /\ cur \in Checkpoint /\ stash \in Checkpoint /\ Shape(cur) /\ Shape(stash)
    /\ phase # "drain" => cur = fresh
    /\ phase # "idle" => stash = fresh
    /\ written \in [Partitions -> Seq(GroupSet)]

\* The rows that are written of p come before the ones ahead.
WrittenOrder(ps, w, p) ==
    /\ Ascending(w[p])
    /\ Below(Keys(Range(w[p])), Keys(Ahead(ps, p)))

InOrder(c, ps, w) ==
    c.part # 0 => /\ InFront(ps, c.part)
                  /\ Ordered(c, Keys(Range(w[c.part])), Keys(Ahead(ps, c.part)))

OrderInv ==
    /\ \A p \in Partitions : WrittenOrder(pos, written, p)
    /\ InOrder(cur, pos, written) /\ InOrder(stash, pos, written)

LEMMA FreshShape == Shape(fresh) /\ fresh.part = 0
<1>1. IsFiniteSet({})
  BY FS_EmptySet
<1> QED BY <1>1 DEF Shape, fresh, NoCluster

\* The order only needs the rows ahead to become fewer.
LEMMA InOrderFewer ==
  ASSUME NEW c, NEW ps, NEW w, NEW qs, InOrder(c, ps, w),
         Ahead(qs, c.part) \subseteq Ahead(ps, c.part), InFront(ps, c.part) => InFront(qs, c.part)
  PROVE  InOrder(c, qs, w)
<1> SUFFICES ASSUME c.part # 0
             PROVE  Ordered(c, Keys(Range(w[c.part])), Keys(Ahead(qs, c.part)))
                      /\ InFront(qs, c.part)
  BY DEF InOrder
<1>1. Keys(Ahead(qs, c.part)) \subseteq Keys(Ahead(ps, c.part))
  BY DEF Keys
<1>2. Ordered(c, Keys(Range(w[c.part])), Keys(Ahead(ps, c.part))) /\ InFront(ps, c.part)
  BY DEF InOrder
<1> HIDE DEF Keys, Ahead
<1> QED BY <1>1, <1>2, OrderedFewer

LEMMA AheadKeys ==
  ASSUME InputOK, NEW ps, NEW p
  PROVE  Keys(Ahead(ps, p)) \in SUBSET Nat
<1>1. \A e \in Ahead(ps, p) : e.ck \in Nat
  BY InputFacts, EntryFields DEF Ahead
<1> QED BY <1>1 DEF Keys

LEMMA WrittenKeys ==
  ASSUME StateInv, NEW p \in Partitions
  PROVE  /\ written[p] \in Seq(GroupSet) /\ Range(written[p]) \subseteq GroupSet
         /\ Keys(Range(written[p])) \in SUBSET Nat
<1> DEFINE s == written[p]
<1>1. s \in Seq(GroupSet)
  BY DEF StateInv
<1> HIDE DEF s
<1>2. Range(s) \subseteq GroupSet
  BY <1>1, RangeType
<1>3. Keys(Range(s)) \subseteq Nat
  BY <1>2, KeysType, StreamingMergeAssumption
<1> QED BY <1>1, <1>2, <1>3 DEF s

\* What is ahead and what the runs say do not depend on anything but the
\* positions.
LEMMA SameInput ==
  ASSUME UNCHANGED <<input, gc>>
  PROVE  /\ \A ps, p : Ahead(ps, p)' = Ahead(ps, p) /\ Behind(ps, p)' = Behind(ps, p)
         /\ \A ps, p : InFront(ps, p)' = InFront(ps, p)
         /\ InputOK => InputOK'
<1>1. \A ps, p : Ahead(ps, p)' = Ahead(ps, p)
  BY DEF Ahead, Entries
<1>2. \A ps, p : Behind(ps, p)' = Behind(ps, p)
  BY DEF Behind, Entries
<1>3. \A ps, p : InFront(ps, p)' = InFront(ps, p)
  BY DEF InFront
<1>4. InputOK => InputOK'
  BY DEF InputOK
<1> QED BY <1>1, <1>2, <1>3, <1>4

(***************************************************************************)
(* The end of a partition.                                                 *)
(***************************************************************************)
LEMMA TailFields ==
  ASSUME NEW c \in Checkpoint, Shape(c), c.part # 0, c.resolved
  PROVE  LET d == Tail_(c)
         IN  /\ d \in Checkpoint /\ SameKept(d, c) /\ Shape(d)
             /\ d.ranges = c.ranges /\ d.pdel = c.pdel /\ d.resolved
             /\ d.cluster = c.cluster /\ d.awaiting = <<>>
             /\ d.emitted = (c.emitted \/ c.ranges # {})
             /\ Range(d.pending) = Range(c.pending) \cup Range(Released(c))
                   \cup (IF c.ranges # {} /\ ~c.emitted THEN Flushed(c) ELSE {})
             /\ \A W, L \in SUBSET Nat : Ordered(c, W, L) => Ordered(d, W, L)
<1> DEFINE a == reshadow_and_flush_awaiting(c)
           b == flush_range_tombstones(a)
<1>1. /\ a \in Checkpoint /\ SameKept(a, c)
      /\ a.ranges = c.ranges /\ a.pdel = c.pdel /\ a.emitted = c.emitted
      /\ a.resolved = c.resolved /\ a.cluster = c.cluster
      /\ a.pending = c.pending \o Released(c) /\ a.awaiting = <<>>
  BY ReshadowFields
<1>2. Shape(a)
  BY <1>1 DEF Shape, SameKept
<1>3. ASSUME NEW W \in SUBSET Nat, NEW L \in SUBSET Nat, Ordered(c, W, L)
      PROVE  Ordered(a, W, L)
  BY <1>3, ReshadowOrdered
<1>4. Range(a.pending) = Range(c.pending) \cup Range(Released(c))
  <2> DEFINE s == c.pending
             t == Released(c)
  <2>1. s \in Seq(GroupSet) /\ t \in Seq(GroupSet)
    BY CheckpointParts, ReleasedGroups
  <2> HIDE DEF s, t
  <2>2. Range(s \o t) = Range(s) \cup Range(t)
    BY <2>1, RangeConcat
  <2> QED BY <2>2, <1>1 DEF s, t
<1>5. Tail_(c) = IF a.ranges # {} /\ ~a.emitted THEN b ELSE a
  BY DEF Tail_
<1>6. Flushed(a) = Flushed(c)
  BY <1>1 DEF Flushed
<1> HIDE DEF a
<1>7. /\ b \in Checkpoint /\ SameKept(b, a)
      /\ b.ranges = a.ranges /\ b.pdel = a.pdel /\ b.emitted = TRUE
      /\ b.resolved = a.resolved /\ b.cluster = a.cluster /\ b.awaiting = a.awaiting
      /\ b.pending = a.pending \o SetToSeq(Flushed(a))
      /\ SetToSeq(Flushed(a)) \in Seq(GroupSet)
      /\ Range(SetToSeq(Flushed(a))) = Flushed(a)
  BY <1>1, <1>2, FlushFields DEF Shape
<1>8. Range(b.pending) = Range(a.pending) \cup Flushed(a)
  <2> DEFINE s == a.pending
             t == SetToSeq(Flushed(a))
  <2>1. s \in Seq(GroupSet) /\ t \in Seq(GroupSet)
    BY <1>1, <1>7, CheckpointParts
  <2> HIDE DEF s, t
  <2>2. Range(s \o t) = Range(s) \cup Range(t)
    BY <2>1, RangeConcat
  <2> QED BY <2>2, <1>7 DEF s, t
<1>9. Shape(b)
  BY <1>1, <1>2, <1>7 DEF Shape, SameKept
<1>10. a.part # 0 /\ a.resolved
  BY <1>1 DEF SameKept
<1>11. ASSUME NEW W \in SUBSET Nat, NEW L \in SUBSET Nat, Ordered(c, W, L)
       PROVE  Ordered(b, W, L)
  <2>1. Ordered(a, W, L)
    BY <1>3, <1>11
  <2> HIDE DEF b
  <2>2. LET d == flush_range_tombstones(a) IN Shape(d) /\ Ordered(d, W, L)
    BY <1>1, <1>2, <1>10, <2>1, FlushOrdered
  <2> QED BY <2>2 DEF b
<1> HIDE DEF b
<1>12. CASE a.ranges # {} /\ ~a.emitted
  <2>1. Tail_(c) = b
    BY <1>5, <1>12
  <2>2. b \in Checkpoint /\ SameKept(b, c) /\ Shape(b)
    BY <1>1, <1>7, <1>9 DEF SameKept
  <2> QED BY <1>1, <1>4, <1>6, <1>7, <1>8, <1>11, <1>12, <2>1, <2>2
<1>13. CASE ~(a.ranges # {} /\ ~a.emitted)
  <2>1. Tail_(c) = a
    BY <1>5, <1>13
  <2>2. a.emitted = (c.emitted \/ c.ranges # {})
    <3>1. a.emitted \in BOOLEAN
      BY <1>1 DEF Checkpoint
    <3> QED BY <3>1, <1>1, <1>13
  <2> QED BY <1>1, <1>2, <1>3, <1>4, <1>10, <1>13, <2>1, <2>2
<1> QED BY <1>12, <1>13

\* AtEnd as one checkpoint behind two steps.
LEMMA EndOf ==
  ASSUME StateInv, NEW d \in AtEnd
  PROVE  LET c == finalize_current_cluster(cur)
         IN  /\ d = Tail_(c) /\ PartitionDrained /\ cur.part \in Partitions /\ cur.part # 0
             /\ c \in Checkpoint /\ SameKept(c, cur) /\ Shape(c)
             /\ c.part # 0 /\ c.resolved
<1> DEFINE c == finalize_current_cluster(cur)
<1>1. d = Tail_(c) /\ PartitionDrained
  BY DEF AtEnd
<1>2. cur \in Checkpoint /\ Shape(cur)
  BY DEF StateInv
<1>3. cur.part # 0
  BY <1>1 DEF PartitionDrained
<1>4. cur.part \in Partitions
  BY <1>2, <1>3 DEF Checkpoint
<1>5. /\ c \in Checkpoint /\ SameKept(c, cur) /\ c.ranges = cur.ranges
      /\ c.resolved = TRUE /\ c.cluster = NoCluster
      /\ c.awaiting = cur.awaiting \o Waits(cur)
  BY <1>2, FinalizeFields
<1>6. Shape(c)
  <2>2. cur.ranges = {} => c.awaiting = <<>>
    <3>1. cur.ranges = {} => cur.awaiting = <<>> /\ Waits(cur) = <<>>
      BY <1>2 DEF Shape, Waits
    <3> QED BY <3>1, <1>5
  <2> QED BY <1>2, <1>3, <1>5, <2>2 DEF Shape, SameKept
<1> QED BY <1>1, <1>3, <1>4, <1>5, <1>6 DEF SameKept

(***************************************************************************)
(* The steps.                                                              *)
(***************************************************************************)
Began(p) == [fresh EXCEPT !.part = p]

LEMMA BeganFields ==
  ASSUME NEW p \in Partitions
  PROVE  LET d == Began(p)
         IN  /\ d \in Checkpoint /\ Shape(d) /\ d.part = p /\ d.part # 0
             /\ d.pending = <<>> /\ d.ranges = {} /\ d.pdel = {} /\ d.resolved = FALSE
             /\ d.cluster = NoCluster /\ d.awaiting = <<>> /\ d.emitted = FALSE
             /\ d.rows = <<>>
<1> DEFINE d == Began(p)
<1>1. /\ d.part = p /\ d.pending = <<>> /\ d.ranges = {} /\ d.pdel = {} /\ d.resolved = FALSE
      /\ d.cluster = NoCluster /\ d.awaiting = <<>> /\ d.emitted = FALSE /\ d.rows = <<>>
  BY DEF Began, fresh
<1>2. p # 0
  BY StreamingMergeAssumption
<1>3. d \in Checkpoint
  BY FreshType DEF Checkpoint, Began
<1>4. Shape(d)
  <2>1. IsFiniteSet({})
    BY FS_EmptySet
  <2> QED BY <1>1, <1>2, <2>1 DEF Shape
<1> QED BY <1>1, <1>2, <1>3, <1>4

LEMMA BeganOrdered ==
  ASSUME NEW p \in Partitions, NEW W, NEW L, Below(W, L)
  PROVE  Ordered(Began(p), W, L)
<1> DEFINE d == Began(p)
<1>1. /\ d.pending = <<>> /\ d.cluster = NoCluster /\ d.awaiting = <<>> /\ d.rows = <<>>
  BY BeganFields
<1> HIDE DEF d
<1>2. Keys({}) = {}
  BY DEF Keys
<1>3. Out(d) = {}
  BY <1>1, RangeEmpty DEF Out
<1>4. ClusterKey(d) = {}
  BY <1>1 DEF ClusterKey, NoCluster
<1>5. Ordered(d, W, L)
  BY <1>1, <1>2, <1>3, <1>4, RangeEmpty, AscendingEmpty DEF Ordered, Below
<1> QED BY <1>5 DEF d

LEMMA OrderInvNext ==
  ASSUME UNCHANGED <<input, gc>>,
         \A p \in Partitions : WrittenOrder(pos', written', p),
         InOrder(cur', pos', written'), InOrder(stash', pos', written')
  PROVE  OrderInv'
BY DEF OrderInv, WrittenOrder, InOrder, InFront, Ahead, Entries

LEMMA FreshInOrder == ASSUME NEW ps, NEW w PROVE InOrder(fresh, ps, w)
BY FreshShape DEF InOrder

\* Every step but a pull leaves the positions alone.
LEMMA StateInvKept ==
  ASSUME StateInv, UNCHANGED <<input, gc, pos>>,
         phase' \in {"idle", "drain", "complete"}, boundary' \in BOOLEAN, failures' \in Nat,
         cur' \in Checkpoint, stash' \in Checkpoint, Shape(cur'), Shape(stash'),
         phase' # "drain" => cur' = fresh, phase' # "idle" => stash' = fresh,
         written' \in [Partitions -> Seq(GroupSet)]
  PROVE  StateInv'
<1>1. InputOK' /\ PosOK'
  BY DEF StateInv, InputOK, PosOK
<1>2. Shape(cur)' /\ Shape(stash)'
  BY DEF Shape, fresh, NoCluster
<1>3. (cur \in Checkpoint)' /\ (stash \in Checkpoint)'
  BY DEF Checkpoint, GroupSet, ClusterSet, Sound, Fact
<1> QED BY <1>1, <1>2, <1>3 DEF StateInv, fresh, NoCluster

LEMMA ResumeStep ==
  ASSUME StateInv, OrderInv, resume
  PROVE  StateInv' /\ OrderInv'
<1> USE FreshType, FreshShape
<1>1. /\ phase' = "drain" /\ boundary' = FALSE /\ cur' = stash /\ stash' = fresh
      /\ UNCHANGED <<input, gc, pos, written, failures>>
  BY DEF resume
<1>2. StateInv'
  BY <1>1, StateInvKept DEF StateInv
<1>3. OrderInv'
  <2>1. \A p \in Partitions : WrittenOrder(pos', written', p)
    BY <1>1 DEF OrderInv
  <2>2. InOrder(cur', pos', written') /\ InOrder(stash', pos', written')
    BY <1>1, FreshInOrder DEF OrderInv
  <2> QED BY <1>1, <2>1, <2>2, OrderInvNext
<1> QED BY <1>2, <1>3

LEMMA BeginStep ==
  ASSUME StateInv, OrderInv, NEW r \in DOMAIN input, begin_partition(r)
  PROVE  StateInv' /\ OrderInv'
<1> USE FreshType, FreshShape
<1> DEFINE p == head(r).part
<1>1. /\ phase = "drain" /\ IsTop(r) /\ cur' = Began(p) /\ boundary' = FALSE
      /\ UNCHANGED <<input, gc, pos, phase, stash, written, failures>>
  BY DEF begin_partition, Steps, Began
<1>2. p \in Partitions
  BY <1>1, HeadFacts DEF StateInv, IsTop
<1>3. InFront(pos, p)
  BY <1>1, TopFront DEF StateInv
<1> HIDE DEF p
<1>4. /\ Began(p) \in Checkpoint /\ Shape(Began(p)) /\ Began(p).part = p
  BY <1>2, BeganFields
<1>5. StateInv'
  BY <1>1, <1>4, StateInvKept DEF StateInv
<1>6. OrderInv'
  <2>1. \A q \in Partitions : WrittenOrder(pos', written', q)
    BY <1>1 DEF OrderInv
  <2>2. InOrder(stash', pos', written')
    BY <1>1 DEF OrderInv
  <2>3. Below(Keys(Range(written[p])), Keys(Ahead(pos, p)))
    BY <1>2 DEF OrderInv, WrittenOrder
  <2>4. InOrder(Began(p), pos, written)
    BY <2>3, <1>2, <1>3, <1>4, BeganOrdered DEF InOrder
  <2>5. InOrder(cur', pos', written')
    BY <2>4, <1>1
  <2> QED BY <1>1, <2>1, <2>2, <2>5, OrderInvNext
<1> QED BY <1>5, <1>6

LEMMA PullStep ==
  ASSUME StateInv, OrderInv, NEW r \in DOMAIN input, pull_one(r)
  PROVE  StateInv' /\ OrderInv'
<1> USE FreshType, FreshShape
<1> DEFINE e == head(r)
           ps == [pos EXCEPT ![r] = @ + 1]
           p == cur.part
           W == Keys(Range(written[p]))
           L == Keys(Ahead(pos, p))
           M == Keys(Ahead(ps, p))
<1>1. /\ phase = "drain" /\ IsTop(r) /\ HasHead(r) /\ cur' = Absorb(cur, e) /\ pos' = ps
      /\ cur.part # 0 /\ e.part = p /\ boundary' = FALSE
      /\ UNCHANGED <<input, gc, phase, stash, written, failures>>
  BY DEF pull_one, Steps, IsTop
<1>2. InputOK /\ PosOK /\ cur \in Checkpoint /\ Shape(cur) /\ stash = fresh
  BY <1>1 DEF StateInv
<1>3. /\ SoundEntry(e) /\ p \in Partitions /\ e.ck \in Nat /\ e \in Ahead(pos, p)
  BY <1>1, <1>2, HeadFacts
<1>4. /\ ps \in [DOMAIN input -> Nat \ {0}]
      /\ \A q \in DOMAIN input : ps[q] <= Len(input[q]) + 1
      /\ \A q : Ahead(ps, q) \subseteq Ahead(pos, q)
      /\ \A q : InFront(pos, q) => InFront(ps, q)
  BY <1>1, <1>2, PullMoves
<1>5. e.ck # 0 => \A a \in Ahead(pos, p) : a.ck # 0 => e.ck <= a.ck
  BY <1>1, <1>2, TopOrder
<1> HIDE DEF e, ps
<1>6. /\ W \in SUBSET Nat /\ L \in SUBSET Nat /\ M \in SUBSET L
  <2>1. W \in SUBSET Nat
    BY <1>3, WrittenKeys
  <2>2. L \in SUBSET Nat
    BY <1>2, AheadKeys
  <2>3. M \subseteq L
    BY <1>4 DEF Keys
  <2> QED BY <2>1, <2>2, <2>3
<1>7. e.ck # 0 => e.ck \in L /\ \A l \in M : e.ck <= l
  <2>1. e.ck # 0 => e.ck \in L
    BY <1>3 DEF Keys
  <2>2. e.ck # 0 => \A l \in L : e.ck <= l
    BY <1>5 DEF Keys
  <2> QED BY <2>1, <2>2, <1>6
<1>8. Ordered(cur, W, L)
  BY <1>1 DEF OrderInv, InOrder
<1> HIDE DEF p, W, L, M
<1>9. LET d == Absorb(cur, e)
      IN  d \in Checkpoint /\ SameKept(d, cur) /\ Shape(d) /\ Ordered(d, W, M)
  BY <1>1, <1>2, <1>3, <1>6, <1>7, <1>8, AbsorbOrdered DEF p
<1>10. cur' \in Checkpoint /\ cur'.part = p /\ Shape(cur') /\ Ordered(cur', W, M)
  BY <1>1, <1>9 DEF SameKept, p
<1>11. StateInv'
  <2>1. InputOK' /\ PosOK'
    <3>1. InputOK'
      BY <1>1, <1>2 DEF InputOK
    <3>2. PosOK'
      BY <1>1, <1>4 DEF PosOK
    <3> QED BY <3>1, <3>2
  <2>2. Shape(cur)' /\ Shape(stash)'
    BY <1>1, <1>2, <1>10 DEF Shape, fresh, NoCluster
  <2>3. (cur \in Checkpoint)' /\ (stash \in Checkpoint)'
    BY <1>1, <1>2, <1>10 DEF Checkpoint, GroupSet, ClusterSet, Sound, Fact
  <2> QED BY <1>1, <1>2, <2>1, <2>2, <2>3 DEF StateInv, fresh, NoCluster
<1>12. OrderInv'
  <2>1. ASSUME NEW q \in Partitions PROVE WrittenOrder(pos', written', q)
    <3>1. WrittenOrder(pos, written, q)
      BY DEF OrderInv
    <3>2. Keys(Ahead(ps, q)) \subseteq Keys(Ahead(pos, q))
      BY <1>4 DEF Keys
    <3>3. WrittenOrder(ps, written, q)
      BY <3>1, <3>2 DEF WrittenOrder, Below
    <3> QED BY <3>3, <1>1
  <2>2. InOrder(cur', pos', written')
    <3>1. InFront(ps, p)
      BY <1>1, <1>4 DEF OrderInv, InOrder, p
    <3> QED BY <3>1, <1>1, <1>10 DEF InOrder, W, M
  <2>3. InOrder(stash', pos', written')
    BY <1>1, <1>2, FreshInOrder
  <2> QED BY <1>1, <2>1, <2>2, <2>3, OrderInvNext
<1> QED BY <1>11, <1>12

\* The checkpoint behind the end of the partition keeps the order.
LEMMA EndOrdered ==
  ASSUME StateInv, OrderInv, NEW d \in AtEnd
  PROVE  /\ d \in Checkpoint /\ Shape(d) /\ SameKept(d, cur)
         /\ InOrder(d, pos, written) /\ Ahead(pos, cur.part) = {}
<1> DEFINE c == finalize_current_cluster(cur)
           p == cur.part
           W == Keys(Range(written[p]))
           L == Keys(Ahead(pos, p))
<1>1. /\ d = Tail_(c) /\ PartitionDrained /\ p \in Partitions /\ p # 0
      /\ c \in Checkpoint /\ SameKept(c, cur) /\ Shape(c) /\ c.part # 0 /\ c.resolved
  BY EndOf
<1>2. InFront(pos, p) /\ Ordered(cur, W, L)
  BY <1>1 DEF OrderInv, InOrder
<1>3. Ahead(pos, p) = {}
  BY <1>1, <1>2, DrainedMeansNone DEF StateInv
<1>4. L = {}
  BY <1>3 DEF Keys
<1>5. W \in SUBSET Nat /\ L \in SUBSET Nat
  BY <1>1, <1>4, WrittenKeys
<1>6. Below(ClusterKey(cur), L)
  BY <1>4 DEF Below
<1>7. cur \in Checkpoint /\ Shape(cur)
  BY DEF StateInv
<1> HIDE DEF W, L
<1>8. Ordered(c, W, L)
  BY <1>1, <1>2, <1>5, <1>6, <1>7, FinalizeOrdered
<1> HIDE DEF c
<1>9. /\ d \in Checkpoint /\ SameKept(d, c) /\ Shape(d)
      /\ \A V, K \in SUBSET Nat : Ordered(c, V, K) => Ordered(d, V, K)
  BY <1>1, TailFields
<1>10. Ordered(d, W, L)
  BY <1>5, <1>8, <1>9
<1>11. SameKept(d, cur)
  BY <1>1, <1>9 DEF SameKept
<1> QED BY <1>2, <1>3, <1>9, <1>10, <1>11 DEF InOrder, SameKept, W, L

LEMMA FinishStep ==
  ASSUME StateInv, OrderInv, finish_partition
  PROVE  StateInv' /\ OrderInv'
<1> USE FreshType, FreshShape
<1>1. PICK d \in AtEnd : cur' = d
  BY DEF finish_partition
<1>2. /\ phase = "drain" /\ boundary' = FALSE
      /\ UNCHANGED <<input, gc, pos, phase, stash, written, failures>>
  BY EndOf DEF finish_partition, PartitionDrained, Steps
<1>3. d \in Checkpoint /\ Shape(d) /\ InOrder(d, pos, written)
  BY EndOrdered
<1>4. StateInv'
  BY <1>1, <1>2, <1>3, StateInvKept DEF StateInv
<1>5. OrderInv'
  <2>1. \A q \in Partitions : WrittenOrder(pos', written', q)
    BY <1>2 DEF OrderInv
  <2>2. InOrder(cur', pos', written') /\ InOrder(stash', pos', written')
    BY <1>1, <1>2, <1>3 DEF OrderInv
  <2> QED BY <1>2, <2>1, <2>2, OrderInvNext
<1> QED BY <1>4, <1>5

LEMMA GroupStep ==
  ASSUME StateInv, OrderInv, cluster_group
  PROVE  StateInv' /\ OrderInv'
<1> USE FreshType, FreshShape
<1> DEFINE p == cur.part
           W == Keys(Range(written[p]))
           L == Keys(Ahead(pos, p))
<1>1. /\ phase = "drain" /\ cur.pending # <<>> /\ cur' = Popped(cur) /\ boundary' = TRUE
      /\ UNCHANGED <<input, gc, pos, phase, stash, written, failures>>
  BY DEF cluster_group, Popped
<1>2. cur \in Checkpoint /\ Shape(cur)
  BY DEF StateInv
<1>3. cur.part # 0
  BY <1>1, <1>2 DEF Shape, fresh
<1>4. p \in Partitions
  BY <1>2, <1>3 DEF Checkpoint
<1>5. W \in SUBSET Nat /\ L \in SUBSET Nat
  BY <1>4, WrittenKeys, AheadKeys DEF StateInv
<1>6. InFront(pos, p) /\ Ordered(cur, W, L)
  BY <1>3 DEF OrderInv, InOrder
<1> HIDE DEF W, L
<1>7. Popped(cur) \in Checkpoint /\ Popped(cur).part = p
  BY <1>1, <1>2, PoppedFields
<1>8. Shape(Popped(cur)) /\ Ordered(Popped(cur), W, L)
  BY <1>1, <1>2, <1>3, <1>5, <1>6, PoppedOrdered
<1>9. StateInv'
  BY <1>1, <1>7, <1>8, StateInvKept DEF StateInv
<1>10. OrderInv'
  <2>1. \A q \in Partitions : WrittenOrder(pos', written', q)
    BY <1>1 DEF OrderInv
  <2>2. InOrder(Popped(cur), pos, written)
    BY <1>6, <1>7, <1>8 DEF InOrder, W, L
  <2>3. InOrder(cur', pos', written') /\ InOrder(stash', pos', written')
    BY <2>2, <1>1 DEF OrderInv
  <2> QED BY <1>1, <2>1, <2>3, OrderInvNext
<1> QED BY <1>9, <1>10

LEMMA EndStep ==
  ASSUME StateInv, OrderInv, partition_end
  PROVE  StateInv' /\ OrderInv'
<1> USE FreshType, FreshShape
<1> DEFINE p == cur.part
           s == written[p]
           t == cur.rows
<1>1. PICK d \in AtEnd : d.pending = <<>>
  BY DEF partition_end
<1>2. /\ written' = [written EXCEPT ![p] = s \o t] /\ cur' = fresh /\ boundary' = TRUE
      /\ UNCHANGED <<input, gc, pos, phase, stash, failures>>
  BY DEF partition_end
<1>3. p \in Partitions /\ p # 0 /\ phase = "drain" /\ stash = fresh
  BY EndOf DEF PartitionDrained, Steps, StateInv
<1>4. Ahead(pos, p) = {}
  BY EndOrdered
<1>5. s \in Seq(GroupSet) /\ t \in Seq(GroupSet)
  BY <1>3, WrittenKeys, CheckpointParts DEF StateInv
<1>6. Ascending(s) /\ Ascending(t) /\ Below(Keys(Range(s)), Keys(Range(t)))
  <2>1. Ordered(cur, Keys(Range(s)), Keys(Ahead(pos, p)))
    BY <1>3 DEF OrderInv, InOrder
  <2>2. Keys(Range(t)) \subseteq Keys(Out(cur))
    BY KeysOut
  <2>3. Below(Keys(Range(s)), Keys(Range(t))) /\ Ascending(t)
    BY <2>1, <2>2 DEF Ordered, Below
  <2>4. Ascending(s)
    BY <1>3 DEF OrderInv, WrittenOrder
  <2> QED BY <2>3, <2>4
<1> HIDE DEF s, t
<1>7. s \o t \in Seq(GroupSet) /\ Ascending(s \o t)
  BY <1>5, <1>6, AscendingConcat, RangeConcat
<1>8. written' \in [Partitions -> Seq(GroupSet)] /\ written'[p] = s \o t
         /\ \A q \in Partitions : q # p => written'[q] = written[q]
  BY <1>2, <1>3, <1>7 DEF StateInv
<1>9. StateInv'
  BY <1>2, <1>3, <1>8, StateInvKept DEF StateInv
<1>10. OrderInv'
  <2>1. ASSUME NEW q \in Partitions PROVE WrittenOrder(pos', written', q)
    <3>1. CASE q = p
      <4>1. Keys(Ahead(pos, p)) = {}
        BY <1>4 DEF Keys
      <4> QED BY <4>1, <3>1, <1>2, <1>7, <1>8 DEF WrittenOrder, Below
    <3>2. CASE q # p
      BY <3>2, <1>2, <1>8 DEF OrderInv, WrittenOrder
    <3> QED BY <3>1, <3>2
  <2>2. InOrder(cur', pos', written') /\ InOrder(stash', pos', written')
    BY <1>2, <1>3, FreshInOrder
  <2> QED BY <1>2, <2>1, <2>2, OrderInvNext
<1> QED BY <1>9, <1>10

\* An error after rows of the partition went straight to the writer.
LEMMA StreamedFailStep ==
  ASSUME StateInv, OrderInv, step_fails,
         written' = [written EXCEPT ![cur.part] = @ \o cur.rows]
  PROVE  StateInv' /\ OrderInv'
<1> USE FreshType, FreshShape
<1> DEFINE p == cur.part
           s == written[p]
           t == cur.rows
           A == Keys(Ahead(pos, p))
<1>1. cur # fresh
  BY DEF step_fails, fresh
<1>2. /\ written' = [written EXCEPT ![p] = s \o t] /\ cur' = fresh /\ boundary' = FALSE
      /\ phase' = "idle" /\ failures' \in Nat
      /\ UNCHANGED <<input, gc, pos, stash>>
  BY DEF step_fails, StateInv
<1>3. p \in Partitions /\ p # 0 /\ phase = "drain" /\ stash = fresh
  BY <1>1 DEF step_fails, StateInv, Shape, Checkpoint
<1>5. s \in Seq(GroupSet) /\ t \in Seq(GroupSet)
  BY <1>3, WrittenKeys, CheckpointParts DEF StateInv
<1>6. /\ Ascending(s) /\ Ascending(t) /\ Below(Keys(Range(s)), Keys(Range(t)))
      /\ Below(Keys(Range(s)), A) /\ Below(Keys(Range(t)), A)
  <2>1. Ordered(cur, Keys(Range(s)), A)
    BY <1>3 DEF OrderInv, InOrder
  <2>2. Keys(Range(t)) \subseteq Keys(Out(cur))
    BY KeysOut
  <2>3. Below(Keys(Range(s)), Keys(Range(t))) /\ Ascending(t) /\ Below(Keys(Range(t)), A)
    BY <2>1, <2>2 DEF Ordered, Below
  <2>4. Ascending(s) /\ Below(Keys(Range(s)), A)
    BY <1>3 DEF OrderInv, WrittenOrder
  <2> QED BY <2>3, <2>4
<1> HIDE DEF s, t
<1>7. /\ s \o t \in Seq(GroupSet) /\ Ascending(s \o t)
      /\ Keys(Range(s \o t)) = Keys(Range(s)) \cup Keys(Range(t))
  BY <1>5, <1>6, AscendingConcat, RangeConcat, KeysUnion
<1>8. written' \in [Partitions -> Seq(GroupSet)] /\ written'[p] = s \o t
         /\ \A q \in Partitions : q # p => written'[q] = written[q]
  BY <1>2, <1>3, <1>7 DEF StateInv
<1>9. StateInv'
  BY <1>2, <1>3, <1>8, StateInvKept DEF StateInv
<1>10. OrderInv'
  <2>1. ASSUME NEW q \in Partitions PROVE WrittenOrder(pos', written', q)
    <3>1. CASE q = p
      <4>1. Below(Keys(Range(s \o t)), A)
        BY <1>6, <1>7 DEF Below
      <4> QED BY <4>1, <3>1, <1>2, <1>7, <1>8 DEF WrittenOrder
    <3>2. CASE q # p
      BY <3>2, <1>2, <1>8 DEF OrderInv, WrittenOrder
    <3> QED BY <3>1, <3>2
  <2>2. InOrder(cur', pos', written') /\ InOrder(stash', pos', written')
    BY <1>2, <1>3, FreshInOrder
  <2> QED BY <1>2, <2>1, <2>2, OrderInvNext
<1> QED BY <1>9, <1>10

\* A call that stops, by its budget or with an error.
LEMMA StopStep ==
  ASSUME StateInv, OrderInv, \/ pause \/ merge_complete
                             \/ step_fails /\ UNCHANGED written
  PROVE  StateInv' /\ OrderInv'
<1> USE FreshType, FreshShape
<1>1. /\ phase = "drain" /\ UNCHANGED <<input, gc, pos, written>> /\ boundary' = FALSE
      /\ phase' \in {"idle", "complete"} /\ cur' = fresh /\ failures' \in Nat
      /\ (stash' = cur /\ phase' = "idle") \/ stash' = stash
  <2>1. CASE pause
    BY <2>1 DEF pause, StateInv
  <2>2. CASE step_fails /\ UNCHANGED written
    BY <2>2 DEF step_fails, StateInv
  <2>3. CASE merge_complete
    <3>1. cur = fresh
      BY <2>3 DEF merge_complete, StateInv, Shape
    <3> QED BY <2>3, <3>1 DEF merge_complete, Steps, StateInv
  <2> QED BY <2>1, <2>2, <2>3
<1>2. stash' \in Checkpoint /\ Shape(stash') /\ (phase' # "idle" => stash' = fresh)
  BY <1>1 DEF StateInv
<1>3. StateInv'
  BY <1>1, <1>2, StateInvKept DEF StateInv
<1>4. OrderInv'
  <2>1. \A q \in Partitions : WrittenOrder(pos', written', q)
    BY <1>1 DEF OrderInv
  <2>2. InOrder(cur', pos', written')
    BY <1>1, FreshInOrder
  <2>3. InOrder(stash', pos', written')
    BY <1>1 DEF OrderInv
  <2> QED BY <1>1, <2>1, <2>2, <2>3, OrderInvNext
<1> QED BY <1>3, <1>4

LEMMA IdleStep ==
  ASSUME StateInv, OrderInv, UNCHANGED vars
  PROVE  StateInv' /\ OrderInv'
<1>1. UNCHANGED <<input, gc, pos, phase, boundary, cur, stash, written, failures>>
  BY DEF vars
<1>2. StateInv'
  BY <1>1, StateInvKept DEF StateInv
<1>3. OrderInv'
  <2>1. /\ \A q \in Partitions : WrittenOrder(pos', written', q)
        /\ InOrder(cur', pos', written') /\ InOrder(stash', pos', written')
    BY <1>1 DEF OrderInv
  <2> QED BY <1>1, <2>1, OrderInvNext
<1> QED BY <1>2, <1>3

LEMMA OrderInit ==
  ASSUME Init
  PROVE  StateInv /\ OrderInv
<1> USE FreshType, FreshShape
<1>1. /\ pos = [r \in DOMAIN input |-> 1] /\ phase = "idle" /\ boundary = FALSE
      /\ cur = fresh /\ stash = fresh /\ written = [p \in Partitions |-> <<>>]
      /\ failures = 0 /\ InputOK
  BY DEF Init, InputOK
<1>2. \A r \in DOMAIN input : Len(input[r]) \in Nat
  BY <1>1, InputFacts
<1>3. PosOK
  BY <1>1, <1>2 DEF PosOK
<1>4. <<>> \in Seq(GroupSet)
  OBVIOUS
<1>5. StateInv
  BY <1>1, <1>3, <1>4 DEF StateInv
<1>6. ASSUME NEW p \in Partitions PROVE WrittenOrder(pos, written, p)
  <2>1. written[p] = <<>>
    BY <1>1
  <2>2. Keys({}) = {}
    BY DEF Keys
  <2> QED BY <2>1, <2>2, RangeEmpty, AscendingEmpty DEF WrittenOrder, Below
<1> QED BY <1>1, <1>5, <1>6, FreshInOrder DEF OrderInv

LEMMA OrderNext ==
  ASSUME StateInv, OrderInv, [Next]_vars
  PROVE  StateInv' /\ OrderInv'
<1>1. CASE \E r \in DOMAIN input : begin_partition(r) \/ pull_one(r)
  BY <1>1, BeginStep, PullStep
<1>2. CASE Finished \/ UNCHANGED vars
  BY <1>2, IdleStep DEF Finished
<1>3. CASE step_fails
  <2>1. \/ UNCHANGED written
        \/ written' = [written EXCEPT ![cur.part] = @ \o cur.rows]
    BY <1>3 DEF step_fails
  <2> QED BY <1>3, <2>1, StopStep, StreamedFailStep
<1> QED BY <1>1, <1>2, <1>3, ResumeStep, FinishStep, GroupStep, EndStep, StopStep
      DEF Next, step_streaming

LEMMA OrderAlways == Spec => [](StateInv /\ OrderInv)
<1>1. Init => StateInv /\ OrderInv
  BY OrderInit
<1>2. (StateInv /\ OrderInv) /\ [Next]_vars => (StateInv /\ OrderInv)'
  BY OrderNext
<1> QED BY <1>1, <1>2, PTL DEF Spec

(***************************************************************************)
(* The types: one partition is in flight at a time, and between two calls  *)
(* it is in the hands of ActiveMerge::pending_partition and nowhere else.  *)
(***************************************************************************)
THEOREM StreamingTypeCorrect == Spec => []TypeOK
<1>1. StateInv => TypeOK
  <2> SUFFICES ASSUME StateInv PROVE TypeOK
    OBVIOUS
  <2>1. cur.part \in Partitions \cup {0} /\ stash.part \in Partitions \cup {0}
    BY DEF StateInv, Checkpoint
  <2>2. (cur.part = 0 => cur = fresh) /\ (stash.part = 0 => stash = fresh)
    BY DEF StateInv, Shape
  <2> QED BY <2>1, <2>2 DEF StateInv, PosOK, TypeOK
<1> QED BY <1>1, OrderAlways, PTL

(***************************************************************************)
(* However often the drain pauses, whatever call fails and with whatever   *)
(* inputs, a partition's rows reach the writer once each and in clustering *)
(* order.                                                                  *)
(***************************************************************************)
THEOREM RowsComeInOrder == Spec => []RowsInOrder
<1>1. StateInv /\ OrderInv => RowsInOrder
  <2> SUFFICES ASSUME StateInv, OrderInv, NEW p \in Partitions
               PROVE  LET groups == written[p] \o (IF cur.part = p THEN cur.rows ELSE <<>>)
                                       \o (IF stash.part = p THEN stash.rows ELSE <<>>)
                      IN  Ascending(groups)
    BY DEF RowsInOrder, Ascending
  <2> DEFINE w == written[p]
             a == IF cur.part = p THEN cur.rows ELSE <<>>
             b == IF stash.part = p THEN stash.rows ELSE <<>>
  <2>0. p # 0
    BY StreamingMergeAssumption
  <2>1. a = <<>> \/ b = <<>>
    <3>1. phase # "drain" => cur.part = 0
      BY FreshShape DEF StateInv
    <3>2. phase = "drain" => stash.part = 0
      BY FreshShape DEF StateInv
    <3> QED BY <2>0, <3>1, <3>2
  <2>2. w \in Seq(GroupSet) /\ a \in Seq(GroupSet) /\ b \in Seq(GroupSet)
    <3>1. cur.rows \in Seq(GroupSet) /\ stash.rows \in Seq(GroupSet)
      BY CheckpointParts DEF StateInv
    <3>2. <<>> \in Seq(GroupSet)
      OBVIOUS
    <3> QED BY <3>1, <3>2, WrittenKeys
  <2>3. Ascending(w)
    BY DEF OrderInv, WrittenOrder
  <2>4. ASSUME NEW c, c \in {cur, stash}, c.part = p
        PROVE  Ascending(c.rows) /\ Below(Keys(Range(w)), Keys(Range(c.rows)))
    <3>1. Ordered(c, Keys(Range(w)), Keys(Ahead(pos, p)))
      BY <2>0, <2>4 DEF OrderInv, InOrder
    <3>2. Keys(Range(c.rows)) \subseteq Keys(Out(c))
      BY KeysOut
    <3> QED BY <3>1, <3>2 DEF Ordered, Below
  <2>5. Ascending(a) /\ Below(Keys(Range(w)), Keys(Range(a)))
    <3>1. Ascending(<<>>) /\ Below(Keys(Range(w)), Keys(Range(<<>>)))
      BY AscendingEmpty, RangeEmpty DEF Keys, Below
    <3> QED BY <3>1, <2>4
  <2>6. Ascending(b) /\ Below(Keys(Range(w)), Keys(Range(b)))
    <3>1. Ascending(<<>>) /\ Below(Keys(Range(w)), Keys(Range(<<>>)))
      BY AscendingEmpty, RangeEmpty DEF Keys, Below
    <3> QED BY <3>1, <2>4
  <2> HIDE DEF w, a, b
  <2>7. Ascending(w \o a) /\ Ascending(w \o b)
    BY <2>2, <2>3, <2>5, <2>6, AscendingConcat
  <2>8. w \o a \in Seq(GroupSet) /\ w \o b \in Seq(GroupSet)
    BY <2>2, RangeConcat
  <2>9. CASE a = <<>>
    <3>1. (w \o a) \o b = w \o b
      BY <2>2, <2>9
    <3> QED BY <3>1, <2>7 DEF w, a, b
  <2>10. CASE b = <<>>
    <3>1. (w \o a) \o b = w \o a
      BY <2>2, <2>8, <2>10
    <3> QED BY <3>1, <2>7 DEF w, a, b
  <2> QED BY <2>1, <2>9, <2>10
<1> QED BY <1>1, OrderAlways, PTL

(***************************************************************************)
(* What a checkpoint knows of its partition, of which the entries B are    *)
(* behind the heads and the entries A ahead.                               *)
(***************************************************************************)
At(G, ck) == UNION {x.facts : x \in {y \in G : y.ck = ck}}
Deletions(B) == UNION {e.facts : e \in {x \in B : KindOf(x) = "partdel"}}
RangesOf(B) == {Group(0, e.lo, e.hi, e.facts) : e \in {x \in B : KindOf(x) = "rangedel"}}
Newer(f, D) == \A d \in D : f.ts > d.ts
Shown(c) == Range(c.rows) \cup Range(c.pending)

\* The deletions and the row under way are the ones seen.
Collected(c, B) ==
    /\ c.pdel = Newest(Deletions(B))
    /\ c.ranges = RangesOf(B)
    /\ c.cluster.ck # 0 => c.cluster.ck \in Keys(B) /\ c.cluster.facts = At(B, c.cluster.ck)

\* Of the rows behind it: what no deletion seen shadows is kept, and what is
\* kept is what reconciling the row leaves.
RowsKept(c, B) ==
    /\ Keys(Out(c)) \subseteq Keys(B)
    /\ \A x \in Out(c) : x.ck # 0 => x.lo = x.ck /\ x.hi = x.ck
    /\ \A ck \in Keys(B) \ ClusterKey(c) :
          /\ At(Out(c), ck) \subseteq reconcile_cluster(At(B, ck), gc)
          /\ \A f \in reconcile_cluster(At(B, ck), gc) :
                Unshadowed(f, ck, c.ranges, c.pdel) => f \in At(Out(c), ck)

\* What is out of the merge's hands was not shadowed by a deletion that may not
\* be written.
ShownUnshadowed(c) ==
    \A x \in Shown(c) : x.ck # 0 =>
        \A f \in x.facts : /\ Newer(f, c.pdel)
                           /\ gc.gc_before # 0 => Unshadowed(f, x.ck, c.ranges, c.pdel)

PrefixOut(c) ==
    IF c.resolved /\ purge_gc_grace(c.pdel, gc) # {}
    THEN {Group(0, 1, LastCluster, purge_gc_grace(c.pdel, gc))} ELSE {}
FlushOut(c) == IF c.emitted THEN Flushed(c) ELSE {}

CarriersOut(c) ==
    /\ {x \in Shown(c) : x.ck = 0} = PrefixOut(c) \cup FlushOut(c)
    /\ \A x \in Range(c.awaiting) : x.ck # 0

\* No step was taken before its time.
Timely(c, A) ==
    /\ c.emitted => A = {}
    /\ c.cluster # NoCluster \/ c.resolved => \A a \in A : KindOf(a) # "partdel"

Core(c, B, A) ==
    Collected(c, B) /\ RowsKept(c, B) /\ ShownUnshadowed(c) /\ CarriersOut(c) /\ Timely(c, A)

\* The row under way is the last one.
LastRow(c, B, A) ==
    IF c.cluster = NoCluster THEN Keys(B) = {} \/ A = {}
    ELSE \A k \in Keys(B) : k <= c.cluster.ck

\* A carrier at the head of its run came there with the row under way.
HeadCarriers(c, ps) ==
    \A r \in DOMAIN input :
        /\ ps[r] \in DOMAIN input[r] /\ input[r][ps[r]].part = c.part /\ input[r][ps[r]].ck = 0
        /\ c.cluster # NoCluster
        => \E i \in DOMAIN input[r] : /\ i < ps[r] /\ input[r][i].part = c.part
                                      /\ input[r][i].ck = c.cluster.ck

(***************************************************************************)
(* The facts of a row and the deletions around it.                         *)
(***************************************************************************)
LEMMA NewerNewest ==
  ASSUME NEW D \in SUBSET Sound, NEW f, f.ts \in Nat
  PROVE  Newer(f, Newest(D)) <=> Newer(f, D)
<1>1. \A d \in D : d \in Fact /\ d.ts \in Nat /\ d.ts <= Infinity
  BY DEF Sound, Fact
<1>2. CASE D = {}
  BY <1>2 DEF Newer, Newest
<1>3. CASE D # {}
  <2>1. D \subseteq Fact
    BY <1>1
  <2>2. PICK m \in D : \A d \in D : d.ts <= m.ts
    BY <1>1, <1>3, <2>1, NewestExists
  <2>3. m \in Newest(D)
    BY <2>2 DEF Newest
  <2>4. ASSUME Newer(f, Newest(D)), NEW d \in D PROVE f.ts > d.ts
    <3>1. f.ts > m.ts
      BY <2>3, <2>4 DEF Newer
    <3> QED BY <3>1, <2>2, <1>1
  <2>5. Newest(D) \subseteq D
    BY DEF Newest
  <2> QED BY <2>4, <2>5 DEF Newer
<1> QED BY <1>2, <1>3

\* The newest of what was the newest and of what came is the newest of all.
LEMMA NewestStep ==
  ASSUME NEW D \in SUBSET Sound, NEW E \in SUBSET Sound
  PROVE  Newest(Newest(D) \cup E) = Newest(D \cup E)
<1>1. \A d \in D \cup E : d \in Fact /\ d.ts \in Nat /\ d.ts <= Infinity
  BY DEF Sound, Fact
<1>2. CASE D = {}
  BY <1>2 DEF Newest
<1>3. CASE D # {}
  <2>1. D \subseteq Fact
    BY <1>1
  <2>2. PICK m \in D : \A d \in D : d.ts <= m.ts
    BY <1>1, <1>3, <2>1, NewestExists
  <2>3. m \in Newest(D)
    BY <2>2 DEF Newest
  <2>4. ASSUME NEW x \in Newest(Newest(D) \cup E) PROVE x \in Newest(D \cup E)
    <3>1. /\ x \in D \cup E /\ x.ts \in Nat /\ \A d \in E : d.ts <= x.ts
      BY <1>1 DEF Newest
    <3>2. m.ts <= x.ts
      BY <2>3 DEF Newest
    <3>3. \A d \in D : d.ts <= x.ts
      BY <3>1, <3>2, <2>2, <1>1
    <3> QED BY <3>1, <3>3 DEF Newest
  <2>5. ASSUME NEW x \in Newest(D \cup E) PROVE x \in Newest(Newest(D) \cup E)
    BY DEF Newest
  <2> QED BY <2>4, <2>5
<1> QED BY <1>2, <1>3

\* A row deletes and shows by its own facts only.
LEMMA ReconcileOwn ==
  ASSUME NEW F, NEW C, NEW g, \A f \in C : f.kind \in Carriers
  PROVE  reconcile_cluster(F \cup C, g) = reconcile_cluster(F, g)
<1>1. /\ Of(F \cup C, CellKinds) = Of(F, CellKinds)
      /\ Of(F \cup C, {"rowdel"}) = Of(F, {"rowdel"})
      /\ Of(F \cup C, {"coldel"}) = Of(F, {"coldel"})
  BY DEF Of, CellKinds, Carriers
<1>2. resolve_cell_winners(F \cup C) = resolve_cell_winners(F)
  BY <1>1 DEF resolve_cell_winners
<1>3. \A W : /\ apply_complex_deletions(W, F \cup C) = apply_complex_deletions(W, F)
             /\ shadow_by_row_deletion(W, F \cup C) = shadow_by_row_deletion(W, F)
  BY <1>1 DEF apply_complex_deletions, shadow_by_row_deletion
<1> QED BY <1>1, <1>2, <1>3 DEF reconcile_cluster

LEMMA ReconcileNothing == ASSUME NEW g PROVE reconcile_cluster({}, g) = {}
BY DEF reconcile_cluster, build, purge_gc_grace, expire_ttl_cells, shadow_by_row_deletion,
       apply_complex_deletions, resolve_cell_winners, Of, Newest

\* The facts X that the drain writes of a row with the facts F, under range
\* tombstones R and partition deletions P.
RowWritten(F, R, P, X, g) ==
    /\ F \in SUBSET Sound /\ R \in SUBSET Sound /\ P \in SUBSET Sound /\ g \in GcSettings
    /\ \A f \in F : f.kind \notin Carriers
    /\ \A f \in R : f.kind = "rangedel"
    /\ \A f \in P : f.kind = "partdel"
    /\ OneValuePerTimestamp(F)
    /\ X \subseteq reconcile_cluster(F, g)
    /\ \A f \in reconcile_cluster(F, g) : Newer(f, R) /\ Newer(f, P) => f \in X
    /\ \A f \in X : Newer(f, P)
    /\ g.gc_before # 0 => \A f \in X : Newer(f, R)

\* With the deletions that are written they show what the row and the deletions
\* over it show.
RowSame(F, R, P, X, g) ==
    Visible((X \cup purge_gc_grace(apply_shadowing(R, P), g))
               \cup purge_gc_grace(Newest(P), g), g.now)
       = Visible(F \cup R \cup P, g.now)

\* A fact that went out in front of a deletion is shadowed by that deletion,
\* which is then written too.
LEMMA WrittenRowView ==
  ASSUME NEW F, NEW R, NEW P, NEW X, NEW g, RowWritten(F, R, P, X, g)
  PROVE  RowSame(F, R, P, X, g)
<1> DEFINE I == F \cup R \cup P
           M == merge_partition_rows(I, g)
           rows == {f \in reconcile_cluster(F, g) : Newer(f, R) /\ Newer(f, P)}
           RR == purge_gc_grace(apply_shadowing(R, P), g)
           PP == purge_gc_grace(Newest(P), g)
           N == (X \cup RR) \cup PP
           T == purge_gc_grace(apply_shadowing(Newest(R), P), g)
<1> USE DEF RowWritten, RowSame
<1>1. /\ I \in SUBSET Fact /\ \A f \in I : f.ts <= Infinity /\ f.ttl <= f.ldt
      /\ \A f \in I : f.ts \in Nat /\ f.ldt \in Nat /\ f.ttl \in Nat
  BY DEF Sound, Fact
<1>2. g.now \in Nat /\ g.gc_before \in Nat /\ g.max_purgeable \in Nat
  BY DEF GcSettings
<1>3. \A f, e \in I : f.kind = "cell" /\ e.kind = "cell" /\ f.key = e.key /\ f.ts = e.ts => f = e
  BY DEF OneValuePerTimestamp
<1>4. Visible(M, g.now) = Visible(I, g.now)
  <2> DEFINE O == {}
  <2>1. Visible(merge_partition_rows(I, g) \cup O, g.now) = Visible(I \cup O, g.now)
    <3>1. O \in SUBSET Fact /\ g.now <= g.now
      BY <1>2
    <3>2. \A f, e \in I \cup O :
             f.kind = "cell" /\ e.kind = "cell" /\ f.key = e.key /\ f.ts = e.ts => f = e
      BY <1>3
    <3>3. \A o \in O : o.kind = "cell" => Guarded(I, g, o)
      OBVIOUS
    <3>4. g \in GcSettings
      OBVIOUS
    <3>5. \A f \in I : f.ts <= Infinity /\ f.ttl <= f.ldt
      BY <1>1
    <3> HIDE DEF I, O
    <3> QED BY ONLY <1>1, <1>2, <3>1, <3>2, <3>3, <3>4, <3>5, MergeKeepsView
  <2> QED BY <2>1
<1>5. /\ Of(I, {"rangedel"}) = R /\ Of(I, {"partdel"}) = P
  BY DEF Of, Carriers
<1>6. reconcile_cluster(I, g) = reconcile_cluster(F, g)
  <2> DEFINE C == R \cup P
  <2>1. \A f \in C : f.kind \in Carriers
    BY DEF Carriers
  <2>2. I = F \cup C
    OBVIOUS
  <2> HIDE DEF C, I
  <2> QED BY <2>1, <2>2, ReconcileOwn
<1>7. M = (rows \cup T) \cup PP
  <2> HIDE DEF I
  <2> QED BY <1>5, <1>6 DEF merge_partition_rows, apply_shadowing, Newer
<1>8. rows \subseteq X
  OBVIOUS
<1>9. \A x \in X : x \in Sound /\ x.ts \in Nat
  <2>1. reconcile_cluster(F, g) \in SUBSET Sound
    BY ReconciledType
  <2> QED BY <2>1 DEF Sound, Fact
<1>10. T \subseteq RR
  BY DEF apply_shadowing, purge_gc_grace, Newest
<1>11. /\ \A d \in RR : d \in R /\ d.kind = "rangedel" /\ d.ts \in Nat /\ Newer(d, P)
       /\ \A d \in PP : d \in P /\ d.kind = "partdel" /\ d.ts \in Nat
  BY <1>1 DEF apply_shadowing, purge_gc_grace, Newest, Newer
\* What a row kept beyond the unshadowed is under a range tombstone that is
\* written.
<1>12. ASSUME NEW x \in X, x \notin rows
       PROVE  \E d \in RR : d.ts >= x.ts
  <2>1. g.gc_before = 0 /\ Newer(x, P)
    BY <1>12
  <2>2. PICK d \in R : ~(x.ts > d.ts)
    BY <1>12, <2>1 DEF Newer
  <2>3. d.ts \in Nat /\ x.ts \in Nat /\ d.ldt \in Nat
    BY <1>1, <1>9
  <2>4. d.ts >= x.ts
    BY <2>2, <2>3
  <2>5. Newer(d, P)
    <3> SUFFICES ASSUME NEW q \in P PROVE d.ts > q.ts
      BY DEF Newer
    <3>1. q.ts \in Nat /\ x.ts > q.ts
      BY <2>1, <1>1 DEF Newer
    <3> QED BY <3>1, <2>3, <2>4
  <2>6. ~purgeable(d, g)
    BY <2>1, <2>3 DEF purgeable
  <2>7. d \in RR
    BY <2>5, <2>6 DEF apply_shadowing, purge_gc_grace, Newer
  <2> QED BY <2>4, <2>7
<1> HIDE DEF I, M, RR, PP, T
<1>13. ASSUME NEW v \in Visible(N, g.now) PROVE v \in Visible(M, g.now)
  <2>1. /\ v \in N /\ v.kind = "cell" /\ ~expired(v, g.now) /\ \A d \in N : ~Shadows(d, v)
    BY DEF Visible, Of
  <2>2. v \in X
    BY <2>1, <1>11
  <2>3. v \in rows
    <3> SUFFICES ASSUME v \notin rows PROVE FALSE
      OBVIOUS
    <3>1. PICK d \in RR : d.ts >= v.ts
      BY <2>2, <1>12
    <3>2. Shadows(d, v)
      BY <3>1, <1>11 DEF Shadows
    <3> QED BY <2>1, <3>1, <3>2
  <2>4. \A d \in M : ~Shadows(d, v)
    BY <2>1, <1>7, <1>8, <1>10
  <2> QED BY <2>1, <2>3, <2>4, <1>7 DEF Visible, Of
<1>14. ASSUME NEW v \in Visible(M, g.now) PROVE v \in Visible(N, g.now)
  <2>1. /\ v \in M /\ v.kind = "cell" /\ ~expired(v, g.now) /\ \A d \in M : ~Shadows(d, v)
    BY DEF Visible, Of
  <2>2. v \in rows
    BY <2>1, <1>7, <1>10, <1>11
  <2>3. /\ v \in X /\ v.ts \in Nat /\ \A d \in R : v.ts > d.ts
    BY <2>2, <1>8, <1>9 DEF Newer
  <2>4. ASSUME NEW d \in X, Shadows(d, v) PROVE FALSE
    <3>1. d \notin rows
      BY <2>1, <2>4, <1>7
    <3>2. PICK q \in RR : q.ts >= d.ts
      BY <3>1, <1>12
    <3>3. d.ts \in Nat /\ q.ts \in Nat /\ v.ts > q.ts
      BY <3>2, <2>3, <1>9, <1>11
    <3>4. d.ts >= v.ts
      BY <2>4, <2>3, <3>3 DEF Shadows
    <3> QED BY <3>2, <3>3, <3>4, <2>3
  <2>5. ASSUME NEW d \in RR, Shadows(d, v) PROVE FALSE
    <3>1. d.ts >= v.ts /\ d.ts \in Nat /\ v.ts > d.ts
      BY <2>5, <2>3, <1>11 DEF Shadows
    <3> QED BY <3>1, <2>3
  <2>6. \A d \in PP : ~Shadows(d, v)
    BY <2>1, <1>7
  <2>7. \A d \in N : ~Shadows(d, v)
    BY <2>4, <2>5, <2>6
  <2> QED BY <2>1, <2>3, <2>7 DEF Visible, Of
<1>15. Visible(N, g.now) = Visible(M, g.now)
  BY <1>13, <1>14
<1> QED BY <1>4, <1>15 DEF I, RR, PP

(***************************************************************************)
(* The facts at a clustering key, and one entry more.                      *)
(***************************************************************************)
LEMMA AtUnion == ASSUME NEW G, NEW H, NEW ck PROVE At(G \cup H, ck) = At(G, ck) \cup At(H, ck)
BY DEF At

LEMMA AtNone == ASSUME NEW G, NEW ck, ck # 0, ck \notin Keys(G) PROVE At(G, ck) = {}
BY DEF At, Keys

\* The entries of one partition that the merge has seen, or has still to see.
Known(B) == \A e \in B : SoundEntry(e)

LEMMA AtType ==
  ASSUME NEW B, Known(B), NEW ck
  PROVE  At(B, ck) \in SUBSET Sound
<1>1. \A e \in B : e.facts \subseteq Sound
  BY EntryFields DEF Known
<1> QED BY <1>1 DEF At

LEMMA DeletionsType == ASSUME NEW B, Known(B) PROVE Deletions(B) \in SUBSET Sound
<1>1. \A e \in B : e.facts \subseteq Sound
  BY EntryFields DEF Known
<1> QED BY <1>1 DEF Deletions

LEMMA AddEntry ==
  ASSUME NEW B, NEW e, SoundEntry(e)
  PROVE  LET C == B \cup {e}
         IN  /\ KindOf(e) # "partdel" => Deletions(C) = Deletions(B)
             /\ KindOf(e) = "partdel" => Deletions(C) = Deletions(B) \cup e.facts
             /\ KindOf(e) # "rangedel" => RangesOf(C) = RangesOf(B)
             /\ KindOf(e) = "rangedel" =>
                   RangesOf(C) = RangesOf(B) \cup {Group(0, e.lo, e.hi, e.facts)}
             /\ e.ck = 0 => Keys(C) = Keys(B)
             /\ e.ck # 0 => Keys(C) = Keys(B) \cup {e.ck}
             /\ \A ck : ck # e.ck => At(C, ck) = At(B, ck)
             /\ At(C, e.ck) = At(B, e.ck) \cup e.facts
<1> DEFINE C == B \cup {e}
<1>1. KindOf(e) # "partdel" => Deletions(C) = Deletions(B)
  BY DEF Deletions
<1>2. KindOf(e) = "partdel" => Deletions(C) = Deletions(B) \cup e.facts
  BY DEF Deletions
<1>3. KindOf(e) # "rangedel" => RangesOf(C) = RangesOf(B)
  BY DEF RangesOf
<1>4. KindOf(e) = "rangedel" =>
         RangesOf(C) = RangesOf(B) \cup {Group(0, e.lo, e.hi, e.facts)}
  BY DEF RangesOf
<1>5. (e.ck = 0 => Keys(C) = Keys(B)) /\ (e.ck # 0 => Keys(C) = Keys(B) \cup {e.ck})
  BY DEF Keys
<1>6. \A ck : ck # e.ck => At(C, ck) = At(B, ck)
  BY DEF At
<1>7. At(C, e.ck) = At(B, e.ck) \cup e.facts
  BY DEF At
<1> QED BY <1>1, <1>2, <1>3, <1>4, <1>5, <1>6, <1>7

(***************************************************************************)
(* The steps of the merger keep what the checkpoint knows.                 *)
(***************************************************************************)
LEMMA FinalizeCore ==
  ASSUME NEW c \in Checkpoint, NEW B, NEW A, Known(B), Shape(c), Core(c, B, A),
         Below(Keys(Out(c)), ClusterKey(c)), \A a \in A : KindOf(a) # "partdel"
  PROVE  Core(finalize_current_cluster(c), B, A)
<1> DEFINE d == finalize_current_cluster(c)
           k == c.cluster.ck
           pre == Range(Prefix(c))
           goes == Range(GoesOut(c))
           waits == Range(Waits(c))
           rec == Reconciled(c)
           cut == apply_shadowing(rec, c.pdel)
<1>1. /\ d \in Checkpoint /\ SameKept(d, c)
      /\ d.ranges = c.ranges /\ d.pdel = c.pdel /\ d.emitted = c.emitted
      /\ d.resolved = TRUE /\ d.cluster = NoCluster
      /\ d.pending = (c.pending \o Prefix(c)) \o GoesOut(c)
      /\ d.awaiting = c.awaiting \o Waits(c)
  BY FinalizeFields
<1>2. /\ c.pending \in Seq(GroupSet) /\ c.awaiting \in Seq(GroupSet)
      /\ Prefix(c) \in Seq(GroupSet) /\ GoesOut(c) \in Seq(GroupSet)
      /\ Waits(c) \in Seq(GroupSet)
  BY CheckpointParts, PrefixOf, FinalGroups
<1>3. Range(d.pending) = (Range(c.pending) \cup pre) \cup goes
  <2> DEFINE s == c.pending
             t == Prefix(c)
             u == GoesOut(c)
  <2>1. s \in Seq(GroupSet) /\ t \in Seq(GroupSet) /\ u \in Seq(GroupSet)
    BY <1>2
  <2> HIDE DEF s, t, u
  <2>2. s \o t \in Seq(GroupSet) /\ Range(s \o t) = Range(s) \cup Range(t)
    BY <2>1, RangeConcat
  <2> DEFINE v == s \o t
  <2>3. v \in Seq(GroupSet)
    BY <2>2
  <2> HIDE DEF v
  <2>4. Range(v \o u) = Range(v) \cup Range(u)
    BY <2>1, <2>3, RangeConcat
  <2> QED BY <2>2, <2>4, <1>1 DEF s, t, u, v
<1>4. Range(d.awaiting) = Range(c.awaiting) \cup waits
  <2> DEFINE s == c.awaiting
             t == Waits(c)
  <2>1. s \in Seq(GroupSet) /\ t \in Seq(GroupSet)
    BY <1>2
  <2> HIDE DEF s, t
  <2>2. Range(s \o t) = Range(s) \cup Range(t)
    BY <2>1, RangeConcat
  <2> QED BY <2>2, <1>1 DEF s, t
<1>5. c.cluster # NoCluster => k # 0
  BY DEF Shape
<1>6. k # 0 => k \in Keys(B) /\ rec = reconcile_cluster(At(B, k), gc)
  BY DEF Core, Collected, Reconciled
<1>7. k # 0 => c.cluster # NoCluster
  BY DEF NoCluster
<1>8. pre = IF c.resolved \/ purge_gc_grace(c.pdel, gc) = {} THEN {}
            ELSE {Group(0, 1, LastCluster, purge_gc_grace(c.pdel, gc))}
  BY PrefixOf
<1>9. /\ goes = IF \/ c.cluster = NoCluster \/ rec = {} \/ c.ranges # {} \/ cut = {}
                THEN {} ELSE {Group(k, k, k, cut)}
      /\ waits = IF c.cluster = NoCluster \/ rec = {} \/ c.ranges = {} THEN {}
                 ELSE {Group(k, k, k, rec)}
  BY FinalGroups
<1>10. /\ Shown(d) = (Shown(c) \cup pre) \cup goes
       /\ Out(d) = ((Out(c) \cup pre) \cup goes) \cup waits
       /\ Out(c) = Shown(c) \cup Range(c.awaiting)
  BY <1>1, <1>3, <1>4 DEF Shown, Out, SameKept
<1>11. ClusterKey(d) = {}
  BY <1>1 DEF ClusterKey, NoCluster
<1>12. cut = {f \in rec : Newer(f, c.pdel)}
  BY DEF apply_shadowing, Newer
<1> HIDE DEF d, pre, goes, waits, rec, cut, k
<1>13. \A x \in pre : x.ck = 0
  BY <1>8 DEF Group
<1>14. \A x \in goes : x.ck = k /\ x.lo = k /\ x.hi = k /\ k # 0 /\ x.facts = cut /\ c.ranges = {}
  BY <1>5, <1>9 DEF Group
<1>15. \A x \in waits : x.ck = k /\ x.lo = k /\ x.hi = k /\ k # 0 /\ x.facts = rec
  BY <1>5, <1>9 DEF Group
<1>16. Collected(d, B)
  BY <1>1 DEF Core, Collected, NoCluster
<1>17. RowsKept(d, B)
  <2>1. Keys(Out(d)) \subseteq Keys(B)
    <3>1. Keys(Out(c)) \subseteq Keys(B)
      BY DEF Core, RowsKept
    <3> QED BY <3>1, <1>6, <1>10, <1>13, <1>14, <1>15 DEF Keys
  <2>2. \A x \in Out(d) : x.ck # 0 => x.lo = x.ck /\ x.hi = x.ck
    <3>1. \A x \in Out(c) : x.ck # 0 => x.lo = x.ck /\ x.hi = x.ck
      BY DEF Core, RowsKept
    <3> QED BY <3>1, <1>10, <1>13, <1>14, <1>15
  <2>3. ASSUME NEW ck \in Keys(B), ck # k
        PROVE  /\ At(Out(d), ck) \subseteq reconcile_cluster(At(B, ck), gc)
               /\ \A f \in reconcile_cluster(At(B, ck), gc) :
                     Unshadowed(f, ck, d.ranges, d.pdel) => f \in At(Out(d), ck)
    <3>1. ck # 0
      BY DEF Keys
    <3>2. At(Out(d), ck) = At(Out(c), ck)
      BY <1>10, <1>13, <1>14, <1>15, <2>3, <3>1 DEF At
    <3>3. ck \in Keys(B) \ ClusterKey(c)
      BY <2>3 DEF ClusterKey, k
    <3>4. /\ At(Out(c), ck) \subseteq reconcile_cluster(At(B, ck), gc)
          /\ \A f \in reconcile_cluster(At(B, ck), gc) :
                Unshadowed(f, ck, c.ranges, c.pdel) => f \in At(Out(c), ck)
      BY <3>3 DEF Core, RowsKept
    <3> QED BY <3>2, <3>4, <1>1
  <2>4. ASSUME k \in Keys(B)
        PROVE  /\ At(Out(d), k) \subseteq reconcile_cluster(At(B, k), gc)
               /\ \A f \in reconcile_cluster(At(B, k), gc) :
                     Unshadowed(f, k, d.ranges, d.pdel) => f \in At(Out(d), k)
    <3>1. k # 0 /\ c.cluster # NoCluster /\ rec = reconcile_cluster(At(B, k), gc)
      BY <2>4, <1>6, <1>7 DEF Keys
    <3>2. k \notin Keys(Out(c))
      <4>1. k \in ClusterKey(c)
        BY <3>1 DEF ClusterKey, k
      <4>2. k \in Nat
        BY <4>1, CheckpointParts
      <4> QED BY <4>1, <4>2 DEF Below
    <3>3. At(Out(c), k) = {}
      BY <3>1, <3>2, AtNone
    <3>4. At(Out(d), k) = At(goes, k) \cup At(waits, k)
      BY <3>1, <3>3, <1>10, <1>13 DEF At
    <3>5. cut \subseteq rec
      BY <1>12
    <3>6. At(Out(d), k) \subseteq rec
      BY <3>4, <3>5, <1>14, <1>15 DEF At
    <3>7. ASSUME NEW f \in rec, Unshadowed(f, k, d.ranges, d.pdel)
          PROVE  f \in At(Out(d), k)
      <4>1. Newer(f, c.pdel)
        BY <3>7, <1>1 DEF Unshadowed, Newer
      <4>2. CASE c.ranges = {}
        <5>1. f \in cut
          BY <4>1, <3>7, <1>12
        <5>2. goes = {Group(k, k, k, cut)}
          BY <5>1, <4>2, <3>1, <3>7, <1>9
        <5>3. PICK x \in goes : TRUE
          BY <5>2
        <5>4. x.ck = k /\ f \in x.facts
          BY <5>1, <5>3, <1>14
        <5>5. f \in At(goes, k)
          BY <5>3, <5>4 DEF At
        <5> QED BY <5>5, <3>4
      <4>3. CASE c.ranges # {}
        <5>1. waits = {Group(k, k, k, rec)}
          BY <4>3, <3>1, <3>7, <1>9
        <5>2. Group(k, k, k, rec) \in waits
          BY <5>1
        <5>3. Group(k, k, k, rec).ck = k /\ Group(k, k, k, rec).facts = rec
          BY DEF Group
        <5>4. f \in At(waits, k)
          BY <5>2, <5>3, <3>7 DEF At
        <5> QED BY <5>4, <3>4
      <4> QED BY <4>2, <4>3
    <3> QED BY <3>1, <3>6, <3>7
  <2>5. ASSUME NEW ck \in Keys(B) \ ClusterKey(d)
        PROVE  /\ At(Out(d), ck) \subseteq reconcile_cluster(At(B, ck), gc)
               /\ \A f \in reconcile_cluster(At(B, ck), gc) :
                     Unshadowed(f, ck, d.ranges, d.pdel) => f \in At(Out(d), ck)
    <3>1. CASE ck = k
      BY <3>1, <2>4
    <3>2. CASE ck # k
      BY <3>2, <2>3
    <3> QED BY <3>1, <3>2
  <2> QED BY <2>1, <2>2, <2>5 DEF RowsKept
<1>18. ShownUnshadowed(d)
  <2> SUFFICES ASSUME NEW x \in Shown(d), x.ck # 0, NEW f \in x.facts
               PROVE  /\ Newer(f, d.pdel)
                      /\ gc.gc_before # 0 => Unshadowed(f, x.ck, d.ranges, d.pdel)
    BY DEF ShownUnshadowed
  <2>1. CASE x \in Shown(c)
    BY <2>1, <1>1 DEF Core, ShownUnshadowed
  <2>2. CASE x \in goes
    <3>1. f \in cut /\ c.ranges = {}
      BY <2>2, <1>14
    <3>2. Newer(f, c.pdel)
      BY <3>1, <1>12
    <3> QED BY <3>1, <3>2, <1>1 DEF Unshadowed, Newer
  <2> QED BY <2>1, <2>2, <1>10, <1>13
<1>19. CarriersOut(d)
  <2>1. {x \in Shown(d) : x.ck = 0} = {x \in Shown(c) : x.ck = 0} \cup pre
    BY <1>10, <1>13, <1>14
  <2>2. PrefixOut(d) = PrefixOut(c) \cup pre
    <3>1. c.resolved \in BOOLEAN
      BY DEF Checkpoint
    <3> QED BY <3>1, <1>1, <1>8 DEF PrefixOut
  <2>3. FlushOut(d) = FlushOut(c)
    BY <1>1 DEF FlushOut, Flushed
  <2>4. {x \in Shown(c) : x.ck = 0} = PrefixOut(c) \cup FlushOut(c)
    BY DEF Core, CarriersOut
  <2>5. \A x \in Range(d.awaiting) : x.ck # 0
    <3>1. \A x \in Range(c.awaiting) : x.ck # 0
      BY DEF Core, CarriersOut
    <3> QED BY <3>1, <1>4, <1>15
  <2> HIDE DEF PrefixOut, FlushOut, Shown
  <2>6. {x \in Shown(d) : x.ck = 0} = PrefixOut(d) \cup FlushOut(d)
    BY <2>1, <2>2, <2>3, <2>4
  <2> QED BY <2>5, <2>6 DEF CarriersOut
<1>20. Timely(d, A)
  BY <1>1 DEF Core, Timely
<1> QED BY <1>16, <1>17, <1>18, <1>19, <1>20 DEF Core, d

LEMMA ReshadowCore ==
  ASSUME NEW c \in Checkpoint, NEW B, NEW A, Core(c, B, A)
  PROVE  Core(reshadow_and_flush_awaiting(c), B, A)
<1> DEFINE d == reshadow_and_flush_awaiting(c)
           rel == Range(Released(c))
           held == Range(c.awaiting)
<1>1. /\ d \in Checkpoint /\ SameKept(d, c)
      /\ d.ranges = c.ranges /\ d.pdel = c.pdel /\ d.emitted = c.emitted
      /\ d.resolved = c.resolved /\ d.cluster = c.cluster
      /\ d.pending = c.pending \o Released(c) /\ d.awaiting = <<>>
  BY ReshadowFields
<1>2. Range(d.pending) = Range(c.pending) \cup rel
  <2> DEFINE s == c.pending
             t == Released(c)
  <2>1. s \in Seq(GroupSet) /\ t \in Seq(GroupSet)
    BY CheckpointParts, ReleasedGroups
  <2> HIDE DEF s, t
  <2>2. Range(s \o t) = Range(s) \cup Range(t)
    BY <2>1, RangeConcat
  <2> QED BY <2>2, <1>1 DEF s, t
<1>3. held \subseteq GroupSet
  <2> DEFINE s == c.awaiting
  <2>1. s \in Seq(GroupSet)
    BY CheckpointParts
  <2> HIDE DEF s
  <2>2. Range(s) \subseteq GroupSet
    BY <2>1, RangeType
  <2> QED BY <2>2 DEF s
<1>4. rel = {x \in {Shadowed(y, c.ranges, c.pdel) : y \in held} : x.facts # {}}
  BY ReleasedGroups
<1>5. ASSUME NEW y \in held
      PROVE  LET x == Shadowed(y, c.ranges, c.pdel)
             IN  /\ x.ck = y.ck /\ x.lo = y.lo /\ x.hi = y.hi
                 /\ x.facts = {f \in y.facts : Unshadowed(f, y.ck, c.ranges, c.pdel)}
  BY <1>3, ShadowedFields
<1>6. /\ Shown(d) = Shown(c) \cup rel
      /\ Out(d) = Shown(c) \cup rel
      /\ Out(c) = Shown(c) \cup held
  BY <1>1, <1>2, RangeEmpty DEF Shown, Out, SameKept
<1>7. ClusterKey(d) = ClusterKey(c)
  BY <1>1 DEF ClusterKey
<1>8. \A y \in held : y.ck # 0
  BY DEF Core, CarriersOut
<1> HIDE DEF d, rel, held
<1>9. ASSUME NEW x \in rel
      PROVE  \E y \in held : /\ x.ck = y.ck /\ x.lo = y.lo /\ x.hi = y.hi
                             /\ x.facts = {f \in y.facts : Unshadowed(f, y.ck, c.ranges, c.pdel)}
  <2>1. PICK y \in held : x = Shadowed(y, c.ranges, c.pdel)
    BY <1>4
  <2> QED BY <2>1, <1>5
<1>10. ASSUME NEW y \in held, NEW f \in y.facts, Unshadowed(f, y.ck, c.ranges, c.pdel)
       PROVE  \E x \in rel : x.ck = y.ck /\ f \in x.facts
  <2> DEFINE x == Shadowed(y, c.ranges, c.pdel)
  <2>1. /\ x.ck = y.ck
        /\ x.facts = {g \in y.facts : Unshadowed(g, y.ck, c.ranges, c.pdel)}
    BY <1>5
  <2>2. x \in {Shadowed(z, c.ranges, c.pdel) : z \in held}
    OBVIOUS
  <2> HIDE DEF x
  <2>3. f \in x.facts
    BY <2>1, <1>10
  <2>4. x \in rel
    BY <2>2, <2>3, <1>4
  <2> QED BY <2>1, <2>3, <2>4
<1>11. Collected(d, B)
  BY <1>1 DEF Core, Collected
<1>12. RowsKept(d, B)
  <2>1. Keys(Out(d)) \subseteq Keys(Out(c))
    BY <1>6, <1>9 DEF Keys
  <2>2. Keys(Out(c)) \subseteq Keys(B)
    BY DEF Core, RowsKept
  <2>3. \A x \in Out(c) : x.ck # 0 => x.lo = x.ck /\ x.hi = x.ck
    BY DEF Core, RowsKept
  <2>4. \A x \in Out(d) : x.ck # 0 => x.lo = x.ck /\ x.hi = x.ck
    BY <2>3, <1>6, <1>9
  <2>5. ASSUME NEW ck \in Keys(B) \ ClusterKey(d)
        PROVE  /\ At(Out(d), ck) \subseteq reconcile_cluster(At(B, ck), gc)
               /\ \A f \in reconcile_cluster(At(B, ck), gc) :
                     Unshadowed(f, ck, d.ranges, d.pdel) => f \in At(Out(d), ck)
    <3>1. /\ At(Out(c), ck) \subseteq reconcile_cluster(At(B, ck), gc)
          /\ \A f \in reconcile_cluster(At(B, ck), gc) :
                Unshadowed(f, ck, c.ranges, c.pdel) => f \in At(Out(c), ck)
      BY <1>7 DEF Core, RowsKept
    <3>2. ASSUME NEW f \in At(Out(d), ck) PROVE f \in At(Out(c), ck)
      <4>1. PICK x \in Out(d) : x.ck = ck /\ f \in x.facts
        BY <3>2 DEF At
      <4>2. CASE x \in Shown(c)
        BY <4>1, <4>2, <1>6 DEF At
      <4>3. CASE x \in rel
        <5>1. PICK y \in held : y.ck = ck /\ f \in y.facts
          BY <4>1, <4>3, <1>9
        <5> QED BY <5>1, <1>6 DEF At
      <4> QED BY <4>1, <4>2, <4>3, <1>6
    <3>3. ASSUME NEW f \in At(Out(c), ck), Unshadowed(f, ck, c.ranges, c.pdel)
          PROVE  f \in At(Out(d), ck)
      <4>1. PICK x \in Out(c) : x.ck = ck /\ f \in x.facts
        BY <3>3 DEF At
      <4>2. CASE x \in Shown(c)
        BY <4>1, <4>2, <1>6 DEF At
      <4>3. CASE x \in held
        <5>1. PICK y \in rel : y.ck = ck /\ f \in y.facts
          BY <4>1, <4>3, <3>3, <1>10
        <5> QED BY <5>1, <1>6 DEF At
      <4> QED BY <4>1, <4>2, <4>3, <1>6
    <3> QED BY <3>1, <3>2, <3>3, <1>1
  <2> QED BY <2>1, <2>2, <2>4, <2>5 DEF RowsKept
<1>13. ShownUnshadowed(d)
  <2> SUFFICES ASSUME NEW x \in Shown(d), x.ck # 0, NEW f \in x.facts
               PROVE  /\ Newer(f, d.pdel)
                      /\ gc.gc_before # 0 => Unshadowed(f, x.ck, d.ranges, d.pdel)
    BY DEF ShownUnshadowed
  <2>1. CASE x \in Shown(c)
    BY <2>1, <1>1 DEF Core, ShownUnshadowed
  <2>2. CASE x \in rel
    <3>1. Unshadowed(f, x.ck, c.ranges, c.pdel)
      BY <2>2, <1>9
    <3> QED BY <3>1, <1>1 DEF Unshadowed, Newer
  <2> QED BY <2>1, <2>2, <1>6
<1>14. CarriersOut(d)
  <2>1. \A x \in rel : x.ck # 0
    BY <1>8, <1>9
  <2>2. {x \in Shown(d) : x.ck = 0} = {x \in Shown(c) : x.ck = 0}
    BY <2>1, <1>6
  <2>3. PrefixOut(d) = PrefixOut(c) /\ FlushOut(d) = FlushOut(c)
    BY <1>1 DEF PrefixOut, FlushOut, Flushed
  <2>4. Range(d.awaiting) = {}
    BY <1>1, RangeEmpty
  <2> QED BY <2>2, <2>3, <2>4 DEF Core, CarriersOut
<1>15. Timely(d, A)
  BY <1>1 DEF Core, Timely
<1> QED BY <1>11, <1>12, <1>13, <1>14, <1>15 DEF Core, d

\* A change of the checkpoint that only adds carriers to what is shown.
LEMMA FlushCore ==
  ASSUME NEW c \in Checkpoint, NEW B, Shape(c), Core(c, B, {}), ~c.emitted, c.awaiting = <<>>
  PROVE  Core(flush_range_tombstones(c), B, {})
<1> DEFINE d == flush_range_tombstones(c)
           flu == Flushed(c)
<1>1. /\ d \in Checkpoint /\ SameKept(d, c)
      /\ d.ranges = c.ranges /\ d.pdel = c.pdel /\ d.emitted = TRUE
      /\ d.resolved = c.resolved /\ d.cluster = c.cluster /\ d.awaiting = c.awaiting
      /\ d.pending = c.pending \o SetToSeq(flu)
      /\ SetToSeq(flu) \in Seq(GroupSet) /\ Range(SetToSeq(flu)) = flu
  BY FlushFields DEF Shape
<1>2. Range(d.pending) = Range(c.pending) \cup flu
  <2> DEFINE s == c.pending
             t == SetToSeq(flu)
  <2>1. s \in Seq(GroupSet) /\ t \in Seq(GroupSet)
    BY <1>1, CheckpointParts
  <2> HIDE DEF s, t
  <2>2. Range(s \o t) = Range(s) \cup Range(t)
    BY <2>1, RangeConcat
  <2> QED BY <2>2, <1>1 DEF s, t
<1>3. \A x \in flu : x.ck = 0
  BY DEF Flushed, Shape
<1>4. Shown(d) = Shown(c) \cup flu /\ Out(d) = Out(c) \cup flu
  BY <1>1, <1>2 DEF Shown, Out, SameKept
<1>5. ClusterKey(d) = ClusterKey(c) /\ PrefixOut(d) = PrefixOut(c) /\ FlushOut(d) = flu
      /\ FlushOut(c) = {}
  BY <1>1 DEF ClusterKey, PrefixOut, FlushOut, Flushed
<1> HIDE DEF d, flu
<1>6. Collected(d, B)
  BY <1>1 DEF Core, Collected
<1>7. RowsKept(d, B)
  <2>1. Keys(Out(d)) = Keys(Out(c))
    BY <1>3, <1>4 DEF Keys
  <2>2. \A ck \in Keys(B) : At(Out(d), ck) = At(Out(c), ck)
    BY <1>3, <1>4 DEF At, Keys
  <2>3. \A x \in Out(d) : x.ck # 0 => x \in Out(c)
    BY <1>3, <1>4
  <2>4. RowsKept(c, B)
    BY DEF Core
  <2> QED BY <2>1, <2>2, <2>3, <2>4, <1>1, <1>5 DEF RowsKept
<1>8. ShownUnshadowed(d)
  <2>1. \A x \in Shown(d) : x.ck # 0 => x \in Shown(c)
    BY <1>3, <1>4
  <2> QED BY <2>1, <1>1 DEF Core, ShownUnshadowed
<1>9. CarriersOut(d)
  <2>1. {x \in Shown(d) : x.ck = 0} = {x \in Shown(c) : x.ck = 0} \cup flu
    BY <1>3, <1>4
  <2>2. {x \in Shown(c) : x.ck = 0} = PrefixOut(c)
    BY <1>5 DEF Core, CarriersOut
  <2>3. \A x \in Range(d.awaiting) : x.ck # 0
    BY <1>1 DEF Core, CarriersOut
  <2> QED BY <2>1, <2>2, <2>3, <1>5 DEF CarriersOut
<1>10. Timely(d, {})
  BY DEF Timely
<1> QED BY <1>6, <1>7, <1>8, <1>9, <1>10 DEF Core, d

LEMMA PoppedCore ==
  ASSUME NEW c \in Checkpoint, c.pending # <<>>, NEW B, NEW A, Core(c, B, A)
  PROVE  Core(Popped(c), B, A)
<1> DEFINE d == Popped(c)
<1>1. /\ d.ranges = c.ranges /\ d.pdel = c.pdel /\ d.resolved = c.resolved
      /\ d.cluster = c.cluster /\ d.emitted = c.emitted /\ d.awaiting = c.awaiting
      /\ Range(d.rows) = Range(c.rows) \cup {Head(c.pending)}
      /\ Range(c.pending) = {Head(c.pending)} \cup Range(d.pending)
  BY PoppedFields
<1> HIDE DEF d
<1>2. Shown(d) = Shown(c) /\ Out(d) = Out(c)
  BY <1>1 DEF Shown, Out
<1>3. /\ ClusterKey(d) = ClusterKey(c) /\ PrefixOut(d) = PrefixOut(c)
      /\ FlushOut(d) = FlushOut(c)
  BY <1>1 DEF ClusterKey, PrefixOut, FlushOut, Flushed
<1>4. Collected(d, B) /\ RowsKept(d, B)
  BY <1>1, <1>2, <1>3 DEF Core, Collected, RowsKept
<1>5. ShownUnshadowed(d) /\ CarriersOut(d) /\ Timely(d, A)
  BY <1>1, <1>2, <1>3 DEF Core, ShownUnshadowed, CarriersOut, Timely
<1> QED BY <1>4, <1>5 DEF Core, d

LEMMA BeganCore ==
  ASSUME NEW p \in Partitions, NEW A
  PROVE  Core(Began(p), {}, A) /\ LastRow(Began(p), {}, A)
<1> DEFINE d == Began(p)
<1>1. /\ d.pending = <<>> /\ d.ranges = {} /\ d.pdel = {} /\ d.resolved = FALSE
      /\ d.cluster = NoCluster /\ d.awaiting = <<>> /\ d.emitted = FALSE /\ d.rows = <<>>
  BY BeganFields
<1> HIDE DEF d
<1>2. Shown(d) = {} /\ Out(d) = {} /\ Range(d.awaiting) = {}
  BY <1>1, RangeEmpty DEF Shown, Out
<1>3. Keys({}) = {}
  BY DEF Keys
<1>4. Collected(d, {})
  BY <1>1 DEF Collected, Deletions, RangesOf, Newest, NoCluster
<1>5. RowsKept(d, {})
  BY <1>2, <1>3 DEF RowsKept
<1>6. ShownUnshadowed(d) /\ CarriersOut(d)
  BY <1>1, <1>2 DEF ShownUnshadowed, CarriersOut, PrefixOut, FlushOut
<1>7. Timely(d, A) /\ LastRow(d, {}, A)
  BY <1>1, <1>3 DEF Timely, LastRow
<1> QED BY <1>4, <1>5, <1>6, <1>7 DEF Core, d

\* A range tombstone that covers nothing that is out, or is written.
LEMMA WithRangeCore ==
  ASSUME NEW c \in Checkpoint, NEW B, NEW A, NEW e \in A, NEW N \in SUBSET A,
         SoundEntry(e), KindOf(e) = "rangedel", Core(c, B, A),
         gc.gc_before # 0 => \A x \in Shown(c) : x.ck # 0 => ~Covers(e, x.ck)
  PROVE  Core(WithRange(c, e), B \cup {e}, N)
<1> DEFINE d == WithRange(c, e)
           C == B \cup {e}
           G == Group(0, e.lo, e.hi, e.facts)
<1>1. /\ SameKept(d, c) /\ d.pending = c.pending
      /\ d.pdel = c.pdel /\ d.resolved = c.resolved /\ d.cluster = c.cluster
      /\ d.awaiting = c.awaiting /\ d.emitted = c.emitted /\ d.ranges = c.ranges \cup {G}
  BY WithRangeFields
<1>2. e.ck = 0
  BY EntryKinds DEF Carriers
<1>3. /\ Deletions(C) = Deletions(B) /\ RangesOf(C) = RangesOf(B) \cup {G}
      /\ Keys(C) = Keys(B) /\ \A ck : ck # 0 => At(C, ck) = At(B, ck)
  <2>1. KindOf(e) # "partdel"
    OBVIOUS
  <2> HIDE DEF C, G
  <2>2. /\ Deletions(C) = Deletions(B) /\ RangesOf(C) = RangesOf(B) \cup {G}
    BY <2>1, AddEntry DEF C, G
  <2>3. Keys(C) = Keys(B) /\ \A ck : ck # e.ck => At(C, ck) = At(B, ck)
    BY <1>2, AddEntry DEF C
  <2> QED BY <2>2, <2>3, <1>2
<1>4. \A ck : Covers(G, ck) <=> Covers(e, ck)
  BY DEF Covers, Group
<1> HIDE DEF d, C, G
<1>5. Shown(d) = Shown(c) /\ Out(d) = Out(c) /\ ClusterKey(d) = ClusterKey(c)
  BY <1>1 DEF Shown, Out, SameKept, ClusterKey
<1>6. c.emitted = FALSE /\ d.emitted = FALSE
  BY <1>1 DEF Core, Timely, Checkpoint
<1>7. Collected(d, C)
  BY <1>1, <1>3 DEF Core, Collected
<1>8. RowsKept(d, C)
  <2>1. \A f, ck : Unshadowed(f, ck, d.ranges, d.pdel) => Unshadowed(f, ck, c.ranges, c.pdel)
    BY <1>1 DEF Unshadowed
  <2>2. RowsKept(c, B)
    BY DEF Core
  <2>3. \A ck \in Keys(B) : At(C, ck) = At(B, ck)
    BY <1>3 DEF Keys
  <2> QED BY <2>1, <2>2, <2>3, <1>3, <1>5 DEF RowsKept
<1>9. ShownUnshadowed(d)
  <2> SUFFICES ASSUME NEW x \in Shown(c), x.ck # 0, NEW f \in x.facts
               PROVE  /\ Newer(f, d.pdel)
                      /\ gc.gc_before # 0 => Unshadowed(f, x.ck, d.ranges, d.pdel)
    BY <1>5 DEF ShownUnshadowed
  <2>1. /\ Newer(f, c.pdel)
        /\ gc.gc_before # 0 => Unshadowed(f, x.ck, c.ranges, c.pdel)
    BY DEF Core, ShownUnshadowed
  <2>2. gc.gc_before # 0 => ~Covers(G, x.ck)
    BY <1>4
  <2> QED BY <2>1, <2>2, <1>1 DEF Unshadowed
<1>10. CarriersOut(d)
  <2>1. PrefixOut(d) = PrefixOut(c) /\ FlushOut(d) = {} /\ FlushOut(c) = {}
    BY <1>1, <1>6 DEF PrefixOut, FlushOut
  <2> QED BY <2>1, <1>1, <1>5 DEF Core, CarriersOut
<1>11. Timely(d, N)
  BY <1>1, <1>6 DEF Core, Timely
<1> QED BY <1>7, <1>8, <1>9, <1>10, <1>11 DEF Core, d, C

\* A partition deletion comes before anything is out.
LEMMA WithDeletionCore ==
  ASSUME NEW c \in Checkpoint, NEW B, NEW A, NEW e \in A, NEW N \in SUBSET A,
         Known(B), SoundEntry(e), KindOf(e) = "partdel", Shape(c), Core(c, B, A)
  PROVE  Core(WithDeletion(c, e), B \cup {e}, N)
<1> DEFINE d == WithDeletion(c, e)
           C == B \cup {e}
<1>1. /\ SameKept(d, c) /\ d.pending = c.pending
      /\ d.ranges = c.ranges /\ d.resolved = c.resolved /\ d.cluster = c.cluster
      /\ d.awaiting = c.awaiting /\ d.emitted = c.emitted
      /\ d.pdel = Newest(c.pdel \cup e.facts)
  BY WithDeletionFields
<1>2. e.ck = 0
  BY EntryKinds DEF Carriers
<1>3. /\ Deletions(C) = Deletions(B) \cup e.facts /\ RangesOf(C) = RangesOf(B)
      /\ Keys(C) = Keys(B) /\ \A ck : ck # 0 => At(C, ck) = At(B, ck)
  <2>1. KindOf(e) # "rangedel"
    OBVIOUS
  <2> HIDE DEF C
  <2>2. /\ Deletions(C) = Deletions(B) \cup e.facts /\ RangesOf(C) = RangesOf(B)
    BY <2>1, AddEntry DEF C
  <2>3. Keys(C) = Keys(B) /\ \A ck : ck # e.ck => At(C, ck) = At(B, ck)
    BY <1>2, AddEntry DEF C
  <2> QED BY <2>2, <2>3, <1>2
<1> HIDE DEF d, C
<1>4. Shown(d) = Shown(c) /\ Out(d) = Out(c) /\ ClusterKey(d) = ClusterKey(c)
  BY <1>1 DEF Shown, Out, SameKept, ClusterKey
<1>5. /\ c.cluster = NoCluster /\ c.resolved = FALSE /\ c.emitted = FALSE
  BY DEF Core, Timely, Checkpoint
<1>6. Shown(c) = {} /\ Out(c) = {} /\ Range(c.awaiting) = {}
  BY <1>5, RangeEmpty DEF Shape, Shown, Out
<1>7. Deletions(B) \in SUBSET Sound /\ e.facts \in SUBSET Sound
  BY DeletionsType, EntryFields
<1>8. c.pdel = Newest(Deletions(B)) /\ d.pdel = Newest(Deletions(B) \cup e.facts)
  <2>1. c.pdel = Newest(Deletions(B))
    BY DEF Core, Collected
  <2> QED BY <2>1, <1>1, <1>7, NewestStep
<1>9. Collected(d, C)
  BY <1>1, <1>3, <1>5, <1>8 DEF Core, Collected, NoCluster
<1>10. RowsKept(d, C)
  <2>1. ASSUME NEW f, f.ts \in Nat, NEW ck, Unshadowed(f, ck, d.ranges, d.pdel)
        PROVE  Unshadowed(f, ck, c.ranges, c.pdel)
    <3> DEFINE D == Deletions(B)
               E == Deletions(B) \cup e.facts
    <3>1. D \in SUBSET Sound /\ E \in SUBSET Sound /\ D \subseteq E
      BY <1>7
    <3>2. Newer(f, Newest(E))
      BY <2>1, <1>8 DEF Unshadowed, Newer
    <3> HIDE DEF D, E
    <3>3. Newer(f, E)
      BY <2>1, <3>1, <3>2, NewerNewest
    <3>4. Newer(f, D)
      BY <3>1, <3>3 DEF Newer
    <3>5. Newer(f, Newest(D))
      BY <2>1, <3>1, <3>4, NewerNewest
    <3>6. Newer(f, c.pdel)
      BY <3>5, <1>8 DEF D
    <3> QED BY <3>6, <2>1, <1>1 DEF Unshadowed, Newer
  <2>2. RowsKept(c, B)
    BY DEF Core
  <2>3. \A ck \in Keys(B) : At(C, ck) = At(B, ck)
    BY <1>3 DEF Keys
  <2>4. \A ck \in Keys(B) : \A f \in reconcile_cluster(At(B, ck), gc) : f.ts \in Nat
    <3> SUFFICES ASSUME NEW ck \in Keys(B), NEW f \in reconcile_cluster(At(B, ck), gc)
                 PROVE  f.ts \in Nat
      OBVIOUS
    <3>1. At(B, ck) \in SUBSET Sound
      BY AtType
    <3>2. f \in Sound
      BY <3>1, ReconciledType
    <3> QED BY <3>2 DEF Sound, Fact
  <2> QED BY <2>1, <2>2, <2>3, <2>4, <1>3, <1>4 DEF RowsKept
<1>11. ShownUnshadowed(d)
  BY <1>4, <1>6 DEF ShownUnshadowed
<1>12. CarriersOut(d)
  BY <1>1, <1>4, <1>5, <1>6 DEF CarriersOut, PrefixOut, FlushOut
<1>13. Timely(d, N)
  BY <1>1, <1>5 DEF Timely
<1> QED BY <1>9, <1>10, <1>11, <1>12, <1>13 DEF Core, d, C

LEMMA WithRowCore ==
  ASSUME NEW c \in Checkpoint, NEW B, NEW A, NEW e \in A, NEW N \in SUBSET A,
         SoundEntry(e), e.ck # 0, Core(c, B, A), \A a \in A : KindOf(a) # "partdel",
         \/ c.cluster = NoCluster /\ e.ck \notin Keys(B)
         \/ c.cluster.ck = e.ck
  PROVE  Core(WithRow(c, e), B \cup {e}, N)
<1> DEFINE d == WithRow(c, e)
           C == B \cup {e}
<1>1. /\ SameKept(d, c) /\ d.pending = c.pending
      /\ d.pdel = c.pdel /\ d.resolved = c.resolved /\ d.ranges = c.ranges
      /\ d.awaiting = c.awaiting /\ d.emitted = c.emitted
      /\ d.cluster.ck = e.ck /\ d.cluster.facts = c.cluster.facts \cup e.facts
  BY WithRowFields
<1>2. KindOf(e) # "partdel" /\ KindOf(e) # "rangedel"
  BY EntryKinds DEF Carriers
<1>3. /\ Deletions(C) = Deletions(B) /\ RangesOf(C) = RangesOf(B)
      /\ Keys(C) = Keys(B) \cup {e.ck} /\ \A ck : ck # e.ck => At(C, ck) = At(B, ck)
      /\ At(C, e.ck) = At(B, e.ck) \cup e.facts
  BY <1>2, AddEntry
<1> HIDE DEF d, C
<1>4. Shown(d) = Shown(c) /\ Out(d) = Out(c) /\ ClusterKey(d) = {e.ck}
  BY <1>1 DEF Shown, Out, SameKept, ClusterKey
<1>5. c.emitted = FALSE
  BY DEF Core, Timely, Checkpoint
<1>6. c.cluster.facts = At(B, e.ck)
  <2>1. CASE c.cluster = NoCluster /\ e.ck \notin Keys(B)
    BY <2>1, AtNone DEF NoCluster
  <2>2. CASE c.cluster.ck = e.ck
    BY <2>2 DEF Core, Collected
  <2> QED BY <2>1, <2>2
<1>7. Collected(d, C)
  BY <1>1, <1>3, <1>6 DEF Core, Collected
<1>8. RowsKept(d, C)
  <2>1. RowsKept(c, B)
    BY DEF Core
  <2>2. ClusterKey(c) \subseteq {e.ck}
    BY DEF ClusterKey, NoCluster
  <2>3. \A ck \in Keys(C) \ ClusterKey(d) :
           ck \in Keys(B) \ ClusterKey(c) /\ At(C, ck) = At(B, ck)
    BY <2>2, <1>3, <1>4
  <2> QED BY <2>1, <2>3, <1>1, <1>3, <1>4 DEF RowsKept
<1>9. ShownUnshadowed(d)
  BY <1>1, <1>4 DEF Core, ShownUnshadowed
<1>10. CarriersOut(d)
  <2>1. PrefixOut(d) = PrefixOut(c) /\ FlushOut(d) = FlushOut(c)
    BY <1>1, <1>5 DEF PrefixOut, FlushOut
  <2> QED BY <2>1, <1>1, <1>4 DEF Core, CarriersOut
<1>11. Timely(d, N)
  BY <1>1, <1>5 DEF Timely
<1> QED BY <1>7, <1>8, <1>9, <1>10, <1>11 DEF Core, d, C

\* An entry that is absorbed.
LEMMA AbsorbCore ==
  ASSUME NEW c \in Checkpoint, NEW B, NEW A, NEW e \in A, NEW N \in SUBSET A,
         NEW W \in SUBSET Nat, NEW L \in SUBSET Nat,
         Known(B), SoundEntry(e), Shape(c), Core(c, B, A), LastRow(c, B, A),
         c.part # 0, Ordered(c, W, L), e.ck # 0 => e.ck \in L,
         e.ck # 0 => \A a \in A : KindOf(a) # "partdel",
         KindOf(e) = "rangedel" /\ gc.gc_before # 0 =>
            \A x \in Shown(c) : x.ck # 0 => ~Covers(e, x.ck)
  PROVE  LET d == Absorb(c, e)
         IN  /\ Core(d, B \cup {e}, N) /\ LastRow(d, B \cup {e}, N)
             /\ d.cluster.ck = IF e.ck # 0 THEN e.ck ELSE c.cluster.ck
             /\ e.ck = 0 => d.cluster = c.cluster
<1> DEFINE C == B \cup {e}
<1>1. \A k \in Keys(B) : k \in Nat
  <2>1. \A x \in B : x.ck \in Nat
    BY EntryFields DEF Known
  <2> QED BY <2>1 DEF Keys
<1>2. CASE e.ck = 0
  <2>1. /\ Keys(C) = Keys(B) /\ KindOf(e) \in Carriers
    BY <1>2, AddEntry, EntryKinds
  <2>2. ASSUME NEW d, d.cluster = c.cluster PROVE LastRow(d, C, N)
    <3>1. A # {}
      OBVIOUS
    <3> QED BY <2>1, <2>2, <3>1 DEF LastRow
  <2>3. CASE KindOf(e) = "partdel"
    <3>1. Absorb(c, e) = WithDeletion(c, e)
      BY <2>3, AbsorbCases
    <3>2. WithDeletion(c, e).cluster = c.cluster
      BY WithDeletionFields
    <3>3. Core(WithDeletion(c, e), C, N)
      BY <2>3, WithDeletionCore
    <3> QED BY <3>1, <3>2, <3>3, <2>2, <1>2
  <2>4. CASE KindOf(e) = "rangedel"
    <3> DEFINE w == WithRange(c, e)
               v == reshadow_and_flush_awaiting(w)
    <3>1. Absorb(c, e) = IF c.resolved THEN v ELSE w
      BY <2>4, AbsorbCases
    <3>2. w \in Checkpoint /\ w.cluster = c.cluster
      BY WithRangeFields
    <3>3. Core(w, C, N)
      BY <2>4, WithRangeCore
    <3> HIDE DEF w
    <3>4. v.cluster = c.cluster
      BY <3>2, ReshadowFields
    <3>5. Core(v, C, N)
      BY <3>2, <3>3, ReshadowCore
    <3> HIDE DEF v
    <3>6. CASE c.resolved
      BY <3>1, <3>4, <3>5, <3>6, <2>2, <1>2
    <3>7. CASE ~c.resolved
      BY <3>1, <3>2, <3>3, <3>7, <2>2, <1>2
    <3> QED BY <3>6, <3>7
  <2> QED BY <2>1, <2>3, <2>4 DEF Carriers
<1>3. CASE e.ck # 0
  <2> DEFINE r == Ready(c, e)
             d == WithRow(r, e)
  <2>1. Absorb(c, e) = d
    BY <1>3, AbsorbCases
  <2>2. e.ck \in L /\ e.ck \in Nat /\ \A a \in A : KindOf(a) # "partdel"
    BY <1>3
  <2>3. c.cluster # NoCluster => c.cluster.ck # 0 /\ c.cluster.ck <= e.ck
                                   /\ c.cluster.ck \in Nat
    <3>1. c.cluster # NoCluster => c.cluster.ck # 0
      BY DEF Shape
    <3>2. c.cluster.ck # 0 => c.cluster.ck \in ClusterKey(c)
      BY DEF ClusterKey
    <3>3. ClusterKey(c) \subseteq Nat
      BY CheckpointParts
    <3> QED BY <3>1, <3>2, <3>3, <2>2 DEF Ordered
  <2>4. c.cluster = NoCluster => Keys(B) = {}
    BY DEF LastRow
  <2>5. c.cluster # NoCluster => \A k \in Keys(B) : k <= c.cluster.ck
    BY DEF LastRow
  <2>6. /\ r \in Checkpoint /\ Core(r, B, A)
        /\ \/ r.cluster = NoCluster /\ e.ck \notin Keys(B)
           \/ r.cluster.ck = e.ck
    <3>1. CASE NewCluster(c, e)
      <4>1. r = finalize_current_cluster(c) /\ c.cluster # NoCluster /\ c.cluster.ck # e.ck
        BY <3>1 DEF Ready, NewCluster
      <4>2. Below(Keys(Out(c)), ClusterKey(c))
        BY DEF Ordered, Below
      <4>3. r \in Checkpoint /\ r.cluster = NoCluster
        BY <4>1, FinalizeFields
      <4>4. Core(r, B, A)
        BY <4>1, <4>2, <2>2, FinalizeCore
      <4>5. e.ck \notin Keys(B)
        <5> SUFFICES ASSUME e.ck \in Keys(B) PROVE FALSE
          OBVIOUS
        <5>1. e.ck <= c.cluster.ck
          BY <2>5, <4>1
        <5> QED BY <5>1, <4>1, <2>2, <2>3
      <4> QED BY <4>3, <4>4, <4>5
    <3>2. CASE ~NewCluster(c, e)
      <4>1. r = c
        BY <3>2 DEF Ready
      <4>2. c.cluster = NoCluster \/ c.cluster.ck = e.ck
        BY <3>2 DEF NewCluster
      <4> QED BY <4>1, <4>2, <2>4
    <3> QED BY <3>1, <3>2
  <2> HIDE DEF r
  <2>7. Core(d, C, N)
    BY <2>2, <2>6, <1>3, WithRowCore
  <2>8. d.cluster.ck = e.ck
    BY <2>6, WithRowFields
  <2>9. LastRow(d, C, N)
    <3>1. Keys(C) = Keys(B) \cup {e.ck}
      BY <1>3, AddEntry
    <3>2. \A k \in Keys(B) : k <= e.ck
      BY <2>2, <2>3, <2>4, <2>5, <1>1
    <3>3. d.cluster # NoCluster
      BY <2>8, <1>3 DEF NoCluster
    <3> HIDE DEF d, C
    <3> QED BY <3>1, <3>2, <3>3, <2>2, <2>8 DEF LastRow
  <2> QED BY <2>1, <2>7, <2>8, <2>9, <1>3
<1> QED BY <1>2, <1>3

(***************************************************************************)
(* A partition that is written.                                            *)
(***************************************************************************)
PartOf(p) == {e \in Entries(input) : e.part = p}
SameAt(p, w) ==
    \A ck \in Clusters :
        Visible(FactsAt(Range(w[p]), ck), gc.now) = Visible(InputAt(p, ck), gc.now)

LEMMA BehindAll ==
  ASSUME InputOK, PosOK, NEW p, Ahead(pos, p) = {}
  PROVE  Behind(pos, p) = PartOf(p)
<1>1. Behind(pos, p) \subseteq PartOf(p)
  BY DEF Behind, PartOf
<1>2. ASSUME NEW e \in PartOf(p) PROVE e \in Behind(pos, p)
  <2>1. e \in Entries(input) /\ e.part = p
    BY DEF PartOf
  <2>2. PICK r \in DOMAIN input : e \in Range(input[r])
    BY <2>1 DEF Entries
  <2>3. PICK i \in DOMAIN input[r] : e = input[r][i]
    BY <2>2 DEF Range
  <2>4. i \in Nat /\ pos[r] \in Nat
    BY InputFacts DEF PosOK
  <2>5. ~(pos[r] <= i)
    <3> SUFFICES ASSUME pos[r] <= i PROVE FALSE
      OBVIOUS
    <3>1. e \in Ahead(pos, p)
      BY <2>1, <2>3 DEF Ahead
    <3> QED BY <3>1
  <2>6. i < pos[r]
    BY <2>4, <2>5
  <2> QED BY <2>1, <2>3, <2>6 DEF Behind
<1> QED BY <1>1, <1>2

LEMMA KnownParts ==
  ASSUME InputOK, NEW ps, NEW p
  PROVE  Known(Behind(ps, p)) /\ Known(Ahead(ps, p)) /\ Known(PartOf(p))
BY InputFacts DEF Known, Behind, Ahead, PartOf

\* The facts of the inputs at a row: the row's own, those of the range
\* tombstones over it, and the partition deletions.
LEMMA InputFactsAt ==
  ASSUME NEW B, Known(B), NEW ck \in Clusters
  PROVE  FactsAt(B, ck) =
            At(B, ck) \cup (UNION {t.facts : t \in {y \in RangesOf(B) : Covers(y, ck)}})
               \cup Deletions(B)
<1> DEFINE F == At(B, ck)
           R == UNION {t.facts : t \in {y \in RangesOf(B) : Covers(y, ck)}}
           P == Deletions(B)
<1>0. ck \in Nat /\ ck # 0
  BY StreamingMergeAssumption
<1>1. ASSUME NEW f \in FactsAt(B, ck) PROVE f \in F \cup R \cup P
  <2>1. PICK e \in B : Covers(e, ck) /\ f \in e.facts
    BY <1>1 DEF FactsAt
  <2>2. SoundEntry(e)
    BY DEF Known
  <2>3. CASE e.ck # 0
    <3>1. e.lo = e.ck /\ e.hi = e.ck /\ e.ck \in Nat
      BY <2>2, <2>3, EntryKinds, EntryFields
    <3>2. e.ck = ck
      BY <2>1, <3>1, <1>0 DEF Covers
    <3> QED BY <2>1, <3>2 DEF At
  <2>4. CASE e.ck = 0
    <3>1. KindOf(e) \in Carriers
      BY <2>2, <2>4, EntryKinds
    <3>2. CASE KindOf(e) = "partdel"
      BY <2>1, <3>2 DEF Deletions
    <3>3. CASE KindOf(e) = "rangedel"
      <4> DEFINE G == Group(0, e.lo, e.hi, e.facts)
      <4>1. G \in RangesOf(B) /\ G.facts = e.facts /\ Covers(G, ck)
        BY <2>1, <3>3 DEF RangesOf, Group, Covers
      <4> HIDE DEF G
      <4> QED BY <4>1, <2>1
    <3> QED BY <3>1, <3>2, <3>3 DEF Carriers
  <2> QED BY <2>3, <2>4
<1>2. ASSUME NEW f \in F PROVE f \in FactsAt(B, ck)
  <2>1. PICK e \in B : e.ck = ck /\ f \in e.facts
    BY <1>2 DEF At
  <2>2. e.lo = ck /\ e.hi = ck
    BY <2>1, <1>0, EntryKinds DEF Known
  <2>3. Covers(e, ck)
    BY <2>2, <1>0 DEF Covers
  <2> QED BY <2>1, <2>3 DEF FactsAt
<1>3. ASSUME NEW f \in R PROVE f \in FactsAt(B, ck)
  <2>1. PICK y \in RangesOf(B) : Covers(y, ck) /\ f \in y.facts
    BY <1>3
  <2>2. PICK e \in B : y = Group(0, e.lo, e.hi, e.facts)
    BY <2>1 DEF RangesOf
  <2>3. Covers(e, ck) /\ f \in e.facts
    BY <2>1, <2>2 DEF Group, Covers
  <2> QED BY <2>3 DEF FactsAt
<1>4. ASSUME NEW f \in P PROVE f \in FactsAt(B, ck)
  <2>1. PICK e \in B : KindOf(e) = "partdel" /\ f \in e.facts
    BY <1>4 DEF Deletions
  <2>2. SoundEntry(e)
    BY DEF Known
  <2>3. e.ck = 0
    BY <2>1, <2>2, EntryKinds DEF Carriers
  <2>4. Covers(e, ck)
    BY <2>1, <2>2, <2>3 DEF SoundEntry, WellFormed, Covers
  <2> QED BY <2>1, <2>4 DEF FactsAt
<1>5. F \cup R \cup P \subseteq FactsAt(B, ck)
  <2> HIDE DEF F, R, P
  <2> QED BY <1>2, <1>3, <1>4
<1>6. FactsAt(B, ck) \subseteq F \cup R \cup P
  <2> HIDE DEF F, R, P
  <2> QED BY <1>1
<1>7. FactsAt(B, ck) = F \cup R \cup P
  <2> HIDE DEF F, R, P
  <2> QED BY <1>5, <1>6
<1> HIDE DEF FactsAt
<1> QED BY <1>7

\* The kinds of what the deletions of a partition say.
LEMMA CarrierFacts ==
  ASSUME NEW B, Known(B), NEW ck \in Clusters
  PROVE  /\ \A f \in Deletions(B) : f \in Sound /\ f.kind = "partdel"
         /\ \A y \in RangesOf(B) : \E f \in Sound : y.facts = {f} /\ f.kind = "rangedel"
         /\ \A f \in At(B, ck) : f \in Sound /\ f.kind \notin Carriers
<1>0. ck # 0
  BY StreamingMergeAssumption
<1>1. ASSUME NEW f \in Deletions(B) PROVE f \in Sound /\ f.kind = "partdel"
  <2>1. PICK e \in B : KindOf(e) = "partdel" /\ f \in e.facts
    BY <1>1 DEF Deletions
  <2>2. SoundEntry(e)
    BY DEF Known
  <2>3. e.ck = 0
    BY <2>1, <2>2, EntryKinds DEF Carriers
  <2> QED BY <2>1, <2>2, <2>3, EntryKinds, EntryFields
<1>2. ASSUME NEW y \in RangesOf(B) PROVE \E f \in Sound : y.facts = {f} /\ f.kind = "rangedel"
  <2>1. PICK e \in B : KindOf(e) = "rangedel" /\ y = Group(0, e.lo, e.hi, e.facts)
    BY <1>2 DEF RangesOf
  <2>2. SoundEntry(e) /\ y.facts = e.facts
    BY <2>1 DEF Known, Group
  <2>3. e.ck = 0
    BY <2>1, <2>2, EntryKinds DEF Carriers
  <2>4. PICK f \in e.facts : e.facts = {f} /\ f.kind = KindOf(e)
    BY <2>2, <2>3, EntryKinds
  <2> QED BY <2>1, <2>2, <2>4, EntryFields
<1>3. ASSUME NEW f \in At(B, ck) PROVE f \in Sound /\ f.kind \notin Carriers
  <2>1. PICK e \in B : e.ck = ck /\ f \in e.facts
    BY <1>3 DEF At
  <2> QED BY <2>1, <1>0, EntryKinds, EntryFields DEF Known
<1> QED BY <1>1, <1>2, <1>3

\* The facts of what is written at a row.
LEMMA WrittenFactsAt ==
  ASSUME NEW d \in Checkpoint, NEW B, Known(B), NEW ck \in Clusters, Core(d, B, {}),
         d.pending = <<>>, d.awaiting = <<>>, d.resolved, d.ranges # {} => d.emitted
  PROVE  FactsAt(Range(d.rows), ck) =
            (At(Out(d), ck)
               \cup purge_gc_grace(
                       apply_shadowing(
                          UNION {t.facts : t \in {y \in d.ranges : Covers(y, ck)}},
                          Deletions(B)), gc))
               \cup purge_gc_grace(Newest(Deletions(B)), gc)
<1> DEFINE X == At(Out(d), ck)
           R == UNION {t.facts : t \in {y \in d.ranges : Covers(y, ck)}}
           P == Deletions(B)
           RR == purge_gc_grace(apply_shadowing(R, P), gc)
           PP == purge_gc_grace(Newest(P), gc)
           G == Range(d.rows)
<1>0. ck \in Nat /\ ck # 0 /\ 1 <= ck
  BY StreamingMergeAssumption
<1>1. Out(d) = G /\ Shown(d) = G
  BY RangeEmpty DEF Out, Shown
<1>2. d.pdel = Newest(P) /\ d.ranges = RangesOf(B)
  BY DEF Core, Collected
<1>3. {x \in G : x.ck = 0} = PrefixOut(d) \cup Flushed(d)
  <2>1. FlushOut(d) = Flushed(d)
    BY DEF FlushOut, Flushed
  <2> QED BY <2>1, <1>1 DEF Core, CarriersOut
<1>4. \A x \in G : x.ck # 0 => x.lo = x.ck /\ x.hi = x.ck
  BY <1>1 DEF Core, RowsKept
<1>5. \A x \in G : x.ck \in Nat
  <2>1. Out(d) \subseteq GroupSet
    BY CheckpointParts
  <2> QED BY <2>1, <1>1, StreamingMergeAssumption DEF GroupSet
<1>6. PrefixOut(d) = IF PP = {} THEN {} ELSE {Group(0, 1, LastCluster, PP)}
  BY <1>2 DEF PrefixOut
<1>7. ck <= LastCluster
  BY LastClusterType
<1>8. \A y \in d.ranges : \E f \in Sound : y.facts = {f} /\ f.kind = "rangedel"
  BY <1>2, CarrierFacts
<1>9. P \in SUBSET Sound
  BY DeletionsType
<1> HIDE DEF P, PP
<1>10. ASSUME NEW y \in d.ranges, NEW f \in Sound, y.facts = {f}
       PROVE  y \in Flushed(d) <=> f \in purge_gc_grace(apply_shadowing({f}, P), gc)
  <2>1. f.ts \in Nat
    BY DEF Sound, Fact
  <2>2. Newer(f, Newest(P)) <=> Newer(f, P)
    BY <2>1, <1>9, NewerNewest
  <2>3. apply_shadowing({f}, Newest(P)) = apply_shadowing({f}, P)
    BY <2>2 DEF apply_shadowing, Newer
  <2>4. purge_gc_grace(apply_shadowing({f}, P), gc) \subseteq {f}
    BY DEF purge_gc_grace, apply_shadowing
  <2> QED BY <2>3, <2>4, <1>2, <1>10 DEF Flushed
<1>11. ASSUME NEW f \in FactsAt(G, ck) PROVE f \in (X \cup RR) \cup PP
  <2>1. PICK x \in G : Covers(x, ck) /\ f \in x.facts
    BY <1>11 DEF FactsAt
  <2>2. CASE x.ck # 0
    <3>1. x.ck = ck
      BY <2>1, <2>2, <1>0, <1>4, <1>5 DEF Covers
    <3> QED BY <2>1, <3>1, <1>1 DEF At
  <2>3. CASE x \in PrefixOut(d)
    BY <2>1, <2>3, <1>6 DEF Group
  <2>4. CASE x \in Flushed(d)
    <3>1. x \in d.ranges
      BY <2>4 DEF Flushed
    <3>2. PICK g \in Sound : x.facts = {g}
      BY <3>1, <1>8
    <3>3. f = g /\ f \in R
      BY <2>1, <3>1, <3>2
    <3>4. f \in purge_gc_grace(apply_shadowing({f}, P), gc)
      BY <3>1, <3>2, <3>3, <2>4, <1>10
    <3>5. f \in RR
      BY <3>3, <3>4 DEF purge_gc_grace, apply_shadowing
    <3> QED BY <3>5
  <2> QED BY <2>1, <2>2, <2>3, <2>4, <1>3
<1>12. ASSUME NEW f \in X PROVE f \in FactsAt(G, ck)
  <2>1. PICK x \in G : x.ck = ck /\ f \in x.facts
    BY <1>1 DEF At
  <2>2. Covers(x, ck)
    BY <2>1, <1>0, <1>4 DEF Covers
  <2> QED BY <2>1, <2>2 DEF FactsAt
<1>13. ASSUME NEW f \in RR PROVE f \in FactsAt(G, ck)
  <2>1. f \in R /\ f \in purge_gc_grace(apply_shadowing({f}, P), gc)
    BY DEF purge_gc_grace, apply_shadowing
  <2>2. PICK y \in d.ranges : Covers(y, ck) /\ f \in y.facts
    BY <2>1
  <2>3. y.facts = {f} /\ f \in Sound
    BY <2>2, <1>8
  <2>4. y \in Flushed(d)
    BY <2>1, <2>2, <2>3, <1>10
  <2>5. y \in G
    BY <2>4, <1>3
  <2> QED BY <2>2, <2>5 DEF FactsAt
<1>14. ASSUME NEW f \in PP PROVE f \in FactsAt(G, ck)
  <2> DEFINE x == Group(0, 1, LastCluster, PP)
  <2>1. x \in PrefixOut(d)
    BY <1>6
  <2>2. x \in G
    BY <2>1, <1>3
  <2>3. f \in x.facts /\ Covers(x, ck)
    BY <1>0, <1>7 DEF Group, Covers
  <2> HIDE DEF x
  <2> QED BY <2>2, <2>3 DEF FactsAt
<1> QED BY <1>11, <1>12, <1>13, <1>14 DEF P, PP

LEMMA EndView ==
  ASSUME InputOK, NEW p \in Partitions, NEW d \in Checkpoint, Core(d, PartOf(p), {}),
         d.pending = <<>>, d.awaiting = <<>>, d.cluster = NoCluster, d.resolved,
         d.ranges # {} => d.emitted, NEW w, Range(w[p]) = Range(d.rows)
  PROVE  SameAt(p, w)
<1> SUFFICES ASSUME NEW ck \in Clusters
             PROVE  Visible(FactsAt(Range(d.rows), ck), gc.now) = Visible(InputAt(p, ck), gc.now)
  BY DEF SameAt
<1> DEFINE B == PartOf(p)
           F == At(B, ck)
           R == UNION {t.facts : t \in {y \in d.ranges : Covers(y, ck)}}
           P == Deletions(B)
           X == At(Out(d), ck)
<1>0. ck # 0 /\ gc \in GcSettings
  BY StreamingMergeAssumption, InputFacts
<1>1. Known(B)
  BY KnownParts
<1>2. d.ranges = RangesOf(B) /\ d.pdel = Newest(P)
  BY DEF Core, Collected
<1>3. InputAt(p, ck) = F \cup R \cup P
  <2>1. InputAt(p, ck) = FactsAt(B, ck)
    BY DEF InputAt, PartOf
  <2> HIDE DEF B
  <2>2. FactsAt(B, ck) =
           At(B, ck) \cup (UNION {t.facts : t \in {y \in RangesOf(B) : Covers(y, ck)}})
              \cup Deletions(B)
    BY <1>1, InputFactsAt
  <2> QED BY <2>1, <2>2, <1>2
<1>4. FactsAt(Range(d.rows), ck) =
         (X \cup purge_gc_grace(apply_shadowing(R, P), gc)) \cup purge_gc_grace(Newest(P), gc)
  <2> HIDE DEF B
  <2> QED BY <1>1, WrittenFactsAt DEF B
<1>5. /\ F \in SUBSET Sound /\ \A f \in F : f.kind \notin Carriers
      /\ P \in SUBSET Sound /\ \A f \in P : f.kind = "partdel"
      /\ R \in SUBSET Sound /\ \A f \in R : f.kind = "rangedel"
  <2> HIDE DEF B
  <2>1. /\ \A f \in P : f \in Sound /\ f.kind = "partdel"
        /\ \A y \in d.ranges : \E f \in Sound : y.facts = {f} /\ f.kind = "rangedel"
        /\ \A f \in F : f \in Sound /\ f.kind \notin Carriers
    BY <1>1, <1>2, CarrierFacts
  <2>2. ASSUME NEW f \in R PROVE f \in Sound /\ f.kind = "rangedel"
    BY <2>1
  <2> HIDE DEF F, R, P
  <2> QED BY <2>1, <2>2
<1>6. OneValuePerTimestamp(F)
  <2>1. PICK m \in Merges : input = m.input
    BY DEF InputOK
  <2>2. OneValuePerTimestamp(UNION {e.facts : e \in
            {x \in Entries(input) : x.part = p /\ x.ck = ck}})
    BY <2>1, MergesAssumption
  <2>3. {x \in Entries(input) : x.part = p /\ x.ck = ck} = {y \in B : y.ck = ck}
    BY DEF PartOf
  <2> HIDE DEF B
  <2> QED BY <2>2, <2>3 DEF At
<1>7. RowsKept(d, B) /\ ShownUnshadowed(d)
  BY DEF Core
<1>8. ClusterKey(d) = {}
  BY DEF ClusterKey, NoCluster
<1> HIDE DEF B
<1>9. CASE ck \in Keys(B)
  <2>1. /\ X \subseteq reconcile_cluster(F, gc)
        /\ \A f \in reconcile_cluster(F, gc) :
              Unshadowed(f, ck, d.ranges, d.pdel) => f \in X
    BY <1>7, <1>8, <1>9 DEF RowsKept
  <2> QED
    <3>1. ASSUME NEW f \in reconcile_cluster(F, gc), Newer(f, R), Newer(f, P)
          PROVE  f \in X
      <4>1. f.ts \in Nat
        <5>1. f \in Sound
          BY <1>5, ReconciledType
        <5> QED BY <5>1 DEF Sound, Fact
      <4>2. Newer(f, d.pdel)
        BY <3>1, <4>1, <1>2, <1>5, NewerNewest
      <4>3. \A t \in d.ranges : Covers(t, ck) => \A x \in t.facts : f.ts > x.ts
        BY <3>1 DEF Newer
      <4>4. Unshadowed(f, ck, d.ranges, d.pdel)
        BY <4>2, <4>3 DEF Unshadowed, Newer
      <4> QED BY <4>4, <2>1
    <3>2. ASSUME NEW f \in X
          PROVE  Newer(f, P) /\ (gc.gc_before # 0 => Newer(f, R))
      <4>1. PICK x \in Out(d) : x.ck = ck /\ f \in x.facts
        BY <3>2 DEF At
      <4>2. x \in Shown(d)
        BY <4>1, RangeEmpty DEF Out, Shown
      <4>3. /\ Newer(f, d.pdel)
            /\ gc.gc_before # 0 => Unshadowed(f, ck, d.ranges, d.pdel)
        BY <4>1, <4>2, <1>0, <1>7 DEF ShownUnshadowed
      <4>4. f.ts \in Nat
        <5>1. f \in Sound
          BY <3>2, <2>1, <1>5, ReconciledType
        <5> QED BY <5>1 DEF Sound, Fact
      <4>5. Newer(f, P)
        BY <4>3, <4>4, <1>2, <1>5, NewerNewest
      <4>6. gc.gc_before # 0 => Newer(f, R)
        BY <4>3 DEF Unshadowed, Newer
      <4> QED BY <4>5, <4>6
    <3> HIDE DEF F, R, P, X
    <3>3. /\ \A f \in reconcile_cluster(F, gc) : Newer(f, R) /\ Newer(f, P) => f \in X
          /\ \A f \in X : Newer(f, P)
          /\ gc.gc_before # 0 => \A f \in X : Newer(f, R)
      BY <3>1, <3>2
    <3>4. Visible((X \cup purge_gc_grace(apply_shadowing(R, P), gc))
                    \cup purge_gc_grace(Newest(P), gc), gc.now)
              = Visible(F \cup R \cup P, gc.now)
      <4>1. RowWritten(F, R, P, X, gc)
        BY <2>1, <3>3, <1>0, <1>5, <1>6 DEF RowWritten
      <4>2. RowSame(F, R, P, X, gc)
        BY <4>1, WrittenRowView
      <4> QED BY <4>2 DEF RowSame
    <3> QED BY <3>4, <1>3, <1>4
<1>10. CASE ck \notin Keys(B)
  <2>1. F = {}
    BY <1>0, <1>10, AtNone
  <2>2. X = {}
    <3>1. ck \notin Keys(Out(d))
      BY <1>7, <1>10 DEF RowsKept
    <3> QED BY <3>1, <1>0, AtNone
  <2>3. reconcile_cluster(F, gc) = {}
    BY <2>1, ReconcileNothing
  <2> HIDE DEF F, R, P, X
  <2>4. /\ X \subseteq reconcile_cluster(F, gc)
        /\ \A f \in reconcile_cluster(F, gc) : Newer(f, R) /\ Newer(f, P) => f \in X
        /\ \A f \in X : Newer(f, P)
        /\ gc.gc_before # 0 => \A f \in X : Newer(f, R)
    BY <2>2, <2>3
  <2>5. Visible((X \cup purge_gc_grace(apply_shadowing(R, P), gc))
                    \cup purge_gc_grace(Newest(P), gc), gc.now)
              = Visible(F \cup R \cup P, gc.now)
    <3>1. RowWritten(F, R, P, X, gc)
      BY <2>4, <1>0, <1>5, <1>6 DEF RowWritten
    <3>2. RowSame(F, R, P, X, gc)
      BY <3>1, WrittenRowView
    <3> QED BY <3>2 DEF RowSame
  <2> QED BY <2>5, <1>3, <1>4
<1> QED BY <1>9, <1>10

(***************************************************************************)
(* A pulled entry and the end of the partition.                            *)
(***************************************************************************)
\* A range tombstone at the top covers no row that has gone out, if it may not
\* be written itself.
LEMMA NotLate ==
  ASSUME StateInv, OrderInv, TimelyMerges, NEW r \in DOMAIN input, IsTop(r), cur.part # 0,
         head(r).part = cur.part, KindOf(head(r)) = "rangedel", gc.gc_before # 0,
         RowsKept(cur, Behind(pos, cur.part)),
         LastRow(cur, Behind(pos, cur.part), Ahead(pos, cur.part)), HeadCarriers(cur, pos),
         NEW x \in Shown(cur), x.ck # 0
  PROVE  ~Covers(head(r), x.ck)
<1> SUFFICES ASSUME Covers(head(r), x.ck) PROVE FALSE
  OBVIOUS
<1> DEFINE e == head(r)
           p == cur.part
           B == Behind(pos, p)
           own == cur.cluster.ck
<1>1. InputOK /\ PosOK /\ Shape(cur) /\ HasHead(r) /\ cur \in Checkpoint
  BY DEF StateInv, IsTop
<1>2. /\ pos[r] \in DOMAIN input[r] /\ pos[r] \in Nat /\ SoundEntry(e) /\ e \in Ahead(pos, p)
      /\ e \in Entries(input)
  BY <1>1, HeadFacts DEF Ahead
<1>3. e.ck = 0 /\ e.lo \in Nat /\ e.hi \in Nat
  BY <1>2, EntryKinds, EntryFields DEF Carriers
<1>4. x.ck \in Keys(Out(cur))
  BY DEF Keys, Shown, Out
<1>5. x.ck \in Keys(B)
  BY <1>4 DEF RowsKept
<1>6. PICK b \in B : b.ck = x.ck
  BY <1>5 DEF Keys
<1>7. b \in Entries(input) /\ b.part = p /\ SoundEntry(b)
  BY <1>1, <1>6, InputFacts DEF Behind
<1>8. cur.cluster # NoCluster
  BY <1>2, <1>5 DEF LastRow
<1>9. own # 0
  BY <1>1, <1>8 DEF Shape
<1>10. x.ck < own
  <2>1. Below(Keys(Out(cur)), ClusterKey(cur))
    BY DEF OrderInv, InOrder, Ordered, Below
  <2>2. own \in ClusterKey(cur)
    BY <1>9 DEF ClusterKey
  <2> QED BY <2>1, <2>2, <1>4 DEF Below
<1>11. PICK i \in DOMAIN input[r] : i < pos[r] /\ input[r][i].part = p /\ input[r][i].ck = own
  BY <1>2, <1>3, <1>8 DEF HeadCarriers, head
<1>12. own <= e.hi
  <2>1. FileOrder(input[r])
    BY <1>1, InputFacts
  <2> QED BY <2>1, <1>2, <1>3, <1>9, <1>11 DEF FileOrder, head
<1>13. own \in Nat /\ x.ck \in Nat
  <2>1. SoundEntry(input[r][i])
    BY <1>1, InputFacts
  <2>2. input[r][i].ck \in Nat /\ b.ck \in Nat
    BY <2>1, <1>7, EntryFields
  <2> QED BY <2>2, <1>6, <1>11
<1>14. e.lo <= x.ck /\ x.ck <= e.hi
  BY DEF Covers
<1>15. Covers(e, own)
  BY <1>3, <1>10, <1>12, <1>13, <1>14 DEF Covers
<1>16. Late(input)
  <2>1. e = input[r][pos[r]]
    BY DEF head
  <2> HIDE DEF e, p, B, own
  <2>2. /\ i < pos[r] /\ input[r][pos[r]].ck = 0 /\ input[r][i].part = input[r][pos[r]].part
        /\ input[r][i].ck # 0 /\ Covers(input[r][pos[r]], input[r][i].ck)
    BY <2>1, <1>3, <1>9, <1>11, <1>15 DEF e, p
  <2>3. /\ b.part = input[r][pos[r]].part /\ b.ck # 0 /\ b.ck < input[r][i].ck
        /\ Covers(input[r][pos[r]], b.ck)
    BY <2>1, <1>6, <1>7, <1>10, <1>11 DEF e, p
  <2> QED BY <2>2, <2>3, <1>2, <1>7 DEF Late
<1> QED BY <1>1, <1>16 DEF TimelyMerges, InputOK

LEMMA HeadCarriersPull ==
  ASSUME InputOK, PosOK, NEW r \in DOMAIN input, IsTop(r), NEW c, NEW d, NEW ps,
         ps = [pos EXCEPT ![r] = @ + 1], HeadCarriers(c, pos),
         c.part = head(r).part, d.part = c.part,
         head(r).ck # 0 => d.cluster.ck = head(r).ck,
         head(r).ck = 0 => d.cluster = c.cluster
  PROVE  HeadCarriers(d, ps)
<1> SUFFICES ASSUME NEW q \in DOMAIN input, ps[q] \in DOMAIN input[q],
                    input[q][ps[q]].part = d.part, input[q][ps[q]].ck = 0, d.cluster # NoCluster
             PROVE  \E i \in DOMAIN input[q] : /\ i < ps[q] /\ input[q][i].part = d.part
                                               /\ input[q][i].ck = d.cluster.ck
  BY DEF HeadCarriers
<1>1. /\ pos[r] \in DOMAIN input[r] /\ pos[r] \in Nat /\ head(r).ck \in Nat
      /\ head(r) = input[r][pos[r]] /\ HasHead(r)
  BY HeadFacts DEF IsTop, head
<1>2. ps[r] = pos[r] + 1 /\ (q # r => ps[q] = pos[q])
  BY DEF PosOK
<1>3. CASE head(r).ck = 0
  <2>1. input[q][pos[q]].part = c.part /\ input[q][pos[q]].ck = 0 /\ pos[q] \in DOMAIN input[q]
    BY <1>1, <1>2, <1>3
  <2>2. PICK i \in DOMAIN input[q] : /\ i < pos[q] /\ input[q][i].part = c.part
                                     /\ input[q][i].ck = c.cluster.ck
    BY <2>1, <1>3 DEF HeadCarriers
  <2>3. i < ps[q]
    <3>1. i \in Nat
      BY InputFacts
    <3> QED BY <3>1, <2>2, <1>1, <1>2
  <2> QED BY <2>2, <2>3, <1>3
<1>4. CASE head(r).ck # 0
  <2>1. CASE q = r
    <3>1. pos[r] < ps[r]
      BY <1>1, <1>2
    <3> QED BY <3>1, <2>1, <1>1, <1>4
  <2>2. CASE q # r
    <3>1. pos[q] = ps[q]
      BY <2>2, <1>2
    <3>2. HasHead(q) /\ head(q).part = head(r).part /\ head(q).ck = 0
      BY <3>1, InputFacts DEF HasHead, head
    <3>3. head(r).part \in Nat
      BY <1>1, HeadFacts
    <3> QED BY <3>2, <3>3, <1>1, <1>4 DEF IsTop, Precedes
  <2> QED BY <2>1, <2>2
<1> QED BY <1>3, <1>4

LEMMA TailCore ==
  ASSUME NEW c \in Checkpoint, NEW B, Shape(c), c.part # 0, c.resolved, Core(c, B, {})
  PROVE  Core(Tail_(c), B, {})
<1> DEFINE a == reshadow_and_flush_awaiting(c)
<1>1. /\ a \in Checkpoint /\ SameKept(a, c)
      /\ a.ranges = c.ranges /\ a.pdel = c.pdel /\ a.emitted = c.emitted
      /\ a.resolved = c.resolved /\ a.cluster = c.cluster /\ a.awaiting = <<>>
  BY ReshadowFields
<1>2. Shape(a)
  BY <1>1 DEF Shape, SameKept
<1>3. Core(a, B, {})
  BY ReshadowCore
<1>4. Tail_(c) = IF a.ranges # {} /\ ~a.emitted THEN flush_range_tombstones(a) ELSE a
  BY DEF Tail_
<1> HIDE DEF a
<1>5. ~a.emitted => Core(flush_range_tombstones(a), B, {})
  BY <1>1, <1>2, <1>3, FlushCore
<1> QED BY <1>3, <1>4, <1>5

LEMMA EndCore ==
  ASSUME StateInv, OrderInv, NEW d \in AtEnd,
         Core(cur, Behind(pos, cur.part), Ahead(pos, cur.part))
  PROVE  /\ Core(d, Behind(pos, cur.part), {}) /\ Ahead(pos, cur.part) = {}
         /\ d.cluster = NoCluster /\ d.awaiting = <<>> /\ d.resolved
         /\ d.ranges # {} => d.emitted
<1> DEFINE c == finalize_current_cluster(cur)
           p == cur.part
           B == Behind(pos, p)
<1>1. /\ d = Tail_(c) /\ p # 0 /\ c \in Checkpoint /\ Shape(c) /\ c.part # 0 /\ c.resolved
  BY EndOf
<1>2. Ahead(pos, p) = {}
  BY EndOrdered
<1>3. cur \in Checkpoint /\ Shape(cur) /\ Known(B)
  BY KnownParts DEF StateInv
<1>4. Below(Keys(Out(cur)), ClusterKey(cur))
  BY <1>1 DEF OrderInv, InOrder, Ordered, Below
<1>5. c.cluster = NoCluster
  BY <1>3, FinalizeFields
<1> HIDE DEF B
<1>6. Core(cur, B, {})
  BY <1>2 DEF B
<1>7. Core(c, B, {})
  BY <1>3, <1>4, <1>6, FinalizeCore
<1> HIDE DEF c
<1>8. Core(d, B, {})
  BY <1>1, <1>7, TailCore
<1>9. /\ d.resolved /\ d.cluster = c.cluster /\ d.awaiting = <<>> /\ d.ranges = c.ranges
      /\ d.emitted = (c.emitted \/ c.ranges # {})
  BY <1>1, TailFields
<1> QED BY <1>2, <1>5, <1>8, <1>9 DEF B

(***************************************************************************)
(* The inductive invariant of a merge without errors.  The partition in    *)
(* flight is a checkpoint of which nothing is written; every other one has *)
(* not been begun or is written and shows what its inputs show.            *)
(***************************************************************************)
ViewOf(c, ps, w) ==
    c.part # 0 => /\ Core(c, Behind(ps, c.part), Ahead(ps, c.part))
                  /\ LastRow(c, Behind(ps, c.part), Ahead(ps, c.part))
                  /\ HeadCarriers(c, ps)
                  /\ w[c.part] = <<>>

Settled(p, ps, w) ==
    \/ w[p] = <<>> /\ Behind(ps, p) = {}
    \/ Ahead(ps, p) = {} /\ SameAt(p, w)

Views(c, s, ps, w) ==
    /\ ViewOf(c, ps, w) /\ ViewOf(s, ps, w)
    /\ \A p \in Partitions \ {c.part, s.part} : Settled(p, ps, w)

ViewInv ==
    /\ phase = "complete" => \A r \in DOMAIN input : ~HasHead(r)
    /\ failures = 0 => Views(cur, stash, pos, written)

\* Nothing of this depends on more of the state than its parameters and the
\* merge that runs.
LEMMA SameCore ==
  ASSUME UNCHANGED <<input, gc>>
  PROVE  \A c, B, A : Core(c, B, A)' <=> Core(c, B, A)
<1>1. \A c, B : RowsKept(c, B)' <=> RowsKept(c, B)
  BY DEF RowsKept
<1>2. \A c : ShownUnshadowed(c)' <=> ShownUnshadowed(c)
  BY DEF ShownUnshadowed
<1>3. \A c : PrefixOut(c)' = PrefixOut(c)
  BY DEF PrefixOut
<1>4. \A c : Flushed(c)' = Flushed(c)
  BY DEF Flushed
<1>5. \A c : FlushOut(c)' = FlushOut(c)
  BY <1>4 DEF FlushOut
<1>6. \A c : CarriersOut(c)' <=> CarriersOut(c)
  BY <1>3, <1>5 DEF CarriersOut
<1> QED BY <1>1, <1>2, <1>6 DEF Core

LEMMA ViewInvNext ==
  ASSUME UNCHANGED <<input, gc>>,
         phase' = "complete" => \A r \in DOMAIN input : ~(pos'[r] <= Len(input[r])),
         failures' = 0 => Views(cur', stash', pos', written')
  PROVE  ViewInv'
<1>1. /\ \A ps, p : Ahead(ps, p)' = Ahead(ps, p) /\ Behind(ps, p)' = Behind(ps, p)
  BY SameInput
<1>2. \A c, B, A : Core(c, B, A)' <=> Core(c, B, A)
  BY SameCore
<1>3. \A c, ps : HeadCarriers(c, ps)' <=> HeadCarriers(c, ps)
  BY DEF HeadCarriers
<1>4. \A p, w : SameAt(p, w)' <=> SameAt(p, w)
  <2>1. \A p, ck : InputAt(p, ck)' = InputAt(p, ck)
    BY DEF InputAt
  <2> QED BY <2>1 DEF SameAt
<1>5. \A c, ps, w : ViewOf(c, ps, w)' <=> ViewOf(c, ps, w)
  BY <1>1, <1>2, <1>3 DEF ViewOf
<1>6. \A p, ps, w : Settled(p, ps, w)' <=> Settled(p, ps, w)
  BY <1>1, <1>4 DEF Settled
<1>7. \A c, s, ps, w : Views(c, s, ps, w)' <=> Views(c, s, ps, w)
  BY <1>5, <1>6 DEF Views
<1>8. failures' = 0 => Views(cur, stash, pos, written)'
  BY <1>7
<1>9. phase' = "complete" => (\A r \in DOMAIN input : ~HasHead(r))'
  BY DEF HasHead
<1> QED BY <1>8, <1>9 DEF ViewInv

LEMMA FreshView == ASSUME NEW ps, NEW w PROVE ViewOf(fresh, ps, w)
BY FreshShape DEF ViewOf

\* One of the two checkpoints is always fresh.
LEMMA ViewsOne ==
  ASSUME NEW c, NEW ps, NEW w
  PROVE  /\ Views(c, fresh, ps, w) <=> Views(fresh, c, ps, w)
         /\ Views(c, fresh, ps, w) <=>
               ViewOf(c, ps, w) /\ \A p \in Partitions \ {c.part} : Settled(p, ps, w)
<1>1. fresh.part = 0 /\ 0 \notin Partitions
  BY FreshShape, StreamingMergeAssumption
<1>2. ViewOf(fresh, ps, w)
  BY FreshView
<1>3. /\ Partitions \ {c.part, fresh.part} = Partitions \ {c.part}
      /\ Partitions \ {fresh.part, c.part} = Partitions \ {c.part}
  BY <1>1
<1> QED BY <1>2, <1>3 DEF Views

LEMMA ViewStop ==
  ASSUME StateInv, ViewInv, resume \/ pause \/ step_fails \/ merge_complete \/ UNCHANGED vars
  PROVE  ViewInv'
<1>1. CASE resume
  <2>1. /\ phase = "idle" /\ phase' = "drain" /\ cur' = stash /\ stash' = fresh
        /\ UNCHANGED <<input, gc, pos, written, failures>>
    BY <1>1 DEF resume
  <2>2. cur = fresh
    BY <2>1 DEF StateInv
  <2>3. failures = 0 => Views(stash, fresh, pos, written)
    BY <2>2, ViewsOne DEF ViewInv
  <2> QED BY <2>1, <2>3, ViewInvNext
<1>2. CASE pause
  <2>1. /\ phase = "drain" /\ phase' = "idle" /\ stash' = cur /\ cur' = fresh
        /\ UNCHANGED <<input, gc, pos, written, failures>>
    BY <1>2 DEF pause
  <2>2. stash = fresh
    BY <2>1 DEF StateInv
  <2>3. failures = 0 => Views(fresh, cur, pos, written)
    BY <2>2, ViewsOne DEF ViewInv
  <2> QED BY <2>1, <2>3, ViewInvNext
<1>3. CASE step_fails
  <2>1. phase' = "idle" /\ failures' # 0 /\ UNCHANGED <<input, gc>>
    BY <1>3 DEF step_fails, StateInv
  <2> QED BY <2>1, ViewInvNext
<1>4. CASE merge_complete
  <2>1. UNCHANGED <<input, gc, pos, cur, stash, written, failures>>
    BY <1>4 DEF merge_complete
  <2>2. \A r \in DOMAIN input : ~(pos'[r] <= Len(input[r]))
    BY <1>4, <2>1 DEF merge_complete, HasHead
  <2>3. failures' = 0 => Views(cur', stash', pos', written')
    BY <2>1 DEF ViewInv
  <2> QED BY <2>1, <2>2, <2>3, ViewInvNext
<1>5. CASE UNCHANGED vars
  <2>1. UNCHANGED <<input, gc, pos, phase, cur, stash, written, failures>>
    BY <1>5 DEF vars
  <2>2. phase' = "complete" => \A r \in DOMAIN input : ~(pos'[r] <= Len(input[r]))
    BY <2>1 DEF ViewInv, HasHead
  <2>3. failures' = 0 => Views(cur', stash', pos', written')
    BY <2>1 DEF ViewInv
  <2> QED BY <2>1, <2>2, <2>3, ViewInvNext
<1> QED BY <1>1, <1>2, <1>3, <1>4, <1>5

\* In a call that has not failed.
LEMMA ViewOfCall ==
  ASSUME StateInv, ViewInv, phase = "drain", failures = 0
  PROVE  /\ stash = fresh /\ ViewOf(cur, pos, written)
         /\ \A p \in Partitions \ {cur.part} : Settled(p, pos, written)
<1>1. stash = fresh
  BY DEF StateInv
<1>2. Views(cur, fresh, pos, written)
  BY <1>1 DEF ViewInv
<1> QED BY <1>1, <1>2, ViewsOne

LEMMA ViewNextOfCall ==
  ASSUME UNCHANGED <<input, gc, failures>>, phase' = "drain",
         failures = 0 => /\ stash' = fresh /\ ViewOf(cur', pos', written')
                         /\ \A p \in Partitions \ {cur'.part} : Settled(p, pos', written')
  PROVE  ViewInv'
<1>1. failures' = 0 => Views(cur', stash', pos', written')
  BY ViewsOne
<1> QED BY <1>1, ViewInvNext

LEMMA ViewBegin ==
  ASSUME StateInv, ViewInv, NEW r \in DOMAIN input, begin_partition(r)
  PROVE  ViewInv'
<1> DEFINE p == head(r).part
<1>1. /\ phase = "drain" /\ IsTop(r) /\ cur' = Began(p) /\ cur.part = 0
      /\ UNCHANGED <<input, gc, pos, phase, stash, written, failures>>
  BY DEF begin_partition, Steps, Began
<1>2. p \in Partitions /\ head(r) \in Ahead(pos, p)
  BY <1>1, HeadFacts DEF StateInv, IsTop
<1> HIDE DEF p
<1>3. SUFFICES ASSUME failures = 0
               PROVE  /\ stash' = fresh /\ ViewOf(cur', pos', written')
                      /\ \A q \in Partitions \ {cur'.part} : Settled(q, pos', written')
  BY <1>1, ViewNextOfCall
<1>4. stash = fresh /\ \A q \in Partitions \ {cur.part} : Settled(q, pos, written)
  BY <1>1, <1>3, ViewOfCall
<1>5. p # cur.part
  BY <1>1, <1>2, StreamingMergeAssumption
<1>6. written[p] = <<>> /\ Behind(pos, p) = {}
  <2>1. Settled(p, pos, written)
    BY <1>2, <1>4, <1>5
  <2> QED BY <2>1, <1>2 DEF Settled
<1>7. Began(p).part = p /\ Began(p).cluster = NoCluster
  BY <1>2, BeganFields
<1>8. HeadCarriers(Began(p), pos)
  BY <1>7 DEF HeadCarriers
<1>9. Core(Began(p), {}, Ahead(pos, p)) /\ LastRow(Began(p), {}, Ahead(pos, p))
  BY <1>2, BeganCore
<1>10. ViewOf(Began(p), pos, written)
  BY <1>6, <1>7, <1>8, <1>9 DEF ViewOf
<1>11. \A q \in Partitions \ {p} : Settled(q, pos, written)
  BY <1>1, <1>4, StreamingMergeAssumption
<1> QED BY <1>1, <1>4, <1>7, <1>10, <1>11

LEMMA ViewGroup ==
  ASSUME StateInv, ViewInv, cluster_group
  PROVE  ViewInv'
<1>1. /\ phase = "drain" /\ cur.pending # <<>> /\ cur' = Popped(cur)
      /\ UNCHANGED <<input, gc, pos, phase, stash, written, failures>>
  BY DEF cluster_group, Popped
<1>2. SUFFICES ASSUME failures = 0
               PROVE  /\ stash' = fresh /\ ViewOf(cur', pos', written')
                      /\ \A q \in Partitions \ {cur'.part} : Settled(q, pos', written')
  BY <1>1, ViewNextOfCall
<1> DEFINE d == Popped(cur)
           B == Behind(pos, cur.part)
           A == Ahead(pos, cur.part)
<1>3. /\ stash = fresh /\ ViewOf(cur, pos, written)
      /\ \A q \in Partitions \ {cur.part} : Settled(q, pos, written)
  BY <1>1, <1>2, ViewOfCall
<1>4. cur \in Checkpoint
  BY DEF StateInv
<1>5. d.part = cur.part /\ d.cluster = cur.cluster
  BY <1>1, <1>4, PoppedFields
<1>6. cur.part # 0 => Core(d, B, A)
  <2> HIDE DEF d, B, A
  <2>1. cur.part # 0 => Core(cur, B, A)
    BY <1>3 DEF ViewOf, B, A
  <2> QED BY <2>1, <1>1, <1>4, PoppedCore DEF d
<1> HIDE DEF d
<1>7. cur.part # 0 => LastRow(d, B, A) /\ HeadCarriers(d, pos) /\ written[cur.part] = <<>>
  BY <1>3, <1>5 DEF ViewOf, LastRow, HeadCarriers
<1>8. ViewOf(d, pos, written)
  BY <1>5, <1>6, <1>7 DEF ViewOf
<1> QED BY <1>1, <1>3, <1>5, <1>8 DEF d

LEMMA ViewPull ==
  ASSUME StateInv, OrderInv, ViewInv, TimelyMerges, NEW r \in DOMAIN input, pull_one(r)
  PROVE  ViewInv'
<1> DEFINE e == head(r)
           ps == [pos EXCEPT ![r] = @ + 1]
           p == cur.part
           d == Absorb(cur, e)
           W == Keys(Range(written[p]))
           L == Keys(Ahead(pos, p))
           M == Keys(Ahead(ps, p))
           B == Behind(pos, p)
           A == Ahead(pos, p)
           N == Ahead(ps, p)
<1>1. /\ phase = "drain" /\ IsTop(r) /\ HasHead(r) /\ cur' = d /\ pos' = ps
      /\ cur.part # 0 /\ e.part = p
      /\ UNCHANGED <<input, gc, phase, stash, written, failures>>
  BY DEF pull_one, Steps, IsTop
<1>2. InputOK /\ PosOK /\ cur \in Checkpoint /\ Shape(cur)
  BY <1>1 DEF StateInv
<1>3. SUFFICES ASSUME failures = 0
               PROVE  /\ stash' = fresh /\ ViewOf(cur', pos', written')
                      /\ \A q \in Partitions \ {cur'.part} : Settled(q, pos', written')
  BY <1>1, ViewNextOfCall
<1>4. /\ stash = fresh /\ ViewOf(cur, pos, written)
      /\ \A q \in Partitions \ {p} : Settled(q, pos, written)
  BY <1>1, <1>3, ViewOfCall
<1>5. /\ SoundEntry(e) /\ p \in Partitions /\ e.ck \in Nat /\ e \in A
  BY <1>1, <1>2, HeadFacts
<1>6. /\ \A q : q # p => Ahead(ps, q) = Ahead(pos, q) /\ Behind(ps, q) = Behind(pos, q)
      /\ N \subseteq A /\ Behind(ps, p) = B \cup {e}
  <2> DEFINE qs == ps
  <2>1. qs = [pos EXCEPT ![r] = @ + 1]
    OBVIOUS
  <2> HIDE DEF qs
  <2>2. /\ \A q : q # head(r).part => Ahead(qs, q) = Ahead(pos, q) /\ Behind(qs, q) = Behind(pos, q)
        /\ \A q : Ahead(qs, q) \subseteq Ahead(pos, q)
        /\ Behind(qs, head(r).part) = Behind(pos, head(r).part) \cup {head(r)}
    BY <2>1, <1>1, <1>2, PullMoves
  <2> QED BY <2>2, <1>1 DEF qs
<1>7. e.ck # 0 => \A a \in A : (a.ck # 0 => e.ck <= a.ck) /\ KindOf(a) # "partdel"
  BY <1>1, <1>2, TopOrder
<1>8. Core(cur, B, A) /\ LastRow(cur, B, A) /\ HeadCarriers(cur, pos) /\ written[p] = <<>>
  BY <1>1, <1>4 DEF ViewOf
<1>9. KindOf(e) = "rangedel" /\ gc.gc_before # 0 =>
         \A x \in Shown(cur) : x.ck # 0 => ~Covers(e, x.ck)
  BY <1>1, <1>8, NotLate DEF Core
<1>10. Ordered(cur, W, L)
  BY <1>1 DEF OrderInv, InOrder
<1>11. Known(B)
  BY <1>2, KnownParts
<1> HIDE DEF e, ps, A, B, N
<1>12. /\ W \in SUBSET Nat /\ L \in SUBSET Nat /\ M \in SUBSET L
  <2>1. W \in SUBSET Nat
    BY <1>5, WrittenKeys
  <2>2. L \in SUBSET Nat
    BY <1>2, AheadKeys
  <2>3. M \subseteq L
    BY <1>6 DEF Keys, N, A
  <2> QED BY <2>1, <2>2, <2>3
<1>13. e.ck # 0 => e.ck \in L /\ \A l \in M : e.ck <= l
  <2>1. e.ck # 0 => e.ck \in L
    BY <1>5 DEF Keys, A
  <2>2. e.ck # 0 => \A l \in L : e.ck <= l
    BY <1>7 DEF Keys, A
  <2> QED BY <2>1, <2>2, <1>12
<1> HIDE DEF p, W, L, M
<1>14. d.part = p
  <2> HIDE DEF d
  <2>1. LET x == Absorb(cur, e)
        IN  x \in Checkpoint /\ SameKept(x, cur) /\ Shape(x) /\ Ordered(x, W, M)
    BY <1>1, <1>2, <1>5, <1>10, <1>12, <1>13, AbsorbOrdered DEF p
  <2> QED BY <2>1 DEF SameKept, d, p
<1>15. /\ Core(d, B \cup {e}, N) /\ LastRow(d, B \cup {e}, N)
       /\ d.cluster.ck = IF e.ck # 0 THEN e.ck ELSE cur.cluster.ck
       /\ e.ck = 0 => d.cluster = cur.cluster
  BY <1>1, <1>2, <1>5, <1>6, <1>7, <1>8, <1>9, <1>10, <1>11, <1>12, <1>13, AbsorbCore
<1> HIDE DEF d
<1>16. HeadCarriers(d, ps)
  <2>1. ps = [pos EXCEPT ![r] = @ + 1] /\ cur.part = head(r).part /\ d.part = cur.part
    BY <1>1, <1>14 DEF ps, e, p
  <2>2. /\ head(r).ck # 0 => d.cluster.ck = head(r).ck
        /\ head(r).ck = 0 => d.cluster = cur.cluster
    BY <1>15 DEF e
  <2> QED BY <2>1, <2>2, <1>1, <1>2, <1>8, HeadCarriersPull
<1>17. ViewOf(d, ps, written)
  BY <1>6, <1>8, <1>14, <1>15, <1>16 DEF ViewOf, N
<1>18. \A q \in Partitions \ {p} : Settled(q, ps, written)
  BY <1>4, <1>6 DEF Settled
<1> QED BY <1>1, <1>4, <1>14, <1>17, <1>18

LEMMA ViewFinish ==
  ASSUME StateInv, OrderInv, ViewInv, finish_partition
  PROVE  ViewInv'
<1>1. PICK d \in AtEnd : cur' = d
  BY DEF finish_partition
<1>2. /\ phase = "drain" /\ cur.part # 0
      /\ UNCHANGED <<input, gc, pos, phase, stash, written, failures>>
  BY EndOf DEF finish_partition, PartitionDrained, Steps
<1>3. SUFFICES ASSUME failures = 0
               PROVE  /\ stash' = fresh /\ ViewOf(cur', pos', written')
                      /\ \A q \in Partitions \ {cur'.part} : Settled(q, pos', written')
  BY <1>2, ViewNextOfCall
<1>4. /\ stash = fresh /\ ViewOf(cur, pos, written)
      /\ \A q \in Partitions \ {cur.part} : Settled(q, pos, written)
  BY <1>2, <1>3, ViewOfCall
<1>5. Core(cur, Behind(pos, cur.part), Ahead(pos, cur.part)) /\ written[cur.part] = <<>>
  BY <1>2, <1>4 DEF ViewOf
<1>6. d.part = cur.part
  BY EndOrdered DEF SameKept
<1>7. /\ Core(d, Behind(pos, cur.part), {}) /\ Ahead(pos, cur.part) = {}
      /\ d.cluster = NoCluster
  BY <1>5, EndCore
<1>8. LastRow(d, Behind(pos, cur.part), {}) /\ HeadCarriers(d, pos)
  BY <1>7 DEF LastRow, HeadCarriers
<1>9. ViewOf(d, pos, written)
  BY <1>5, <1>6, <1>7, <1>8 DEF ViewOf
<1> QED BY <1>1, <1>2, <1>4, <1>6, <1>9

LEMMA ViewEnd ==
  ASSUME StateInv, OrderInv, ViewInv, partition_end
  PROVE  ViewInv'
<1> DEFINE p == cur.part
           w == [written EXCEPT ![p] = @ \o cur.rows]
<1>1. PICK d \in AtEnd : d.pending = <<>>
  BY DEF partition_end
<1>2. /\ written' = w /\ cur' = fresh /\ phase = "drain"
      /\ UNCHANGED <<input, gc, pos, phase, stash, failures>>
  BY EndOf DEF partition_end, PartitionDrained, Steps
<1>3. SUFFICES ASSUME failures = 0
               PROVE  /\ stash' = fresh /\ ViewOf(cur', pos', written')
                      /\ \A q \in Partitions \ {cur'.part} : Settled(q, pos', written')
  BY <1>2, ViewNextOfCall
<1>4. /\ stash = fresh /\ ViewOf(cur, pos, written)
      /\ \A q \in Partitions \ {p} : Settled(q, pos, written)
  BY <1>2, <1>3, ViewOfCall
<1>5. p \in Partitions /\ p # 0
  BY EndOf
<1>6. Core(cur, Behind(pos, p), Ahead(pos, p)) /\ written[p] = <<>>
  BY <1>4, <1>5 DEF ViewOf
<1>7. /\ Core(d, Behind(pos, p), {}) /\ Ahead(pos, p) = {}
      /\ d.cluster = NoCluster /\ d.awaiting = <<>> /\ d.resolved
      /\ d.ranges # {} => d.emitted
  BY <1>6, EndCore
<1>8. d \in Checkpoint /\ d.rows = cur.rows /\ InputOK /\ PosOK
  BY EndOrdered DEF SameKept, StateInv
<1>9. Core(d, PartOf(p), {})
  BY <1>7, <1>8, BehindAll
<1>10. w[p] = cur.rows /\ \A q \in Partitions : q # p => w[q] = written[q]
  <2>1. w[p] = written[p] \o cur.rows /\ \A q \in Partitions : q # p => w[q] = written[q]
    BY <1>5 DEF StateInv
  <2> DEFINE t == cur.rows
  <2>2. t \in Seq(GroupSet)
    BY CheckpointParts DEF StateInv
  <2> HIDE DEF t
  <2>3. <<>> \o t = t
    BY <2>2
  <2> QED BY <2>1, <2>3, <1>6 DEF t
<1> HIDE DEF p, w
<1>11. SameAt(p, w)
  <2>1. Range(w[p]) = Range(d.rows)
    BY <1>8, <1>10
  <2> QED BY <2>1, <1>1, <1>5, <1>7, <1>8, <1>9, EndView
<1>12. ASSUME NEW q \in Partitions PROVE Settled(q, pos, w)
  <2>1. CASE q = p
    BY <2>1, <1>7, <1>11 DEF Settled
  <2>2. CASE q # p
    BY <2>2, <1>4, <1>10 DEF Settled, SameAt
  <2> QED BY <2>1, <2>2
<1> QED BY <1>2, <1>4, <1>12, FreshView

LEMMA ViewInit ==
  ASSUME Init
  PROVE  ViewInv
<1>1. /\ pos = [r \in DOMAIN input |-> 1] /\ phase = "idle"
      /\ cur = fresh /\ stash = fresh /\ written = [p \in Partitions |-> <<>>] /\ InputOK
  BY DEF Init, InputOK
<1>2. ASSUME NEW p \in Partitions PROVE Settled(p, pos, written)
  <2>1. Behind(pos, p) = {}
    <3> SUFFICES ASSUME NEW r \in DOMAIN input, NEW i \in DOMAIN input[r] PROVE ~(i < pos[r])
      BY DEF Behind
    <3>1. i \in 1 .. Len(input[r]) /\ Len(input[r]) \in Nat
      BY <1>1, InputFacts
    <3> QED BY <3>1, <1>1
  <2> QED BY <2>1, <1>1 DEF Settled
<1>3. Views(fresh, fresh, pos, written)
  BY <1>2, FreshView DEF Views
<1> QED BY <1>1, <1>3 DEF ViewInv

LEMMA ViewNext ==
  ASSUME StateInv, OrderInv, ViewInv, TimelyMerges, [Next]_vars
  PROVE  ViewInv'
<1>1. CASE \E r \in DOMAIN input : begin_partition(r) \/ pull_one(r)
  BY <1>1, ViewBegin, ViewPull
<1> QED BY <1>1, ViewStop, ViewGroup, ViewFinish, ViewEnd DEF Next, step_streaming, Finished

(***************************************************************************)
(* However often the drain pauses, a merge that completes without an error *)
(* has written, at every row of every partition, what its inputs together  *)
(* show; for merges that purge, this needs that no range tombstone comes   *)
(* late.  A merge that does not purge may have late ones.                  *)
(***************************************************************************)
THEOREM MergedShowsInputs ==
  ASSUME TimelyMerges
  PROVE  Spec => []MergedView
<1>1. StateInv /\ ViewInv => MergedView
  <2> SUFFICES ASSUME StateInv, ViewInv, phase = "complete", failures = 0,
                      NEW p \in Partitions
               PROVE  \A ck \in Clusters :
                         Visible(WrittenAt(p, ck), gc.now) = Visible(InputAt(p, ck), gc.now)
    BY DEF MergedView, SameView
  <2>1. InputOK /\ PosOK /\ cur = fresh /\ stash = fresh
    BY DEF StateInv
  <2>2. Settled(p, pos, written)
    BY <2>1, FreshShape, StreamingMergeAssumption DEF ViewInv, Views
  <2>3. Ahead(pos, p) = {}
    <3> SUFFICES ASSUME NEW r \in DOMAIN input, NEW i \in DOMAIN input[r], pos[r] <= i
                 PROVE  FALSE
      BY DEF Ahead
    <3>1. HasHead(r)
      BY <2>1, AheadOfHead
    <3> QED BY <3>1 DEF ViewInv
  <2>4. CASE SameAt(p, written)
    BY <2>4 DEF SameAt, WrittenAt
  <2>5. CASE written[p] = <<>> /\ Behind(pos, p) = {}
    <3>1. PartOf(p) = {}
      BY <2>1, <2>3, <2>5, BehindAll
    <3>2. \A ck : FactsAt({}, ck) = {}
      BY DEF FactsAt
    <3>3. \A ck : WrittenAt(p, ck) = {}
      BY <2>5, <3>2, RangeEmpty DEF WrittenAt
    <3>4. \A ck : InputAt(p, ck) = {}
      BY <3>1, <3>2 DEF InputAt, PartOf
    <3> QED BY <3>3, <3>4
  <2> QED BY <2>2, <2>4, <2>5 DEF Settled
<1>2. Init => ViewInv
  BY ViewInit
<1>3. StateInv /\ OrderInv /\ ViewInv /\ [Next]_vars => ViewInv'
  BY ViewNext
<1> QED BY <1>1, <1>2, <1>3, OrderAlways, PTL DEF Spec

=============================================================================
