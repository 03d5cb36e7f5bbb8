-------------------------- MODULE SchedulingProofs --------------------------
(***************************************************************************)
(* However many workers there are, and however their loads change while    *)
(* they are ranked, a ranking lists each of them once, and tries first one *)
(* that the changes it missed alone put above another.                     *)
(***************************************************************************)
EXTENDS Scheduling, FiniteSetTheorems, SequenceTheorems, TLAPS

-----------------------------------------------------------------------------
(***************************************************************************)
(* Sequences that list a set: appending, taking the head, swapping two     *)
(* neighbours, sorting and rotating.                                       *)
(***************************************************************************)
LEMMA AppendLists ==
  ASSUME NEW S, NEW s \in Seq(S), NEW x \in S
  PROVE  /\ Append(s, x) \in Seq(S)
         /\ ToSet(Append(s, x)) = ToSet(s) \cup {x}
         /\ IsInjective(s) /\ x \notin ToSet(s) => IsInjective(Append(s, x))
<1> DEFINE t == Append(s, x)
<1>1. /\ t \in Seq(S) /\ Len(t) = Len(s) + 1 /\ DOMAIN t = 1..Len(t) /\ DOMAIN s = 1..Len(s)
      /\ Len(s) \in Nat
      /\ \A i \in 1..Len(s) : t[i] = s[i]
      /\ t[Len(s) + 1] = x
  BY LenProperties
<1>2. ToSet(t) = ToSet(s) \cup {x}
  <2>1. ASSUME NEW y \in ToSet(t) PROVE y \in ToSet(s) \cup {x}
    <3>1. PICK i \in 1..Len(t) : y = t[i]
      BY <1>1 DEF ToSet
    <3>2. CASE i = Len(t)
      BY <3>1, <3>2, <1>1
    <3>3. CASE i \in 1..Len(s)
      BY <3>1, <3>3, <1>1 DEF ToSet
    <3> QED BY <3>2, <3>3, <1>1
  <2>2. x \in ToSet(t)
    <3>1. Len(s) + 1 \in DOMAIN t BY <1>1
    <3> QED BY <3>1, <1>1 DEF ToSet
  <2>3. ASSUME NEW i \in 1..Len(s) PROVE s[i] \in ToSet(t)
    <3>1. i \in DOMAIN t BY <1>1
    <3> QED BY <3>1, <1>1 DEF ToSet
  <2> QED BY <2>1, <2>2, <2>3, <1>1 DEF ToSet
<1>3. ASSUME IsInjective(s), x \notin ToSet(s) PROVE IsInjective(t)
  <2>1. \A i \in 1..Len(s) : s[i] # x BY <1>1, <1>3 DEF ToSet
  <2> QED BY <2>1, <1>1, <1>3 DEF IsInjective
<1> QED BY <1>1, <1>2, <1>3

LEMMA TailLists ==
  ASSUME NEW S, NEW s \in Seq(S), s # << >>
  PROVE  /\ Head(s) \in ToSet(s)
         /\ Tail(s) \in Seq(S)
         /\ Len(Tail(s)) = Len(s) - 1
         /\ ToSet(s) = ToSet(Tail(s)) \cup {Head(s)}
         /\ IsInjective(s) => IsInjective(Tail(s)) /\ Head(s) \notin ToSet(Tail(s))
<1> DEFINE t == Tail(s)
<1>1. /\ t \in Seq(S) /\ Len(t) = Len(s) - 1 /\ DOMAIN t = 1..Len(t) /\ DOMAIN s = 1..Len(s)
      /\ Len(s) \in Nat \ {0}
      /\ \A i \in 1..Len(t) : t[i] = s[i + 1]
      /\ Head(s) = s[1]
  BY LenProperties, HeadTailProperties, EmptySeq
<1>2. ToSet(s) = ToSet(t) \cup {Head(s)}
  <2>1. ASSUME NEW y \in ToSet(s) PROVE y \in ToSet(t) \cup {Head(s)}
    <3>1. PICK i \in 1..Len(s) : y = s[i]
      BY <1>1 DEF ToSet
    <3>2. CASE i = 1
      BY <3>1, <3>2, <1>1
    <3>3. CASE i - 1 \in 1..Len(t)
      <4>1. t[i - 1] = s[i] BY <3>3, <1>1
      <4> QED BY <3>1, <3>3, <4>1, <1>1 DEF ToSet
    <3> QED BY <3>2, <3>3, <1>1
  <2>2. Head(s) \in ToSet(s)
    <3>1. 1 \in DOMAIN s BY <1>1
    <3> QED BY <3>1, <1>1 DEF ToSet
  <2>3. ASSUME NEW i \in 1..Len(t) PROVE t[i] \in ToSet(s)
    <3>1. i + 1 \in DOMAIN s /\ t[i] = s[i + 1] BY <1>1
    <3> QED BY <3>1, <1>1 DEF ToSet
  <2> QED BY <2>1, <2>2, <2>3, <1>1 DEF ToSet
<1>3. ASSUME IsInjective(s) PROVE IsInjective(t) /\ Head(s) \notin ToSet(t)
  <2>1. \A i, j \in 1..Len(s) : s[i] = s[j] => i = j BY <1>1, <1>3 DEF IsInjective
  <2>2. IsInjective(t)
    <3>1. ASSUME NEW i \in 1..Len(t), NEW j \in 1..Len(t), t[i] = t[j] PROVE i = j
      <4>1. i + 1 \in 1..Len(s) /\ j + 1 \in 1..Len(s) BY <1>1
      <4>2. s[i + 1] = s[j + 1] BY <1>1, <3>1
      <4>3. i + 1 = j + 1 BY <4>1, <4>2, <2>1
      <4> QED BY <4>3
    <3> QED BY <3>1, <1>1 DEF IsInjective
  <2>3. ASSUME NEW i \in 1..Len(t) PROVE t[i] # s[1]
    <3>1. i + 1 \in 1..Len(s) /\ 1 \in 1..Len(s) /\ i + 1 # 1 BY <1>1
    <3> QED BY <3>1, <2>1, <1>1
  <2> QED BY <2>2, <2>3, <1>1 DEF ToSet
<1> QED BY <1>1, <1>2, <1>3

LEMMA SwapLists ==
  ASSUME NEW S, NEW s \in Seq(S), NEW i \in 2..Len(s)
  PROVE  LET t == [s EXCEPT ![i] = s[i - 1], ![i - 1] = s[i]]
         IN  /\ t \in Seq(S)
             /\ Len(t) = Len(s)
             /\ t[i] = s[i - 1] /\ t[i - 1] = s[i]
             /\ \A j \in 1..Len(s) : j # i /\ j # i - 1 => t[j] = s[j]
             /\ ToSet(t) = ToSet(s)
             /\ IsInjective(s) => IsInjective(t)
<1> DEFINE u == [s EXCEPT ![i] = s[i - 1]]
           t == [s EXCEPT ![i] = s[i - 1], ![i - 1] = s[i]]
<1>1. /\ Len(s) \in Nat /\ DOMAIN s = 1..Len(s) /\ i \in 1..Len(s) /\ i - 1 \in 1..Len(s)
      /\ s[i] \in S /\ s[i - 1] \in S
  BY LenProperties, ElementOfSeq
<1>2. u \in Seq(S) /\ Len(u) = Len(s) /\ \A j \in 1..Len(s) : u[j] = IF j = i THEN s[i - 1] ELSE s[j]
  BY <1>1, ExceptSeq
<1>3. t = [u EXCEPT ![i - 1] = s[i]]
  OBVIOUS
<1>4. /\ t \in Seq(S) /\ Len(t) = Len(s) /\ DOMAIN t = 1..Len(s)
      /\ \A j \in 1..Len(s) : t[j] = IF j = i - 1 THEN s[i] ELSE u[j]
  <2> HIDE DEF u, t
  <2> QED BY <1>1, <1>2, <1>3, ExceptSeq, LenProperties
<1>5. /\ t[i] = s[i - 1] /\ t[i - 1] = s[i]
      /\ \A j \in 1..Len(s) : j # i /\ j # i - 1 => t[j] = s[j]
  <2> HIDE DEF u, t
  <2> QED BY <1>1, <1>2, <1>4
<1> HIDE DEF u, t
<1>6. ToSet(t) = ToSet(s)
  <2>1. ASSUME NEW j \in 1..Len(s) PROVE t[j] \in ToSet(s) /\ s[j] \in ToSet(t)
    BY <1>1, <1>4, <1>5 DEF ToSet
  <2> QED BY <2>1, <1>1, <1>4 DEF ToSet
<1>7. ASSUME IsInjective(s) PROVE IsInjective(t)
  <2>1. \A j, k \in 1..Len(s) : s[j] = s[k] => j = k BY <1>1, <1>7 DEF IsInjective
  <2>2. ASSUME NEW j \in 1..Len(s), NEW k \in 1..Len(s), t[j] = t[k] PROVE j = k
    BY <2>1, <2>2, <1>1, <1>5
  <2> QED BY <2>2, <1>4 DEF IsInjective
<1> QED BY <1>4, <1>5, <1>6, <1>7 DEF t

LEMMA SequencesOf ==
  ASSUME NEW S, IsFiniteSet(S), NEW s \in SetToSeqs(S)
  PROVE  s \in Seq(S) /\ Len(s) = Cardinality(S) /\ IsInjective(s) /\ ToSet(s) = S
<1> DEFINE n == Cardinality(S)
<1>1. n \in Nat /\ s \in [1..n -> S] /\ \A i, j \in 1..n : i # j => s[i] # s[j]
  BY FS_CardinalityType DEF SetToSeqs
<1>2. s \in Seq(S) /\ Len(s) = n
  BY <1>1, SeqDef
<1>3. IsInjective(s)
  BY <1>1 DEF IsInjective
<1>4. s \in Injection(1..n, S)
  BY <1>1 DEF Injection, IsInjective
<1>5. IsFiniteSet(1..n) /\ Cardinality(1..n) = n
  BY <1>1, FS_Interval
<1>6. s \in Surjection(1..n, S)
  BY <1>4, <1>5, FS_Injection
<1>7. ToSet(s) = S
  BY <1>1, <1>6 DEF Surjection, ToSet
<1> QED BY <1>2, <1>3, <1>7

LEMMA SortedExists ==
  ASSUME NEW S, IsFiniteSet(S), S \subseteq Nat
  PROVE  /\ Sorted(S) \in SetToSeqs(S)
         /\ \A i, j \in 1..Cardinality(S) : i < j => Sorted(S)[i] < Sorted(S)[j]
<1> DEFINE n == Cardinality(S)
           upTo(x) == {y \in S : y <= x}
           rank == [x \in S |-> Cardinality(upTo(x))]
<1>1. n \in Nat /\ IsFiniteSet(1..n) /\ Cardinality(1..n) = n
  BY FS_CardinalityType, FS_Interval
<1>2. ASSUME NEW x \in S PROVE IsFiniteSet(upTo(x)) /\ rank[x] \in 1..n
  <2>1. IsFiniteSet(upTo(x)) /\ Cardinality(upTo(x)) <= n
    BY FS_Subset
  <2>2. x \in upTo(x)
    OBVIOUS
  <2>3. Cardinality(upTo(x)) \in Nat /\ Cardinality(upTo(x)) # 0
    BY <2>1, <2>2, FS_EmptySet, FS_CardinalityType
  <2> QED BY <2>1, <2>3, <1>1
<1>3. ASSUME NEW x \in S, NEW y \in S, x < y PROVE rank[x] < rank[y]
  <2>0. x \in Nat /\ y \in Nat
    OBVIOUS
  <2>1. upTo(x) \in SUBSET upTo(y)
    <3>1. \A z \in S : z \in Nat /\ (z <= x => z <= y)
      BY <2>0, <1>3
    <3> QED BY <3>1
  <2>2. y \in upTo(y) /\ y \notin upTo(x)
    BY <1>3
  <2>3. Cardinality(upTo(x)) <= Cardinality(upTo(y)) /\ Cardinality(upTo(x)) # Cardinality(upTo(y))
    BY <2>1, <2>2, <1>2, FS_Subset
  <2>4. rank[x] \in 1..n /\ rank[y] \in 1..n
    BY <1>2
  <2>5. rank[x] <= rank[y] /\ rank[x] # rank[y]
    BY <2>3
  <2> HIDE DEF rank
  <2> QED BY <2>4, <2>5, <1>1
<1>4. rank \in [S -> 1..n]
  BY <1>2
<1> HIDE DEF rank
<1>5. rank \in Injection(S, 1..n)
  <2>1. \A x, y \in S : rank[x] = rank[y] => x = y
    BY <1>3, <1>4, <1>1
  <2> QED BY <2>1, <1>4 DEF Injection, IsInjective
<1>6. rank \in Surjection(S, 1..n)
  BY <1>5, <1>1, FS_Injection
<1> DEFINE s == [i \in 1..n |-> CHOOSE x \in S : rank[x] = i]
<1>7. ASSUME NEW i \in 1..n PROVE s[i] \in S /\ rank[s[i]] = i
  BY <1>6 DEF Surjection
<1>8. s \in SetToSeqs(S)
  <2>1. s \in [1..n -> S]
    BY <1>7
  <2>2. \A i, j \in 1..n : i # j => s[i] # s[j]
    BY <1>7
  <2> QED BY <2>1, <2>2 DEF SetToSeqs
<1>9. \A i, j \in DOMAIN s : i < j => s[i] < s[j]
  <2>1. SUFFICES ASSUME NEW i \in 1..n, NEW j \in 1..n, i < j PROVE s[i] < s[j]
    OBVIOUS
  <2>2. s[i] \in Nat /\ s[j] \in Nat /\ rank[s[i]] = i /\ rank[s[j]] = j
    BY <1>7
  <2> HIDE DEF s
  <2>3. ~ (s[j] < s[i])
    BY <2>1, <2>2, <1>7, <1>3
  <2>4. s[i] # s[j]
    BY <2>1, <2>2
  <2> QED BY <2>2, <2>3, <2>4
<1>10. Sorted(S) \in SetToSeqs(S) /\ \A i, j \in DOMAIN Sorted(S) : i < j => Sorted(S)[i] < Sorted(S)[j]
  <2> HIDE DEF s
  <2> QED BY <1>8, <1>9 DEF Sorted
<1>11. DOMAIN Sorted(S) = 1..n
  BY <1>10 DEF SetToSeqs
<1> QED BY <1>10, <1>11

LEMMA ConcatLists ==
  ASSUME NEW S, NEW s \in Seq(S), NEW t \in Seq(S)
  PROVE  /\ s \o t \in Seq(S)
         /\ Len(s \o t) = Len(s) + Len(t)
         /\ ToSet(s \o t) = ToSet(s) \cup ToSet(t)
         /\ IsInjective(s) /\ IsInjective(t) /\ ToSet(s) \cap ToSet(t) = {} => IsInjective(s \o t)
<1> DEFINE u == s \o t
<1>1. /\ u \in Seq(S) /\ Len(u) = Len(s) + Len(t) /\ Len(s) \in Nat /\ Len(t) \in Nat
      /\ DOMAIN u = 1..Len(u) /\ DOMAIN s = 1..Len(s) /\ DOMAIN t = 1..Len(t)
  BY LenProperties, ConcatProperties
<1>2. \A i \in 1..Len(u) : u[i] = IF i <= Len(s) THEN s[i] ELSE t[i - Len(s)]
  BY <1>1, ConcatProperties
<1> HIDE DEF u
<1>3. ASSUME NEW i \in 1..Len(u) PROVE u[i] \in ToSet(s) \cup ToSet(t)
  <2>1. CASE i <= Len(s)
    BY <2>1, <1>1, <1>2 DEF ToSet
  <2>2. CASE ~ (i <= Len(s))
    <3>1. i - Len(s) \in DOMAIN t BY <2>2, <1>1
    <3> QED BY <3>1, <2>2, <1>1, <1>2 DEF ToSet
  <2> QED BY <2>1, <2>2
<1>4. ASSUME NEW i \in 1..Len(s) PROVE i \in DOMAIN u /\ u[i] = s[i]
  BY <1>1, <1>2
<1>5. ASSUME NEW i \in 1..Len(t) PROVE Len(s) + i \in DOMAIN u /\ u[Len(s) + i] = t[i]
  <2>1. Len(s) + i \in DOMAIN u /\ ~ (Len(s) + i <= Len(s)) /\ Len(s) + i - Len(s) = i BY <1>1
  <2> QED BY <2>1, <1>1, <1>2
<1>6. ToSet(u) = ToSet(s) \cup ToSet(t)
  <2>1. \A i \in DOMAIN s : s[i] \in ToSet(u) BY <1>1, <1>4 DEF ToSet
  <2>2. \A i \in DOMAIN t : t[i] \in ToSet(u) BY <1>1, <1>5 DEF ToSet
  <2>3. \A i \in DOMAIN u : u[i] \in ToSet(s) \cup ToSet(t) BY <1>1, <1>3
  <2> QED BY <2>1, <2>2, <2>3 DEF ToSet
<1>7. ASSUME IsInjective(s), IsInjective(t), ToSet(s) \cap ToSet(t) = {} PROVE IsInjective(u)
  <2>1. \A i \in DOMAIN s, j \in DOMAIN t : s[i] # t[j] BY <1>7 DEF ToSet
  <2>2. ASSUME NEW i \in 1..Len(u), NEW j \in 1..Len(u), u[i] = u[j] PROVE i = j
    <3>1. CASE i <= Len(s) /\ j <= Len(s)
      BY <3>1, <2>2, <1>1, <1>2, <1>7 DEF IsInjective
    <3>2. CASE ~ (i <= Len(s)) /\ ~ (j <= Len(s))
      <4>1. i - Len(s) \in DOMAIN t /\ j - Len(s) \in DOMAIN t BY <3>2, <1>1
      <4>2. t[i - Len(s)] = t[j - Len(s)] BY <3>2, <2>2, <1>2
      <4>3. i - Len(s) = j - Len(s) BY <4>1, <4>2, <1>7 DEF IsInjective
      <4> QED BY <4>3, <1>1
    <3>3. CASE i <= Len(s) /\ ~ (j <= Len(s))
      <4>1. i \in DOMAIN s /\ j - Len(s) \in DOMAIN t BY <3>3, <1>1
      <4> QED BY <4>1, <2>1, <2>2, <3>3, <1>2
    <3>4. CASE ~ (i <= Len(s)) /\ j <= Len(s)
      <4>1. j \in DOMAIN s /\ i - Len(s) \in DOMAIN t BY <3>4, <1>1
      <4> QED BY <4>1, <2>1, <2>2, <3>4, <1>2
    <3> QED BY <3>1, <3>2, <3>3, <3>4
  <2> QED BY <2>2, <1>1 DEF IsInjective
<1> QED BY <1>1, <1>6, <1>7 DEF u

LEMMA ListsCount ==
  ASSUME NEW S, NEW s \in Seq(S), IsInjective(s)
  PROVE  IsFiniteSet(ToSet(s)) /\ Len(s) = Cardinality(ToSet(s))
<1>1. Len(s) \in Nat /\ DOMAIN s = 1..Len(s) /\ s \in [1..Len(s) -> S]
  BY LenProperties
<1>2. s \in Bijection(1..Len(s), ToSet(s))
  BY <1>1 DEF Bijection, Injection, Surjection, IsInjective, ToSet
<1>3. ExistsBijection(1..Len(s), ToSet(s))
  BY <1>2 DEF ExistsBijection
<1> QED BY <1>1, <1>3, FS_NatBijection, FS_CountingElements

LEMMA RotatesList ==
  ASSUME NEW S, NEW s \in Seq(S), NEW off \in 0..Len(s)
  PROVE  LET t == Rotate(s, off)
         IN  /\ t \in Seq(S) /\ Len(t) = Len(s)
             /\ \A i \in 1..Len(s) - off : t[i] = s[off + i]
             /\ ToSet(t) = ToSet(s)
             /\ IsInjective(s) => IsInjective(t)
<1> DEFINE a == SubSeq(s, off + 1, Len(s))
           b == SubSeq(s, 1, off)
           t == Rotate(s, off)
<1>1. Len(s) \in Nat /\ DOMAIN s = 1..Len(s) /\ \A i \in 1..Len(s) : s[i] \in S
  BY LenProperties, ElementOfSeq
<1>0. Len(s) \in Nat /\ off \in Nat /\ off <= Len(s)
  BY <1>1
<1>2. a \in Seq(S) /\ Len(a) = Len(s) - off /\ \A i \in 1..Len(s) - off : a[i] = s[off + i]
  <2>1. /\ a \in Seq(S) /\ Len(a) = IF off + 1 <= Len(s) THEN Len(s) - (off + 1) + 1 ELSE 0
        /\ \A i \in 1..Len(s) - (off + 1) + 1 : a[i] = s[(off + 1) + i - 1]
    BY <1>1, SubSeqProperties
  <2>2. \A i \in 1..Len(s) - off : (off + 1) + i - 1 = off + i
    OBVIOUS
  <2>3. Len(s) - (off + 1) + 1 = Len(s) - off
    BY <1>1
  <2>4. Len(a) = Len(s) - off
    <3>0. Len(a) = IF off + 1 <= Len(s) THEN Len(s) - (off + 1) + 1 ELSE 0
      BY <2>1
    <3> HIDE DEF a
    <3>1. CASE off + 1 <= Len(s) BY <3>1, <3>0, <1>0
    <3>2. CASE ~ (off + 1 <= Len(s))
      <4>1. off = Len(s) BY <3>2, <1>0
      <4> QED BY <3>2, <4>1, <1>0, <3>0
    <3> QED BY <3>1, <3>2
  <2> HIDE DEF a
  <2>5. \A i \in 1..Len(s) - off : a[i] = s[off + i]
    BY <2>1, <2>2, <2>3
  <2> QED BY <2>1, <2>4, <2>5
<1>3. b \in Seq(S) /\ Len(b) = off /\ \A i \in 1..off : b[i] = s[i]
  <2>1. /\ b \in Seq(S) /\ Len(b) = IF 1 <= off THEN off - 1 + 1 ELSE 0
        /\ \A i \in 1..off - 1 + 1 : b[i] = s[1 + i - 1]
    BY <1>1, SubSeqProperties
  <2> HIDE DEF b
  <2> QED BY <1>1, <2>1
<1>4. t = a \o b
  BY DEF Rotate
<1> HIDE DEF a, b, t
<1>5. DOMAIN a = 1..Len(s) - off /\ DOMAIN b = 1..off
  BY <1>2, <1>3, LenProperties
<1>6. ToSet(a) \cup ToSet(b) = ToSet(s)
  <2>1. \A i \in DOMAIN a : a[i] \in ToSet(s)
    BY <1>1, <1>2, <1>5 DEF ToSet
  <2>2. \A i \in DOMAIN b : b[i] \in ToSet(s)
    BY <1>1, <1>3, <1>5 DEF ToSet
  <2>3. ASSUME NEW i \in DOMAIN s PROVE s[i] \in ToSet(a) \cup ToSet(b)
    <3>1. CASE i <= off BY <3>1, <1>1, <1>3, <1>5 DEF ToSet
    <3>2. CASE ~ (i <= off)
      <4>1. i - off \in DOMAIN a /\ off + (i - off) = i BY <3>2, <1>1, <1>5
      <4>2. a[i - off] = s[i] BY <4>1, <1>2, <1>5
      <4> QED BY <4>1, <4>2 DEF ToSet
    <3> QED BY <3>1, <3>2
  <2> QED BY <2>1, <2>2, <2>3 DEF ToSet
<1>7. ASSUME IsInjective(s) PROVE IsInjective(a) /\ IsInjective(b) /\ ToSet(a) \cap ToSet(b) = {}
  <2>1. \A i, j \in 1..Len(s) : s[i] = s[j] => i = j BY <1>1, <1>7 DEF IsInjective
  <2>2. ASSUME NEW i \in DOMAIN a PROVE off + i \in 1..Len(s) /\ a[i] = s[off + i]
    BY <1>1, <1>2, <1>5
  <2>3. ASSUME NEW i \in DOMAIN b PROVE i \in 1..Len(s) /\ b[i] = s[i]
    BY <1>1, <1>3, <1>5
  <2>4. IsInjective(a)
    <3>1. ASSUME NEW i \in DOMAIN a, NEW j \in DOMAIN a, a[i] = a[j] PROVE i = j
      <4>1. off + i = off + j BY <3>1, <2>1, <2>2
      <4> QED BY <4>1, <1>5
    <3> QED BY <3>1 DEF IsInjective
  <2>5. IsInjective(b)
    <3>1. ASSUME NEW i \in DOMAIN b, NEW j \in DOMAIN b, b[i] = b[j] PROVE i = j
      BY <3>1, <2>1, <2>3
    <3> QED BY <3>1 DEF IsInjective
  <2>6. ASSUME NEW i \in DOMAIN a, NEW j \in DOMAIN b PROVE a[i] # b[j]
    <3>1. off + i # j BY <1>5
    <3> QED BY <3>1, <2>1, <2>2, <2>3
  <2> QED BY <2>4, <2>5, <2>6 DEF ToSet
<1>8. /\ t \in Seq(S) /\ Len(t) = Len(a) + Len(b)
      /\ ToSet(t) = ToSet(a) \cup ToSet(b)
      /\ IsInjective(a) /\ IsInjective(b) /\ ToSet(a) \cap ToSet(b) = {} => IsInjective(t)
  BY <1>2, <1>3, <1>4, ConcatLists
<1>9. \A i \in 1..Len(s) - off : t[i] = s[off + i]
  <2>1. SUFFICES ASSUME NEW i \in 1..Len(s) - off PROVE t[i] = s[off + i]
    OBVIOUS
  <2>2. i \in 1..Len(a) + Len(b) /\ i <= Len(a) BY <1>1, <1>2, <1>3
  <2>3. t[i] = a[i] BY <2>2, <1>2, <1>3, <1>4, ConcatProperties
  <2> QED BY <2>3, <1>2
<1>10. Len(t) = Len(s)
  BY <1>1, <1>2, <1>3, <1>8
<1> QED BY <1>6, <1>7, <1>8, <1>9, <1>10 DEF t

-----------------------------------------------------------------------------
(***************************************************************************)
(* The inductive invariant.                                                *)
(***************************************************************************)
Typed ==
  /\ strategy \in Strategies
  /\ flatPool \in BOOLEAN
  /\ rrCursor \in Nat
  /\ healthy \in SUBSET Workers
  /\ backend \in [Workers -> {"hw", "sw"}]
  /\ gpuLoad \in [Workers -> GpuLoads]
  /\ reported \in [Workers -> SUBSET Dispatches]
  /\ fresh \in [Workers -> SUBSET Dispatches]
  /\ phase \in [Dispatches -> Phases]
  /\ unsplit \in [Dispatches -> Seq(Workers)]
  /\ tier \in [Dispatches -> [1..2 -> Seq(Workers)]]
  /\ place \in [Dispatches -> [tier : 1..2, insert : Nat, at : Nat]]
  /\ tried \in [Dispatches -> Nat]
  /\ rr \in [Dispatches -> Nat]
  /\ listed \in [Dispatches -> SUBSET Workers]
  /\ probes \in 0..MaxProbes

Bounds(d) ==
  /\ tried[d] \in 0..Len(order(d))
  /\ phase[d] \in {"posting", "streaming"} => tried[d] > 0
  /\ strategy = "round-robin" /\ phase[d] \in {"sorting", "trying"} => rr[d] > 0

\* Where a dispatch is says what its variables hold.
Stage(d) ==
  /\ phase[d] \in {"new", "drawing", "splitting", "sorting"} => tried[d] = 0
  /\ phase[d] # "sorting" => place[d] = Start(1)
  /\ phase[d] \in {"new", "drawing", "ended"} => tier[d] = NoTiers
  /\ phase[d] = "splitting" => unsplit[d] # << >>
  /\ phase[d] \notin {"drawing", "splitting"} => unsplit[d] = << >>
  /\ strategy = "round-robin" /\ phase[d] \notin {"new", "drawing", "ended"} => rr[d] > 0

\* The sort is inside the tier, or at its end.
Placed(d) ==
  LET p == place[d]
  IN  /\ p.at \in 2..p.insert
      /\ p.at = p.insert \/ p.insert <= Len(tier[d][p.tier])

\* What is left to split and the two tiers list the fleet between them.
Listing(d) ==
  /\ IsInjective(unsplit[d]) /\ IsInjective(tier[d][1]) /\ IsInjective(tier[d][2])
  /\ ToSet(unsplit[d]) \cap ToSet(tier[d][1]) = {}
  /\ ToSet(unsplit[d]) \cap ToSet(tier[d][2]) = {}
  /\ ToSet(tier[d][1]) \cap ToSet(tier[d][2]) = {}
  /\ ToSet(unsplit[d]) \cup ToSet(tier[d][1]) \cup ToSet(tier[d][2]) = listed[d]

\* The tiers that are in order.
OrderedTiers(d) ==
  CASE phase[d] = "sorting" -> 1..place[d].tier - 1
    [] phase[d] \in {"trying", "posting", "streaming"} -> 1..2
    [] OTHER -> {}

RotatedSoFar(d) ==
  strategy = "round-robin" =>
    \A k \in OrderedTiers(d) : tier[d][k] = rotated(d, ToSet(tier[d][k]))

\* All that is said of one dispatch, but for the loads.
Local(d) ==
  /\ Bounds(d)
  /\ Stage(d)
  /\ phase[d] = "sorting" => Placed(d)
  /\ Listing(d)
  /\ RotatedSoFar(d)

LEMMA TypeParts ==
  TypeOK <=> Typed /\ missed \in [Dispatches -> Nat] /\ \A d \in Dispatches : Bounds(d)
BY DEF TypeOK, Typed, Bounds

LEMMA Parts ==
  ASSUME Typed, NEW d \in Dispatches
  PROVE  /\ phase[d] \in Phases /\ unsplit[d] \in Seq(Workers)
         /\ tier[d] \in [1..2 -> Seq(Workers)]
         /\ tier[d][1] \in Seq(Workers) /\ tier[d][2] \in Seq(Workers)
         /\ order(d) \in Seq(Workers) /\ Len(order(d)) \in Nat
         /\ tried[d] \in Nat /\ rr[d] \in Nat /\ listed[d] \in SUBSET Workers
         /\ place[d] \in [tier : 1..2, insert : Nat, at : Nat]
<1>1. tier[d] \in [1..2 -> Seq(Workers)]
  BY DEF Typed
<1>2. tier[d][1] \in Seq(Workers) /\ tier[d][2] \in Seq(Workers)
  BY <1>1
<1>3. order(d) \in Seq(Workers) /\ Len(order(d)) \in Nat
  BY <1>2, ConcatProperties, LenProperties DEF order
<1> QED BY <1>1, <1>2, <1>3 DEF Typed

-----------------------------------------------------------------------------
(***************************************************************************)
(* A step of one dispatch.                                                 *)
(***************************************************************************)
LEMMA NothingListed ==
  /\ << >> \in Seq(Workers) /\ Len(<< >>) = 0
  /\ ToSet(<< >>) = {} /\ IsInjective(<< >>)
  /\ \A s \in Seq(Workers) : ToSet(s) = {} => s = << >>
  /\ NoTiers \in [1..2 -> Seq(Workers)] /\ NoTiers[1] = << >> /\ NoTiers[2] = << >>
<1>1. << >> \in Seq(Workers) /\ Len(<< >>) = 0
  BY EmptySeq
<1>2. DOMAIN << >> = 1..0
  BY <1>1, LenProperties
<1>3. ToSet(<< >>) = {} /\ IsInjective(<< >>)
  BY <1>2 DEF ToSet, IsInjective
<1>4. ASSUME NEW s \in Seq(Workers), ToSet(s) = {} PROVE s = << >>
  <2>1. SUFFICES ASSUME s # << >> PROVE FALSE
    OBVIOUS
  <2>2. Head(s) \in ToSet(s)
    BY <2>1, TailLists
  <2> QED BY <2>2, <1>4
<1> QED BY <1>1, <1>3, <1>4 DEF NoTiers

LEMMA OrdersList ==
  ASSUME NEW S \in SUBSET Workers, NEW ws \in Orders(S)
  PROVE  ws \in Seq(Workers) /\ IsInjective(ws) /\ ToSet(ws) = S
<1>1. IsFiniteSet(S) /\ S \subseteq Nat
  BY WorkersAssumption, FS_Subset
<1>2. ws \in SetToSeqs(S)
  BY <1>1, SortedExists DEF Orders
<1>3. ws \in Seq(S) /\ IsInjective(ws) /\ ToSet(ws) = S
  BY <1>1, <1>2, SequencesOf
<1> QED BY <1>3, SeqMonotonic

LEMMA ListsLocal ==
  ASSUME Typed, NEW d \in Dispatches, Local(d), Lists(d)
  PROVE  Typed' /\ Local(d)'
<1>1. PICK ws \in Orders(healthy) : unsplit' = [unsplit EXCEPT ![d] = ws]
  BY DEF Lists
<1>2. ws \in Seq(Workers) /\ IsInjective(ws) /\ ToSet(ws) = healthy
  BY OrdersList DEF Typed
<1>3. phase' = [phase EXCEPT ![d] = IF strategy = "round-robin" THEN "drawing" ELSE Drawn(healthy)]
  BY DEF Lists, Moves
<1>4. phase[d] = "new" /\ tier[d] = NoTiers /\ tried[d] = 0 /\ place[d] = Start(1)
  BY DEF Lists, Moves, Local, Stage
<1>5. Typed'
  <2>1. phase' \in [Dispatches -> Phases]
    BY <1>3 DEF Typed, Drawn, Phases
  <2>2. unsplit' \in [Dispatches -> Seq(Workers)] /\ listed' \in [Dispatches -> SUBSET Workers]
    BY <1>1, <1>2 DEF Lists, Typed
  <2> QED BY <2>1, <2>2 DEF Lists, Typed, entries
<1>6. /\ phase'[d] = IF strategy = "round-robin" THEN "drawing" ELSE Drawn(healthy)
      /\ unsplit'[d] = ws /\ listed'[d] = healthy
      /\ tier'[d] = NoTiers /\ tried'[d] = 0 /\ place'[d] = Start(1) /\ strategy' = strategy
  BY <1>1, <1>3, <1>4 DEF Typed, Lists
<1>7. Bounds(d)'
  <2>1. Len(order(d)') \in Nat
    BY <1>5, Parts
  <2> QED BY <1>6, <2>1 DEF Bounds, Drawn
<1>8. Stage(d)'
  <2>1. phase'[d] = "splitting" => ws # << >>
    BY <1>6, <1>2, NothingListed DEF Drawn
  <2>2. phase'[d] \notin {"drawing", "splitting"} => ws = << >>
    BY <1>6, <1>2, NothingListed DEF Drawn
  <2>3. strategy = "round-robin" => phase'[d] = "drawing"
    BY <1>6
  <2> QED BY <1>6, <2>1, <2>2, <2>3 DEF Stage, Drawn
<1>9. Listing(d)'
  BY <1>6, <1>2, NothingListed DEF Listing
<1>10. RotatedSoFar(d)' /\ phase'[d] # "sorting"
  BY <1>6 DEF RotatedSoFar, OrderedTiers, Drawn
<1> QED BY <1>5, <1>7, <1>8, <1>9, <1>10 DEF Local

LEMMA SortedLists ==
  ASSUME NEW S \in SUBSET Workers
  PROVE  /\ IsFiniteSet(S) /\ Cardinality(S) \in Nat
         /\ Sorted(S) \in Seq(Workers) /\ Len(Sorted(S)) = Cardinality(S)
         /\ IsInjective(Sorted(S)) /\ ToSet(Sorted(S)) = S
         /\ \A i, j \in 1..Cardinality(S) : i < j => Sorted(S)[i] < Sorted(S)[j]
<1>1. IsFiniteSet(S) /\ S \subseteq Nat /\ Cardinality(S) \in Nat
  BY WorkersAssumption, FS_Subset, FS_CardinalityType
<1>2. /\ Sorted(S) \in Seq(S) /\ Len(Sorted(S)) = Cardinality(S)
      /\ IsInjective(Sorted(S)) /\ ToSet(Sorted(S)) = S
  BY <1>1, SortedExists, SequencesOf
<1> QED BY <1>1, <1>2, SortedExists, SeqMonotonic

LEMMA RotatedNothing == Rotate(Sorted({}), 0) = << >> /\ \A d : rotated(d, {}) = << >>
<1>1. Sorted({}) \in Seq(Workers) /\ ToSet(Sorted({})) = {} /\ Len(Sorted({})) \in Nat
  BY SortedLists
<1>2. Rotate(Sorted({}), 0) \in Seq(Workers) /\ ToSet(Rotate(Sorted({}), 0)) = {}
  BY <1>1, RotatesList
<1> QED BY <1>2, NothingListed DEF rotated

LEMMA RotatedLists ==
  ASSUME NEW d, rr[d] \in Nat \ {0}, NEW S \in SUBSET Workers
  PROVE  /\ rotated(d, S) \in Seq(Workers) /\ IsInjective(rotated(d, S))
         /\ ToSet(rotated(d, S)) = S
         /\ S # {} => /\ Cardinality(S) \in Nat \ {0}
                      /\ offset(d, Cardinality(S)) \in 0..Cardinality(S) - 1
                      /\ rotated(d, S)[1] = Sorted(S)[offset(d, Cardinality(S)) + 1]
<1>1. CASE S = {}
  BY <1>1, RotatedNothing, NothingListed
<1>2. CASE S # {}
  <2>1. /\ Sorted(S) \in Seq(Workers) /\ Len(Sorted(S)) = Cardinality(S)
        /\ IsInjective(Sorted(S)) /\ ToSet(Sorted(S)) = S
        /\ Cardinality(S) \in Nat \ {0}
    BY <1>2, SortedLists, FS_EmptySet
  <2> DEFINE n == Cardinality(S)
             off == offset(d, n)
  <2>2. off \in 0..n - 1
    BY <2>1 DEF offset
  <2>3. off \in 0..Len(Sorted(S)) /\ 1 \in 1..n - off
    BY <2>1, <2>2
  <2>4. rotated(d, S) = Rotate(Sorted(S), off)
    BY <1>2 DEF rotated
  <2> HIDE DEF off
  <2>5. /\ rotated(d, S) \in Seq(Workers) /\ IsInjective(rotated(d, S))
        /\ ToSet(rotated(d, S)) = S
        /\ \A i \in 1..Len(Sorted(S)) - off : rotated(d, S)[i] = Sorted(S)[off + i]
    BY <2>1, <2>3, <2>4, RotatesList
  <2>6. rotated(d, S)[1] = Sorted(S)[off + 1]
    BY <2>1, <2>3, <2>5
  <2> QED BY <2>1, <2>2, <2>5, <2>6 DEF off
<1> QED BY <1>1, <1>2

LEMMA DrawsLocal ==
  ASSUME Typed, NEW d \in Dispatches, Local(d), Draws(d)
  PROVE  Typed' /\ Local(d)'
<1>1. /\ phase[d] = "drawing" /\ tier[d] = NoTiers /\ tried[d] = 0 /\ place[d] = Start(1)
      /\ phase' = [phase EXCEPT ![d] = Drawn(listed[d])]
      /\ rrCursor' = rrCursor + 1 /\ rr' = [rr EXCEPT ![d] = rrCursor']
      /\ UNCHANGED << strategy, flatPool, entries, unsplit, tier, place, tried, listed, probes >>
  BY DEF Draws, Moves, Local, Stage
<1>2. rrCursor' \in Nat /\ rrCursor' > 0
  BY <1>1 DEF Typed
<1>3. Typed'
  BY <1>1, <1>2 DEF Typed, entries, Drawn, Phases
<1>4. /\ phase'[d] = Drawn(listed[d]) /\ rr'[d] > 0
      /\ unsplit'[d] = unsplit[d] /\ listed'[d] = listed[d]
      /\ tier'[d] = NoTiers /\ tried'[d] = 0 /\ place'[d] = Start(1) /\ strategy' = strategy
  BY <1>1, <1>2 DEF Typed
<1>5. ToSet(unsplit[d]) = listed[d] /\ IsInjective(unsplit[d]) /\ unsplit[d] \in Seq(Workers)
  BY <1>1, NothingListed, Parts DEF Local, Listing
<1>6. /\ phase'[d] = "splitting" => unsplit[d] # << >>
      /\ phase'[d] # "splitting" => phase'[d] = "trying" /\ unsplit[d] = << >>
  BY <1>4, <1>5, NothingListed DEF Drawn
<1>7. Bounds(d)'
  <2>1. Len(order(d)') \in Nat
    BY <1>4, NothingListed, ConcatProperties DEF order
  <2> QED BY <1>4, <1>6, <2>1 DEF Bounds
<1>8. Stage(d)' /\ phase'[d] # "sorting"
  BY <1>4, <1>6 DEF Stage
<1>9. Listing(d)'
  BY <1>4, <1>5, NothingListed DEF Listing
<1>10. RotatedSoFar(d)'
  <2>1. CASE phase'[d] = "splitting"
    BY <2>1 DEF RotatedSoFar, OrderedTiers
  <2>2. CASE phase'[d] = "trying"
    <3>1. ASSUME NEW k \in 1..2
          PROVE  tier'[d][k] = << >> /\ rotated(d, ToSet(tier[d][k]))' = << >>
      <4>1. tier'[d][k] = << >> /\ ToSet(tier'[d][k]) = {}
        BY <1>4, NothingListed
      <4>2. rotated(d, ToSet(tier[d][k]))' = Rotate(Sorted({}), 0)
        BY <4>1 DEF rotated
      <4> QED BY <4>1, <4>2, RotatedNothing
    <3> QED BY <2>2, <3>1 DEF RotatedSoFar, OrderedTiers
  <2> QED BY <2>1, <2>2, <1>6
<1> QED BY <1>3, <1>7, <1>8, <1>9, <1>10 DEF Local

LEMMA SplitsLocal ==
  ASSUME Typed, NEW d \in Dispatches, Local(d), Splits(d)
  PROVE  Typed' /\ Local(d)'
<1> DEFINE w == Head(unsplit[d])
           k == IF flatPool \/ backend[w] = "hw" THEN 1 ELSE 2
<1>1. /\ phase[d] = "splitting" /\ unsplit[d] # << >> /\ tried[d] = 0 /\ place[d] = Start(1)
      /\ strategy = "round-robin" => rr[d] > 0
  BY DEF Splits, TakesNext, Local, Stage
<1>2. /\ unsplit' = [unsplit EXCEPT ![d] = Tail(@)]
      /\ phase' = [phase EXCEPT ![d] = IF Len(unsplit[d]) = 1 THEN "sorting" ELSE @]
      /\ tier' = [tier EXCEPT ![d][k] = Append(@, w)]
      /\ UNCHANGED << strategy, flatPool, rrCursor, entries, rr, place, tried, listed, probes >>
  BY DEF Splits, TakesNext
<1>3. k \in 1..2
  OBVIOUS
<1> HIDE DEF k
<1>4. /\ unsplit[d] \in Seq(Workers) /\ w \in ToSet(unsplit[d]) /\ Tail(unsplit[d]) \in Seq(Workers)
      /\ Len(Tail(unsplit[d])) = Len(unsplit[d]) - 1 /\ Len(unsplit[d]) \in Nat
      /\ ToSet(unsplit[d]) = ToSet(Tail(unsplit[d])) \cup {w}
      /\ IsInjective(Tail(unsplit[d])) /\ w \notin ToSet(Tail(unsplit[d]))
      /\ ToSet(unsplit[d]) \subseteq listed[d] /\ w \in Workers
  BY <1>1, Parts, TailLists, LenProperties DEF Local, Listing
<1>5. tier[d][k] \in Seq(Workers)
  BY <1>3, Parts
<1>6. /\ Append(tier[d][k], w) \in Seq(Workers)
      /\ ToSet(Append(tier[d][k], w)) = ToSet(tier[d][k]) \cup {w}
      /\ IsInjective(tier[d][k]) /\ w \notin ToSet(tier[d][k]) => IsInjective(Append(tier[d][k], w))
  BY <1>4, <1>5, AppendLists
<1>7. Typed'
  <2>1. tier' \in [Dispatches -> [1..2 -> Seq(Workers)]]
    BY <1>2, <1>3, <1>6 DEF Typed
  <2>2. unsplit' \in [Dispatches -> Seq(Workers)] /\ phase' \in [Dispatches -> Phases]
    BY <1>2, <1>4 DEF Typed, Phases
  <2> QED BY <2>1, <2>2, <1>2 DEF Typed, entries
<1>8. /\ phase'[d] = IF Len(unsplit[d]) = 1 THEN "sorting" ELSE "splitting"
      /\ unsplit'[d] = Tail(unsplit[d]) /\ listed'[d] = listed[d]
      /\ tier'[d][k] = Append(tier[d][k], w)
      /\ tier'[d][3 - k] = tier[d][3 - k]
      /\ tried'[d] = 0 /\ place'[d] = Start(1) /\ strategy' = strategy /\ rr'[d] = rr[d]
  <2>1. /\ tier \in [Dispatches -> [1..2 -> Seq(Workers)]]
        /\ phase \in [Dispatches -> Phases] /\ unsplit \in [Dispatches -> Seq(Workers)]
    BY DEF Typed
  <2>2. tier'[d][k] = Append(tier[d][k], w) /\ tier'[d][3 - k] = tier[d][3 - k]
    BY <1>2, <1>3, <2>1
  <2>3. phase'[d] = (IF Len(unsplit[d]) = 1 THEN "sorting" ELSE "splitting")
    BY <1>1, <1>2, <2>1, SMTT(30)
  <2>5. unsplit'[d] = Tail(unsplit[d])
    BY <1>2, <2>1, SMTT(30)
  <2>4. /\ listed'[d] = listed[d] /\ strategy' = strategy /\ rr'[d] = rr[d]
        /\ tried'[d] = 0 /\ place'[d] = Start(1)
    BY <1>1, <1>2
  <2> QED BY <2>2, <2>3, <2>4, <2>5
<1>9. Bounds(d)'
  <2>1. tier'[d][1] \in Seq(Workers) /\ tier'[d][2] \in Seq(Workers)
    <3>1. tier' \in [Dispatches -> [1..2 -> Seq(Workers)]]
      BY <1>7 DEF Typed
    <3> QED BY <3>1
  <2>2. Len(order(d)') \in Nat
    BY <2>1, ConcatProperties, LenProperties DEF order
  <2> QED BY <2>2, <1>1, <1>8 DEF Bounds
<1>10. Stage(d)'
  <2>1. Len(unsplit[d]) = 1 <=> Tail(unsplit[d]) = << >>
    <3>1. Tail(unsplit[d]) = << >> => Len(Tail(unsplit[d])) = 0
      BY NothingListed
    <3>2. Len(Tail(unsplit[d])) = 0 => Tail(unsplit[d]) = << >>
      BY <1>4, EmptySeq
    <3> QED BY <3>1, <3>2, <1>4
  <2> QED BY <2>1, <1>1, <1>8 DEF Stage
<1>11. Listing(d)'
  <2>1. w \notin ToSet(tier[d][1]) /\ w \notin ToSet(tier[d][2])
    BY <1>4 DEF Local, Listing
  <2>2. CASE k = 1
    BY <2>1, <2>2, <1>4, <1>6, <1>8 DEF Local, Listing
  <2>3. CASE k = 2
    BY <2>1, <2>3, <1>4, <1>6, <1>8 DEF Local, Listing
  <2> QED BY <2>2, <2>3, <1>3
<1>12. phase'[d] = "sorting" => Placed(d)'
  BY <1>8 DEF Placed, Start
<1>13. RotatedSoFar(d)'
  BY <1>8 DEF RotatedSoFar, OrderedTiers, Start
<1> QED BY <1>7, <1>9, <1>10, <1>11, <1>12, <1>13 DEF Local

\* The tier is put in order, and holds the same workers.
LEMMA OrdersATier ==
  ASSUME Typed, NEW d \in Dispatches, Local(d), phase[d] = "sorting",
         NEW k \in 1..2, k = place[d].tier,
         NEW ws \in Seq(Workers), IsInjective(ws), ToSet(ws) = ToSet(tier[d][k]),
         strategy = "round-robin" => ws = rotated(d, ToSet(tier[d][k])),
         tier' = [tier EXCEPT ![d][k] = ws], TierOrdered(d),
         UNCHANGED << strategy, flatPool, rrCursor, entries, unsplit, rr, tried, listed, probes >>
  PROVE  Typed' /\ Local(d)'
<1>1. /\ unsplit[d] = << >> /\ tried[d] = 0
      /\ strategy = "round-robin" => rr[d] > 0
  BY DEF Local, Stage
<1>2. /\ place' = [place EXCEPT ![d] = Start(IF k = 1 THEN 2 ELSE 1)]
      /\ phase' = [phase EXCEPT ![d] = IF k = 1 THEN "sorting" ELSE "trying"]
  BY DEF TierOrdered, Typed
<1>3. Typed'
  <2>1. tier' \in [Dispatches -> [1..2 -> Seq(Workers)]]
    BY DEF Typed
  <2>2. place' \in [Dispatches -> [tier : 1..2, insert : Nat, at : Nat]] /\ phase' \in [Dispatches -> Phases]
    BY <1>2 DEF Typed, Phases, Start
  <2> QED BY <2>1, <2>2 DEF Typed, entries
<1>4. /\ phase'[d] = IF k = 1 THEN "sorting" ELSE "trying"
      /\ place'[d] = Start(IF k = 1 THEN 2 ELSE 1)
      /\ unsplit'[d] = << >> /\ listed'[d] = listed[d]
      /\ tier'[d][k] = ws /\ tier'[d][3 - k] = tier[d][3 - k]
      /\ tried'[d] = 0 /\ strategy' = strategy /\ rr'[d] = rr[d]
  BY <1>1, <1>2 DEF Typed
<1>5. Bounds(d)'
  <2>1. tier'[d][1] \in Seq(Workers) /\ tier'[d][2] \in Seq(Workers)
    BY <1>3 DEF Typed
  <2>2. Len(order(d)') \in Nat
    BY <2>1, ConcatProperties, LenProperties DEF order
  <2> QED BY <2>2, <1>1, <1>4 DEF Bounds
<1>6. Stage(d)'
  BY <1>1, <1>4 DEF Stage, Start
<1>7. Listing(d)'
  <2>1. CASE k = 1
    BY <2>1, <1>1, <1>4 DEF Local, Listing
  <2>2. CASE k = 2
    BY <2>2, <1>1, <1>4 DEF Local, Listing
  <2> QED BY <2>1, <2>2
<1>8. phase'[d] = "sorting" => Placed(d)'
  BY <1>4 DEF Placed, Start
<1>9. RotatedSoFar(d)'
  <2>1. SUFFICES ASSUME strategy = "round-robin", NEW i \in OrderedTiers(d)'
                 PROVE  (tier[d][i] = rotated(d, ToSet(tier[d][i])))'
    BY <1>4 DEF RotatedSoFar
  <2>2. i \in 1..k
    BY <1>4 DEF OrderedTiers, Start
  <2>3. CASE i = k
    <3>1. tier'[d][k] = rotated(d, ToSet(tier'[d][k]))
      BY <2>1, <1>4
    <3> QED BY <2>3, <3>1, <1>4 DEF rotated, offset
  <2>4. CASE i # k
    <3>1. i = 1 /\ k = 2 /\ tier'[d][1] = tier[d][1]
      BY <2>2, <2>4, <1>4
    <3>2. tier[d][1] = rotated(d, ToSet(tier[d][1]))
      BY <2>1, <3>1 DEF Local, RotatedSoFar, OrderedTiers
    <3> QED BY <3>1, <3>2, <1>4 DEF rotated, offset
  <2> QED BY <2>3, <2>4
<1> QED BY <1>3, <1>5, <1>6, <1>7, <1>8, <1>9 DEF Local

LEMMA OrdersLocal ==
  ASSUME Typed, NEW d \in Dispatches, Local(d), HasSorted(d) \/ Rotates(d) \/ Shuffles(d)
  PROVE  Typed' /\ Local(d)'
<1> DEFINE k == place[d].tier
<1>1. k \in 1..2
  BY Parts
<1>2. /\ phase[d] = "sorting" /\ TierOrdered(d)
      /\ UNCHANGED << strategy, flatPool, rrCursor, entries, unsplit, rr, tried, listed, probes >>
  BY DEF HasSorted, Rotates, Shuffles
<1>3. /\ tier[d][k] \in Seq(Workers) /\ IsInjective(tier[d][k])
      /\ ToSet(tier[d][k]) \in SUBSET Workers
  <2>1. tier[d][k] \in Seq(Workers) /\ IsInjective(tier[d][k])
    BY <1>1, Parts DEF Local, Listing
  <2>2. \A i \in DOMAIN tier[d][k] : tier[d][k][i] \in Workers
    BY <2>1, LenProperties, ElementOfSeq
  <2> QED BY <2>1, <2>2 DEF ToSet
<1>4. CASE HasSorted(d)
  <2>1. tier' = [tier EXCEPT ![d][k] = tier[d][k]] /\ strategy # "round-robin"
    BY <1>4 DEF HasSorted, Compared, Typed
  <2> HIDE DEF k
  <2> QED BY <1>1, <1>2, <1>3, <2>1, OrdersATier DEF k
<1>5. CASE Rotates(d)
  <2>1. /\ tier' = [tier EXCEPT ![d][k] = rotated(d, ToSet(tier[d][k]))]
        /\ strategy = "round-robin" /\ rr[d] \in Nat \ {0}
    BY <1>5, Parts DEF Rotates, Local, Stage
  <2>2. /\ rotated(d, ToSet(tier[d][k])) \in Seq(Workers)
        /\ IsInjective(rotated(d, ToSet(tier[d][k])))
        /\ ToSet(rotated(d, ToSet(tier[d][k]))) = ToSet(tier[d][k])
    BY <1>3, <2>1, RotatedLists
  <2> HIDE DEF k
  <2> QED BY <1>1, <1>2, <2>1, <2>2, OrdersATier DEF k
<1>6. CASE Shuffles(d)
  <2>1. PICK ws \in SetToSeqs(ToSet(tier[d][k])) : tier' = [tier EXCEPT ![d][k] = ws]
    BY <1>6 DEF Shuffles
  <2>2. IsFiniteSet(ToSet(tier[d][k]))
    BY <1>3, WorkersAssumption, FS_Subset
  <2>3. ws \in Seq(ToSet(tier[d][k])) /\ IsInjective(ws) /\ ToSet(ws) = ToSet(tier[d][k])
    BY <2>2, SequencesOf
  <2>4. ws \in Seq(Workers) /\ strategy # "round-robin"
    BY <1>3, <1>6, <2>3, SeqMonotonic DEF Shuffles
  <2> HIDE DEF k
  <2> QED BY <1>1, <1>2, <2>1, <2>3, <2>4, OrdersATier DEF k
<1> QED BY <1>4, <1>5, <1>6

LEMMA ComparesLocal ==
  ASSUME Typed, NEW d \in Dispatches, Local(d), Compares(d)
  PROVE  Typed' /\ Local(d)'
<1> DEFINE k == place[d].tier
           a == place[d].at
           n == place[d].insert
           ws == tier[d][k]
           swaps == Less(ws[a], ws[a - 1])
           swapped == [ws EXCEPT ![a] = ws[a - 1], ![a - 1] = ws[a]]
           after == IF swaps THEN swapped ELSE ws
           next == IF swaps /\ a > 2 THEN [place[d] EXCEPT !.at = a - 1]
                                     ELSE [place[d] EXCEPT !.insert = n + 1, !.at = n + 1]
<1>1. /\ phase[d] = "sorting" /\ Compared /\ n <= Len(ws)
      /\ tier' = [tier EXCEPT ![d][k] = after]
      /\ place' = [place EXCEPT ![d] = next]
      /\ UNCHANGED << strategy, flatPool, rrCursor, entries, phase, unsplit, rr, tried, listed,
                      probes >>
  <2>1. tier' = [tier EXCEPT ![d][k] = after]
    BY DEF Compares
  <2>2. place' = [place EXCEPT ![d] = next]
    BY DEF Compares
  <2>3. n <= Len(ws)
    BY DEF Compares
  <2> QED BY <2>1, <2>2, <2>3 DEF Compares
<1>2. /\ k \in 1..2 /\ a \in 2..n /\ a \in Nat /\ n \in Nat
      /\ ws \in Seq(Workers) /\ Len(ws) \in Nat /\ a \in 2..Len(ws)
  <2>1. k \in 1..2 /\ a \in Nat /\ n \in Nat
    BY Parts
  <2>2. a \in 2..n
    BY <1>1 DEF Local, Placed
  <2>3. ws \in Seq(Workers) /\ Len(ws) \in Nat
    BY <2>1, Parts, LenProperties
  <2> HIDE DEF ws, k, a, n, after, next
  <2> QED BY <1>1, <2>1, <2>2, <2>3
<1>3. /\ after \in Seq(Workers) /\ ToSet(after) = ToSet(ws) /\ Len(after) = Len(ws)
      /\ IsInjective(ws) => IsInjective(after)
  <2> HIDE DEF ws, a
  <2>1. /\ swapped \in Seq(Workers) /\ ToSet(swapped) = ToSet(ws) /\ Len(swapped) = Len(ws)
        /\ IsInjective(ws) => IsInjective(swapped)
    BY <1>2, SwapLists
  <2> QED BY <1>2, <2>1
<1>4. next \in [tier : 1..2, insert : Nat, at : Nat] /\ next.tier = k
  <2>1. place[d] \in [tier : 1..2, insert : Nat, at : Nat]
    BY Parts
  <2>2. CASE swaps /\ a > 2
    <3>1. a - 1 \in Nat
      BY <1>2, <2>2
    <3> QED BY <2>1, <2>2, <3>1
  <2>3. CASE ~ (swaps /\ a > 2)
    <3>1. n + 1 \in Nat
      BY <1>2
    <3> QED BY <2>1, <2>3, <3>1
  <2> QED BY <2>2, <2>3
<1>5. Typed'
  <2> HIDE DEF after, next, k
  <2>1. tier' \in [Dispatches -> [1..2 -> Seq(Workers)]]
    BY <1>1, <1>2, <1>3 DEF Typed
  <2>2. place' \in [Dispatches -> [tier : 1..2, insert : Nat, at : Nat]]
    BY <1>1, <1>4 DEF Typed
  <2> QED BY <1>1, <2>1, <2>2 DEF Typed, entries
<1>6. /\ tier'[d][k] = after /\ tier'[d][3 - k] = tier[d][3 - k] /\ place'[d] = next
      /\ phase'[d] = "sorting" /\ unsplit'[d] = unsplit[d] /\ listed'[d] = listed[d]
      /\ tried'[d] = tried[d] /\ strategy' = strategy /\ rr'[d] = rr[d]
  <2> HIDE DEF after, next, k
  <2>1. /\ tier \in [Dispatches -> [1..2 -> Seq(Workers)]]
        /\ place \in [Dispatches -> [tier : 1..2, insert : Nat, at : Nat]]
    BY DEF Typed
  <2>2. tier'[d][k] = after /\ tier'[d][3 - k] = tier[d][3 - k]
    BY <1>1, <1>2, <2>1
  <2>3. place'[d] = next
    BY <1>1, <2>1
  <2> QED BY <1>1, <2>2, <2>3
<1>7. Bounds(d)'
  <2>1. tier'[d][1] \in Seq(Workers) /\ tier'[d][2] \in Seq(Workers)
    <3>1. tier' \in [Dispatches -> [1..2 -> Seq(Workers)]]
      BY <1>5 DEF Typed
    <3> QED BY <3>1
  <2>2. Len(order(d)') \in Nat
    BY <2>1, ConcatProperties, LenProperties DEF order
  <2>3. tried[d] = 0
    BY <1>1 DEF Local, Stage
  <2>4. strategy = "round-robin" => rr[d] > 0
    BY <1>1 DEF Local, Bounds
  <2> HIDE DEF after, next, k
  <2>5. tried'[d] \in 0..Len(order(d)')
    BY <2>2, <2>3, <1>6
  <2> QED BY <2>4, <2>5, <1>6 DEF Bounds
<1>8. Stage(d)'
  BY <1>1, <1>6 DEF Stage, Local
<1>9. Placed(d)'
  <2>1. place'[d].tier = k /\ Len(tier'[d][place'[d].tier]) = Len(ws)
    <3> HIDE DEF next, after, ws, k
    <3> QED BY <1>3, <1>4, <1>6
  <2>2. CASE swaps /\ a > 2
    <3>1. place'[d].at = a - 1 /\ place'[d].insert = n
      BY <2>2, <1>6, Parts
    <3> HIDE DEF ws
    <3> QED BY <3>1, <2>1, <2>2, <1>1, <1>2 DEF Placed
  <2>3. CASE ~ (swaps /\ a > 2)
    <3>1. place'[d].at = n + 1 /\ place'[d].insert = n + 1
      BY <2>3, <1>6, Parts
    <3> HIDE DEF ws
    <3> QED BY <3>1, <1>2 DEF Placed
  <2> QED BY <2>2, <2>3
<1>10. Listing(d)'
  <2> HIDE DEF after, next
  <2>1. CASE k = 1
    BY <2>1, <1>3, <1>6 DEF Local, Listing
  <2>2. CASE k = 2
    BY <2>2, <1>3, <1>6 DEF Local, Listing
  <2> QED BY <2>1, <2>2, <1>2
<1>11. RotatedSoFar(d)'
  BY <1>1 DEF RotatedSoFar, Compared
<1> QED BY <1>5, <1>7, <1>8, <1>9, <1>10, <1>11 DEF Local

\* Once the fleet is ranked, the attempts move phase and tried.
LEMMA AttemptLocal ==
  ASSUME Typed, NEW d \in Dispatches, Local(d),
         phase[d] \in {"trying", "posting", "streaming"},
         NEW to \in {"trying", "posting", "streaming"}, NEW n \in 0..Len(order(d)),
         to # "trying" => n > 0,
         phase' = [phase EXCEPT ![d] = to], tried' = [tried EXCEPT ![d] = n],
         healthy' \in SUBSET Workers, fresh' \in [Workers -> SUBSET Dispatches],
         UNCHANGED << Others, ranking >>
  PROVE  Typed' /\ Local(d)'
<1>1. n \in Nat
  BY Parts
<1>2. Typed'
  BY <1>1 DEF Typed, Others, ranking, Phases
<1>3. /\ phase'[d] = to /\ tried'[d] = n
      /\ UNCHANGED << strategy, unsplit, tier, rr, place, listed >>
  BY DEF Typed, Others, ranking
<1>4. order(d)' = order(d)
  BY <1>3 DEF order
<1>5. strategy = "round-robin" => rr[d] > 0
  BY DEF Local, Stage
<1>6. Bounds(d)'
  BY <1>3, <1>4, <1>5 DEF Bounds
<1>7. Stage(d)'
  BY <1>3, <1>5 DEF Stage, Local
<1>8. Listing(d)'
  BY <1>3 DEF Listing, Local
<1>9. RotatedSoFar(d)'
  BY <1>3 DEF RotatedSoFar, OrderedTiers, Local, rotated, offset
<1> QED BY <1>2, <1>3, <1>6, <1>7, <1>8, <1>9 DEF Local

LEMMA AttemptsLocal ==
  ASSUME Typed, NEW d \in Dispatches, Local(d),
         begin(d) \/ Refuses(d) \/ Unreachable(d) \/ Accepts(d)
  PROVE  Typed' /\ Local(d)'
<1>1. tried[d] \in 0..Len(order(d)) /\ tried[d] \in Nat /\ Len(order(d)) \in Nat
  BY Parts DEF Local, Bounds
<1>2. CASE begin(d)
  <2>1. tried[d] + 1 \in 0..Len(order(d)) /\ tried[d] + 1 > 0
    BY <1>1, <1>2 DEF begin
  <2>2. /\ phase[d] = "trying" /\ phase' = [phase EXCEPT ![d] = "posting"]
        /\ tried' = [tried EXCEPT ![d] = tried[d] + 1]
        /\ UNCHANGED << Others, ranking, healthy, fresh >>
    BY <1>2 DEF begin, Moves
  <2>3. healthy' \in SUBSET Workers /\ fresh' \in [Workers -> SUBSET Dispatches]
    BY <2>2 DEF Typed
  <2> QED BY <2>1, <2>2, <2>3, AttemptLocal
<1>3. CASE Refuses(d) \/ Unreachable(d) \/ Accepts(d)
  <2>1. /\ phase[d] = "posting"
        /\ \E to \in {"trying", "streaming"} : phase' = [phase EXCEPT ![d] = to]
        /\ tried' = [tried EXCEPT ![d] = tried[d]]
        /\ UNCHANGED << Others, ranking >>
    BY <1>3 DEF Refuses, Unreachable, Accepts, Moves, Typed
  <2>2. tried[d] > 0
    BY <2>1 DEF Local, Bounds
  <2>3. healthy' \in SUBSET Workers
    BY <1>3 DEF Refuses, Unreachable, Accepts, Typed
  <2>4. fresh' \in [Workers -> SUBSET Dispatches]
    BY <1>3 DEF Refuses, Unreachable, Accepts, Typed
  <2> QED BY <1>1, <2>1, <2>2, <2>3, <2>4, AttemptLocal
<1> QED BY <1>2, <1>3

LEMMA ReturnsLocal ==
  ASSUME Typed, NEW d \in Dispatches, Local(d), AllAtCapacity(d) \/ Ends(d)
  PROVE  Typed' /\ Local(d)'
<1>1. \E from \in {"trying", "streaming"} : Returns(d, from)
  BY DEF AllAtCapacity, Ends
<1>2. /\ phase[d] \in {"trying", "streaming"} /\ phase' = [phase EXCEPT ![d] = "ended"]
      /\ tier' = [tier EXCEPT ![d] = NoTiers] /\ rr' = [rr EXCEPT ![d] = 0]
      /\ tried' = [tried EXCEPT ![d] = 0] /\ listed' = [listed EXCEPT ![d] = {}]
      /\ UNCHANGED << unsplit, place >>
  BY <1>1 DEF Returns, Moves
<1>3. /\ UNCHANGED Others /\ healthy' \in SUBSET Workers /\ fresh' \in [Workers -> SUBSET Dispatches]
  <2>1. CASE AllAtCapacity(d)
    BY <2>1 DEF AllAtCapacity, Typed
  <2>2. CASE Ends(d)
    <3>1. healthy' \in SUBSET Workers
      BY <2>2 DEF Ends, Typed
    <3>2. fresh' \in [Workers -> SUBSET Dispatches]
      BY <2>2 DEF Ends, Typed
    <3> QED BY <2>2, <3>1, <3>2 DEF Ends
  <2> QED BY <2>1, <2>2
<1>4. Typed'
  <2>1. tier' \in [Dispatches -> [1..2 -> Seq(Workers)]]
    BY <1>2, NothingListed DEF Typed
  <2> QED BY <1>2, <1>3, <2>1 DEF Typed, Others, Phases
<1>5. /\ phase'[d] = "ended" /\ tier'[d] = NoTiers /\ tried'[d] = 0 /\ listed'[d] = {}
      /\ unsplit'[d] = << >> /\ place'[d] = Start(1) /\ strategy' = strategy
  BY <1>2, <1>3 DEF Typed, Local, Stage, Others
<1>6. Bounds(d)'
  <2>1. Len(order(d)') \in Nat
    BY <1>5, NothingListed, ConcatProperties DEF order
  <2> QED BY <1>5, <2>1 DEF Bounds
<1>7. Stage(d)'
  BY <1>5 DEF Stage
<1>8. Listing(d)'
  BY <1>5, NothingListed DEF Listing
<1>9. RotatedSoFar(d)'
  BY <1>5 DEF RotatedSoFar, OrderedTiers
<1> QED BY <1>4, <1>5, <1>6, <1>7, <1>8, <1>9 DEF Local

LEMMA DispatchLocal ==
  ASSUME Typed, NEW d \in Dispatches, Local(d), Dispatch(d)
  PROVE  Typed' /\ Local(d)'
BY ListsLocal, DrawsLocal, SplitsLocal, ComparesLocal, OrdersLocal, AttemptsLocal, ReturnsLocal
   DEF Dispatch

-----------------------------------------------------------------------------
(***************************************************************************)
(* The other dispatches, and the steps that are not of a dispatch.         *)
(***************************************************************************)
Row(d) == << phase[d], unsplit[d], tier[d], rr[d], place[d], tried[d], listed[d] >>

LEMMA RowDecides ==
  ASSUME NEW d, Local(d), Row(d)' = Row(d), strategy' = strategy
  PROVE  Local(d)'
<1>1. /\ phase'[d] = phase[d] /\ unsplit'[d] = unsplit[d] /\ tier'[d] = tier[d] /\ rr'[d] = rr[d]
      /\ place'[d] = place[d] /\ tried'[d] = tried[d] /\ listed'[d] = listed[d]
  BY DEF Row
<1>2. order(d)' = order(d)
  BY <1>1 DEF order
<1>3. Bounds(d)'
  BY <1>1, <1>2 DEF Bounds, Local
<1>4. Stage(d)'
  BY <1>1 DEF Stage, Local
<1>5. Listing(d)'
  BY <1>1 DEF Listing, Local
<1>6. phase'[d] = "sorting" => Placed(d)'
  BY <1>1 DEF Placed, Local
<1>7. RotatedSoFar(d)'
  BY <1>1 DEF RotatedSoFar, OrderedTiers, rotated, offset, Local
<1> QED BY <1>3, <1>4, <1>5, <1>6, <1>7 DEF Local

LEMMA OthersKept ==
  ASSUME Typed, NEW d \in Dispatches, Dispatch(d), NEW e \in Dispatches, e # d
  PROVE  Row(e)' = Row(e) /\ strategy' = strategy
<1> USE DEF Typed, Row, ranking, Moves
<1>1. CASE Lists(d)
  BY <1>1 DEF Lists
<1>2. CASE Draws(d)
  BY <1>2 DEF Draws
<1>3. CASE Splits(d)
  BY <1>3 DEF Splits, TakesNext
<1>4. CASE Compares(d)
  BY <1>4 DEF Compares
<1>5. CASE HasSorted(d)
  BY <1>5 DEF HasSorted, TierOrdered
<1>6. CASE Rotates(d)
  BY <1>6 DEF Rotates, TierOrdered
<1>7. CASE Shuffles(d)
  BY <1>7 DEF Shuffles, TierOrdered
<1>8. CASE begin(d)
  BY <1>8 DEF begin, Others
<1>9. CASE AllAtCapacity(d)
  BY <1>9 DEF AllAtCapacity, Returns, Others
<1>10. CASE Refuses(d) \/ Unreachable(d) \/ Accepts(d)
  BY <1>10 DEF Refuses, Unreachable, Accepts, Others
<1>11. CASE Ends(d)
  BY <1>11 DEF Ends, Returns, Others
<1> QED BY <1>1, <1>2, <1>3, <1>4, <1>5, <1>6, <1>7, <1>8, <1>9, <1>10, <1>11 DEF Dispatch

LEMMA ElsewhereKept ==
  ASSUME Typed, (\E w \in Workers : probeWorker(w)) \/ waitForRecoveryWorker
  PROVE  /\ Typed' /\ strategy' = strategy
         /\ UNCHANGED << phase, unsplit, tier, rr, place, tried, listed >>
<1>1. ASSUME NEW w \in Workers, probeWorker(w)
      PROVE  /\ Typed' /\ strategy' = strategy
             /\ UNCHANGED << phase, unsplit, tier, rr, place, tried, listed >>
  <2>1. UNCHANGED << strategy, flatPool, rrCursor, ranking, phase, tried >> /\ probes' \in 0..MaxProbes
    BY <1>1, BoundsAssumption DEF probeWorker, Typed
  <2>2. healthy' \in SUBSET Workers
    BY <1>1 DEF probeWorker, Typed
  <2>3. backend' \in [Workers -> {"hw", "sw"}]
    BY <1>1 DEF probeWorker, Typed
  <2>4. gpuLoad' \in [Workers -> GpuLoads]
    <3>1. PICK g \in IF strategy = "load" THEN GpuLoads ELSE {gpuLoad[w]} :
             gpuLoad' = [gpuLoad EXCEPT ![w] = g]
      BY <1>1 DEF probeWorker
    <3>2. g \in GpuLoads
      BY <3>1 DEF Typed
    <3> QED BY <3>1, <3>2 DEF Typed
  <2>5. reported' \in [Workers -> SUBSET Dispatches]
    BY <1>1 DEF probeWorker, Typed, On
  <2>6. fresh' \in [Workers -> SUBSET Dispatches]
    BY <1>1 DEF probeWorker, Typed
  <2> QED BY <2>1, <2>2, <2>3, <2>4, <2>5, <2>6 DEF Typed, ranking
<1>2. CASE waitForRecoveryWorker
  BY <1>2 DEF waitForRecoveryWorker, Typed, entries, ranking
<1> QED BY <1>1, <1>2

LEMMA LocalStep ==
  ASSUME Typed, \A d \in Dispatches : Local(d), Step
  PROVE  Typed' /\ (\A d \in Dispatches : Local(d)') /\ strategy' = strategy
<1>1. ASSUME NEW d \in Dispatches, Dispatch(d)
      PROVE  Typed' /\ (\A e \in Dispatches : Local(e)') /\ strategy' = strategy
  <2>1. Typed' /\ Local(d)'
    BY <1>1, DispatchLocal
  <2>2. \A e \in Dispatches \ {d} : Local(e)'
    BY <1>1, OthersKept, RowDecides
  <2>3. strategy' = strategy
    BY <1>1 DEF Dispatch, Lists, Draws, Splits, TakesNext, Compares, HasSorted, Rotates, Shuffles,
                begin, AllAtCapacity, Refuses, Unreachable, Accepts, Ends, Others
  <2> QED BY <2>1, <2>2, <2>3
<1>2. CASE (\E w \in Workers : probeWorker(w)) \/ waitForRecoveryWorker
  <2>1. /\ Typed' /\ strategy' = strategy
        /\ UNCHANGED << phase, unsplit, tier, rr, place, tried, listed >>
    BY <1>2, ElsewhereKept
  <2>2. \A e \in Dispatches : Row(e)' = Row(e)
    BY <2>1 DEF Row
  <2> QED BY <2>1, <2>2, RowDecides
<1> QED BY <1>1, <1>2 DEF Step

-----------------------------------------------------------------------------
(***************************************************************************)
(* What is missed is a number.                                             *)
(***************************************************************************)
LEMMA CountsAreNumbers ==
  ASSUME NEW A \in SUBSET Dispatches
  PROVE  IsFiniteSet(A) /\ Cardinality(A) \in Nat
BY DispatchesAssumption, FS_Subset, FS_CardinalityType

LEMMA SessionsAreNumbers ==
  ASSUME NEW w \in Workers
  PROVE  /\ Typed => sessions(w) \in Nat
         /\ Typed' => sessions(w)' \in Nat
<1>1. /\ Cardinality(On(w, {"posting"})) \in Nat
      /\ Cardinality(On(w, {"posting"})') \in Nat
  BY CountsAreNumbers DEF On
<1>2. ASSUME Typed PROVE sessions(w) \in Nat
  <2>1. Cardinality(reported[w]) \in Nat /\ Cardinality(fresh[w]) \in Nat
    BY <1>2, CountsAreNumbers DEF Typed
  <2> QED BY <1>1, <2>1 DEF sessions
<1>3. ASSUME Typed' PROVE sessions(w)' \in Nat
  <2>1. Cardinality(reported'[w]) \in Nat /\ Cardinality(fresh'[w]) \in Nat
    BY <1>3, CountsAreNumbers DEF Typed
  <2> QED BY <1>1, <2>1 DEF sessions
<1> QED BY <1>2, <1>3

LEMMA ChangeIsANumber ==
  ASSUME Typed, Typed'
  PROVE  Change \in Nat
<1> DEFINE drifts == {Distance(sessions(w), sessions(w)') : w \in Workers} \ {0}
<1>1. ASSUME NEW n \in drifts PROVE n \in Nat
  BY SessionsAreNumbers DEF Distance
<1>2. drifts # {} => (CHOOSE n \in drifts : TRUE) \in Nat
  <2> HIDE DEF drifts
  <2> QED BY <1>1
<1>3. Change = CASE strategy = "load" -> IF \E w \in Workers : load(w)' # load(w) THEN 1 ELSE 0
                 [] strategy # "load" /\ drifts = {} -> 0
                 [] OTHER -> CHOOSE n \in drifts : TRUE
  BY DEF Change
<1> HIDE DEF drifts
<1> QED BY <1>2, <1>3

LEMMA MissedStep ==
  ASSUME Typed, Typed', missed \in [Dispatches -> Nat], Notes
  PROVE  missed' \in [Dispatches -> Nat]
<1>1. Change \in Nat
  BY ChangeIsANumber
<1> QED BY <1>1 DEF Notes

-----------------------------------------------------------------------------
(***************************************************************************)
(* Every worker listed is ranked, and once.                                *)
(***************************************************************************)
IInv == Typed /\ missed \in [Dispatches -> Nat] /\ \A d \in Dispatches : Local(d)

LEMMA IInvInit == Init => IInv
<1> SUFFICES ASSUME Init PROVE IInv
  OBVIOUS
<1>1. Typed
  BY GpuLoadsAssumption, FirstBackendAssumption, BoundsAssumption, NothingListed
     DEF Init, Typed, Phases, Start
<1>2. ASSUME NEW d \in Dispatches PROVE Local(d)
  <2>1. /\ phase[d] = "new" /\ unsplit[d] = << >> /\ tier[d] = NoTiers /\ tried[d] = 0
        /\ place[d] = Start(1) /\ listed[d] = {}
    BY DEF Init
  <2>2. Len(order(d)) \in Nat
    BY <1>1, Parts
  <2>3. Bounds(d)
    BY <2>1, <2>2 DEF Bounds
  <2>4. Stage(d)
    BY <2>1 DEF Stage
  <2>5. Listing(d)
    BY <2>1, NothingListed DEF Listing
  <2>6. RotatedSoFar(d)
    BY <2>1 DEF RotatedSoFar, OrderedTiers
  <2> QED BY <2>1, <2>3, <2>4, <2>5, <2>6 DEF Local
<1> QED BY <1>1, <1>2 DEF IInv, Init

LEMMA IInvStep == IInv /\ [Next]_vars => IInv'
<1> SUFFICES ASSUME IInv, [Next]_vars PROVE IInv'
  OBVIOUS
<1>1. CASE Next
  BY <1>1, LocalStep, MissedStep DEF IInv, Next
<1>2. CASE UNCHANGED vars
  <2>1. Typed'
    BY <1>2 DEF vars, entries, ranking, IInv, Typed
  <2>2. \A d \in Dispatches : Row(d)' = Row(d)
    BY <1>2 DEF vars, entries, ranking, Row
  <2>3. strategy' = strategy /\ missed' = missed
    BY <1>2 DEF vars
  <2> QED BY <2>1, <2>2, <2>3, RowDecides DEF IInv
<1> QED BY <1>1, <1>2

LEMMA InductiveInvariant == Spec => []IInv
<1>1. Init => IInv
  BY IInvInit
<1>2. IInv /\ [Next]_vars => IInv'
  BY IInvStep
<1> QED BY <1>1, <1>2, PTL DEF Spec

\* Scheduling: however backends and loads change while a fleet is split and sorted,
\* every worker listed is in the order once (schedule, main.go:557-598), whatever the
\* fleet and however many dispatches rank it at once.
THEOREM RankedOnce == Spec => []EachOnce
<1>1. ASSUME IInv PROVE EachOnce
  <2>1. TypeOK
    BY <1>1, TypeParts DEF IInv, Local
  <2>2. ASSUME NEW d \in Dispatches, Ranked(d)
        PROVE  ToSet(order(d)) = listed[d] /\ Len(order(d)) = Cardinality(listed[d])
    <3>1. tier[d][1] \in Seq(Workers) /\ tier[d][2] \in Seq(Workers) /\ Listing(d)
      BY <1>1, Parts DEF IInv, Local
    <3>2. unsplit[d] = << >>
      BY <1>1, <2>2 DEF IInv, Local, Stage, Ranked
    <3>3. /\ IsInjective(tier[d][1]) /\ IsInjective(tier[d][2])
          /\ ToSet(tier[d][1]) \cap ToSet(tier[d][2]) = {}
          /\ ToSet(tier[d][1]) \cup ToSet(tier[d][2]) = listed[d]
      BY <3>1, <3>2, NothingListed DEF Listing
    <3>4. order(d) \in Seq(Workers) /\ IsInjective(order(d)) /\ ToSet(order(d)) = listed[d]
      <4> DEFINE s == tier[d][1]
                 t == tier[d][2]
      <4>1. s \in Seq(Workers) /\ t \in Seq(Workers) /\ IsInjective(s) /\ IsInjective(t)
            /\ ToSet(s) \cap ToSet(t) = {} /\ ToSet(s) \cup ToSet(t) = listed[d]
        BY <3>1, <3>3
      <4> HIDE DEF s, t
      <4>2. /\ s \o t \in Seq(Workers) /\ ToSet(s \o t) = ToSet(s) \cup ToSet(t)
            /\ IsInjective(s) /\ IsInjective(t) /\ ToSet(s) \cap ToSet(t) = {}
                 => IsInjective(s \o t)
        <5>1. s \in Seq(Workers) /\ t \in Seq(Workers)
          BY <4>1
        <5> QED BY ONLY <5>1, ConcatLists
      <4>3. order(d) = s \o t
        BY DEF order, s, t
      <4> QED BY <4>1, <4>2, <4>3
    <3> QED BY <3>4, ListsCount
  <2> QED BY <2>1, <2>2 DEF EachOnce
<1> QED BY <1>1, InductiveInvariant, PTL

-----------------------------------------------------------------------------
(***************************************************************************)
(* Successive dispatches start on successive workers.                      *)
(***************************************************************************)
LEMMA FirstOfConcat ==
  ASSUME NEW S, NEW s \in Seq(S), NEW t \in Seq(S)
  PROVE  /\ s = << >> => s \o t = t
         /\ s # << >> => (s \o t)[1] = s[1]
<1>1. s = << >> => s \o t = t
  BY ConcatEmptySeq
<1>2. ASSUME s # << >> PROVE (s \o t)[1] = s[1]
  <2> DEFINE m == Len(s)
             n == Len(t)
  <2>1. m \in Nat \ {0} /\ n \in Nat
    BY <1>2, EmptySeq, LenProperties
  <2>2. \A i \in 1..m + n : (s \o t)[i] = IF i <= m THEN s[i] ELSE t[i - m]
    BY ConcatProperties
  <2> HIDE DEF m, n
  <2>3. 1 \in 1..m + n /\ 1 <= m
    BY <2>1
  <2> QED BY <2>2, <2>3
<1> QED BY <1>1, <1>2

\* The first attempt is made in the first tier there is.
LEMMA FirstOfOrder ==
  ASSUME Typed, NEW d \in Dispatches, Peers(d) # {}
  PROVE  \E k \in 1..2 : /\ Peers(d) = ToSet(tier[d][k]) /\ tier[d][k] # << >>
                        /\ order(d)[1] = tier[d][k][1]
<1>1. tier[d][1] \in Seq(Workers) /\ tier[d][2] \in Seq(Workers)
  BY Parts
<1>2. CASE tier[d][1] = << >>
  <2>1. order(d) = tier[d][2] /\ Peers(d) = ToSet(tier[d][2])
    BY <1>1, <1>2, FirstOfConcat DEF Peers, order
  <2>2. tier[d][2] # << >>
    BY <2>1, NothingListed
  <2> QED BY <2>1, <2>2
<1>3. CASE tier[d][1] # << >>
  <2>1. order(d)[1] = tier[d][1][1] /\ Peers(d) = ToSet(tier[d][1])
    BY <1>1, <1>3, FirstOfConcat DEF Peers, order
  <2> QED BY <1>3, <2>1
<1> QED BY <1>2, <1>3

\* The first of a rotated tier, as an index in url order.
LEMMA FirstRotated ==
  ASSUME IInv, NEW d \in Dispatches, Ranked(d), strategy = "round-robin", Peers(d) # {}
  PROVE  /\ Peers(d) \in SUBSET Workers
         /\ Cardinality(Peers(d)) \in Nat \ {0} /\ rr[d] \in Nat \ {0}
         /\ offset(d, Cardinality(Peers(d))) \in 0..Cardinality(Peers(d)) - 1
         /\ order(d)[1] = Sorted(Peers(d))[offset(d, Cardinality(Peers(d))) + 1]
<1>1. /\ tier[d][1] \in Seq(Workers) /\ tier[d][2] \in Seq(Workers) /\ Local(d)
      /\ order(d) = tier[d][1] \o tier[d][2] /\ rr[d] \in Nat
  BY Parts DEF IInv, order
<1>2. rr[d] \in Nat \ {0}
  BY <1>1 DEF Local, Stage, Ranked
<1>3. PICK k \in 1..2 :
        /\ Peers(d) = ToSet(tier[d][k]) /\ tier[d][k] # << >>
        /\ order(d)[1] = tier[d][k][1]
  BY FirstOfOrder DEF IInv
<1>4. tier[d][k] = rotated(d, Peers(d))
  BY <1>1, <1>3 DEF Local, RotatedSoFar, OrderedTiers, Ranked
<1>5. Peers(d) \in SUBSET Workers
  <2>1. tier[d][k] \in Seq(Workers)
    BY <1>1
  <2>2. \A i \in DOMAIN tier[d][k] : tier[d][k][i] \in Workers
    BY <2>1, LenProperties, ElementOfSeq
  <2> QED BY <1>3, <2>2 DEF ToSet
<1> HIDE DEF Peers
<1> QED BY <1>2, <1>3, <1>4, <1>5, RotatedLists

\* The next residue.
LEMMA Multiple ==
  ASSUME NEW n \in Nat \ {0}, NEW t \in Int, n * t < n, -n < n * t
  PROVE  t = 0
<1>1. CASE t >= 1
  <2>1. n * t = n + n * (t - 1) OBVIOUS
  <2>2. n * (t - 1) >= 0 BY <1>1
  <2> QED BY <2>1, <2>2
<1>2. CASE t <= -1
  <2>1. n * t = n * (t + 1) - n OBVIOUS
  <2>2. n * (t + 1) <= 0 BY <1>2
  <2> QED BY <2>1, <2>2
<1> QED BY <1>1, <1>2

LEMMA Residue ==
  ASSUME NEW n \in Nat \ {0}, NEW b \in Int, NEW c \in 0..n - 1, NEW a \in Int, a = n * b + c
  PROVE  a % n = c
<1>1. a = n * (a \div n) + (a % n) /\ a % n \in 0..n-1 /\ a \div n \in Int
  OBVIOUS
<1> DEFINE t == (a \div n) - b
<1>2. n * t = n * (a \div n) - n * b
  BY <1>1
<1>3. n * t = c - (a % n)
  <2> DEFINE A == n * (a \div n)
             B == n * b
             m == a % n
             T == n * t
  <2>1. A \in Int /\ B \in Int /\ m \in Int /\ c \in Int /\ a = A + m /\ a = B + c /\ T = A - B
    BY <1>1, <1>2
  <2> HIDE DEF A, B, m, T
  <2>2. T = c - m
    BY <2>1
  <2> QED BY <2>2 DEF T, m
<1>4. t \in Int BY <1>1
<1>5. t = 0
  <2> HIDE DEF t
  <2>1. n * t < n /\ -n < n * t
    BY <1>1, <1>3
  <2> QED BY <1>4, <2>1, Multiple
<1> QED BY <1>1, <1>5

LEMMA NextOffset ==
  ASSUME NEW r \in Nat \ {0}, NEW n \in Nat \ {0}
  PROVE  (r + 1 - 1) % n = IF (r - 1) % n = n - 1 THEN 0 ELSE ((r - 1) % n) + 1
<1> DEFINE q == (r - 1) \div n
           m == (r - 1) % n
<1>1. q \in Int /\ m \in 0..n - 1 /\ r - 1 = n * q + m
  OBVIOUS
<1>0. n * q \in Int
  BY <1>1
<1> HIDE DEF q, m
<1>2. CASE m = n - 1
  <2>1. n * (q + 1) = n * q + n /\ q + 1 \in Int
    BY <1>1
  <2> DEFINE b == q + 1
  <2>2. r \in Int /\ b \in Int /\ r = n * b + 0 /\ 0 \in 0..n - 1
    BY <1>1, <1>2, <2>1
  <2> HIDE DEF b
  <2>3. r % n = 0
    BY <2>2, Residue
  <2> QED BY <1>2, <2>3 DEF m
<1>3. CASE m # n - 1
  <2>1. r = n * q + (m + 1) /\ m + 1 \in 0..n - 1
    <3> DEFINE A == n * q
    <3>1. A \in Int /\ r - 1 = A + m
      BY <1>0, <1>1
    <3> HIDE DEF A
    <3>2. r = A + (m + 1) /\ m + 1 \in 0..n - 1
      BY <3>1, <1>1, <1>3
    <3> QED BY <3>2 DEF A
  <2>2. r % n = m + 1
    BY <1>1, <2>1, Residue
  <2> QED BY <1>3, <2>2 DEF m
<1> QED BY <1>2, <1>3

\* Scheduling: dispatches that draw successive cursors over the same tier start on
\* successive workers of it, in url order and around, whatever the tier and whichever
\* of them gets there first (orderTier, main.go:611-612).
THEOREM AlwaysRotates == Spec => []Rotation
<1>1. ASSUME IInv PROVE Rotation
  <2>1. SUFFICES ASSUME NEW d \in Dispatches, NEW e \in Dispatches,
                        strategy = "round-robin", Ranked(d), Ranked(e),
                        rr[e] = rr[d] + 1, Peers(d) = Peers(e), Peers(d) # {}
                 PROVE  LET later == {w \in Peers(d) : w > order(d)[1]}
                        IN  order(e)[1] = CHOOSE w \in Peers(d) :
                              /\ later # {} => w \in later
                              /\ \A v \in IF later # {} THEN later ELSE Peers(d) : w <= v
    BY DEF Rotation
  <2> DEFINE P == Peers(d)
             n == Cardinality(P)
             s == Sorted(P)
             i == offset(d, n)
             j == offset(e, n)
             later == {w \in P : w > order(d)[1]}
             Next1(w) == /\ later # {} => w \in later
                         /\ \A v \in IF later # {} THEN later ELSE P : w <= v
  <2>2. /\ P \in SUBSET Workers /\ n \in Nat \ {0} /\ rr[d] \in Nat \ {0}
        /\ i \in 0..n - 1 /\ j \in 0..n - 1
        /\ order(d)[1] = s[i + 1] /\ order(e)[1] = s[j + 1]
    BY <1>1, <2>1, FirstRotated
  <2>3. j = IF i = n - 1 THEN 0 ELSE i + 1
    <3>1. (rr[d] + 1 - 1) % n = IF (rr[d] - 1) % n = n - 1 THEN 0 ELSE ((rr[d] - 1) % n) + 1
      BY <2>2, NextOffset
    <3>2. i = (rr[d] - 1) % n /\ j = (rr[d] + 1 - 1) % n
      <4>1. rr[e] = rr[d] + 1
        BY <2>1
      <4> HIDE DEF P, n
      <4>2. j = (rr[e] - 1) % n /\ i = (rr[d] - 1) % n
        BY DEF offset
      <4> HIDE DEF i, j
      <4> QED BY <4>1, <4>2, <2>2
    <3> HIDE DEF i, j, n
    <3> QED BY <3>1, <3>2
  <2>4. /\ s \in Seq(Workers) /\ Len(s) = n /\ ToSet(s) = P
        /\ \A a, b \in 1..n : a < b => s[a] < s[b]
        /\ P \subseteq Nat
    BY <2>2, SortedLists, WorkersAssumption
  <2> HIDE DEF P, n, s, i, j
  <2>5. /\ \A a \in 1..n : s[a] \in P /\ s[a] \in Nat
        /\ \A w \in P : \E a \in 1..n : w = s[a]
    <3>1. DOMAIN s = 1..n
      BY <2>4, LenProperties
    <3> QED BY <3>1, <2>4 DEF ToSet
  <2>6. i + 1 \in 1..n /\ j + 1 \in 1..n
    BY <2>2
  <2>7. \A a, b \in 1..n : a <= b => s[a] <= s[b]
    <3>1. SUFFICES ASSUME NEW a \in 1..n, NEW b \in 1..n, a <= b PROVE s[a] <= s[b]
      OBVIOUS
    <3>2. CASE a = b
      BY <3>2, <2>5
    <3>3. CASE a < b
      BY <3>3, <2>4, <2>5
    <3> QED BY <3>1, <3>2, <3>3, <2>2
  <2>8. later = {w \in P : w > s[i + 1]}
    BY <2>2
  <2>9. Next1(s[j + 1])
    <3>1. CASE i = n - 1
      <4>1. \A a \in 1..n : ~ (s[a] > s[i + 1])
        BY <3>1, <2>2, <2>5, <2>6, <2>7
      <4>2. later = {}
        BY <4>1, <2>5, <2>8
      <4>3. j + 1 = 1
        BY <3>1, <2>3
      <4>4. \A a \in 1..n : s[j + 1] <= s[a]
        BY <4>3, <2>2, <2>6, <2>7
      <4> QED BY <4>2, <4>4, <2>5
    <3>2. CASE i # n - 1
      <4>1. j + 1 = i + 2 /\ i + 1 < j + 1
        BY <3>2, <2>2, <2>3
      <4>2. s[j + 1] \in later
        BY <4>1, <2>4, <2>5, <2>6, <2>8
      <4>3. ASSUME NEW a \in 1..n, s[a] > s[i + 1] PROVE s[j + 1] <= s[a]
        <5>1. ~ (a <= i + 1)
          BY <4>3, <2>5, <2>6, <2>7
        <5>2. j + 1 <= a
          BY <5>1, <4>1, <2>2
        <5> QED BY <5>2, <2>6, <2>7
      <4> QED BY <4>2, <4>3, <2>5, <2>8
    <3> QED BY <3>1, <3>2
  <2>10. \A w \in P : Next1(w) => w = s[j + 1]
    <3>1. SUFFICES ASSUME NEW w \in P, Next1(w) PROVE w = s[j + 1]
      OBVIOUS
    <3>2. s[j + 1] \in IF later # {} THEN later ELSE P
      BY <2>9, <2>5, <2>6
    <3>3. w \in IF later # {} THEN later ELSE P
      BY <3>1
    <3>4. w <= s[j + 1] /\ s[j + 1] <= w
      BY <3>1, <3>2, <3>3, <2>9
    <3>5. w \in Nat /\ s[j + 1] \in Nat
      BY <2>4, <2>5, <2>6
    <3> QED BY <3>4, <3>5
  <2>11. s[j + 1] = CHOOSE w \in P : Next1(w)
    <3> HIDE DEF Next1, later
    <3> QED BY <2>5, <2>6, <2>9, <2>10
  <2> QED BY <2>2, <2>11 DEF P
<1> QED BY <1>1, InductiveInvariant, PTL

-----------------------------------------------------------------------------
(***************************************************************************)
(* One step changes the count of one worker.                               *)
(***************************************************************************)
\* A session is counted where it streams.
FreshIsHere ==
  \A w \in Workers : \A d \in fresh[w] : phase[d] = "streaming" /\ Current(d) = w

LEMMA RowCurrent ==
  ASSUME NEW d, Row(d)' = Row(d)
  PROVE  phase'[d] = phase[d] /\ Current(d)' = Current(d)
BY DEF Row, Current, order

\* What the steps do to phase, fresh and reported.
RankingStep(d) ==
  \/ Lists(d) \/ Draws(d) \/ Splits(d) \/ Compares(d) \/ HasSorted(d) \/ Rotates(d) \/ Shuffles(d)

LEMMA RankingCounts ==
  ASSUME Typed, NEW d \in Dispatches, RankingStep(d)
  PROVE  /\ phase[d] \in {"new", "drawing", "splitting", "sorting"}
         /\ phase'[d] \in {"drawing", "splitting", "sorting", "trying"}
         /\ UNCHANGED entries
<1> USE DEF Typed, Moves, Drawn
<1>1. CASE Lists(d)
  BY <1>1 DEF Lists
<1>2. CASE Draws(d)
  BY <1>2 DEF Draws
<1>3. CASE Splits(d)
  BY <1>3 DEF Splits, TakesNext
<1>4. CASE Compares(d)
  BY <1>4 DEF Compares
<1>5. CASE HasSorted(d)
  BY <1>5 DEF HasSorted, TierOrdered
<1>6. CASE Rotates(d)
  BY <1>6 DEF Rotates, TierOrdered
<1>7. CASE Shuffles(d)
  BY <1>7 DEF Shuffles, TierOrdered
<1> QED BY <1>1, <1>2, <1>3, <1>4, <1>5, <1>6, <1>7 DEF RankingStep

LEMMA AttemptCounts ==
  ASSUME Typed, NEW d \in Dispatches,
         begin(d) \/ Refuses(d) \/ Unreachable(d) \/ Accepts(d)
  PROVE  /\ phase[d] \in {"trying", "posting"} /\ phase'[d] \in {"trying", "posting", "streaming"}
         /\ phase[d] = "posting" => Current(d)' = Current(d) /\ phase'[d] # "posting"
         /\ fresh' = IF Accepts(d) THEN [fresh EXCEPT ![Current(d)] = @ \cup {d}] ELSE fresh
         /\ Accepts(d) => phase[d] = "posting" /\ phase'[d] = "streaming"
         /\ UNCHANGED << reported, tier, place >>
<1>1. CASE begin(d)
  BY <1>1 DEF begin, Moves, Typed, Others, ranking, Accepts
<1>2. CASE Refuses(d)
  BY <1>2 DEF Refuses, Moves, Typed, Others, ranking, Accepts, Current, order
<1>3. CASE Unreachable(d)
  BY <1>3 DEF Unreachable, Moves, Typed, Others, ranking, Accepts, Current, order
<1>4. CASE Accepts(d)
  BY <1>4 DEF Accepts, Moves, Typed, Others, ranking, Current, order
<1> QED BY <1>1, <1>2, <1>3, <1>4

LEMMA ReturnCounts ==
  ASSUME Typed, NEW d \in Dispatches, AllAtCapacity(d) \/ Ends(d)
  PROVE  /\ phase[d] \in {"trying", "streaming"} /\ phase'[d] = "ended"
         /\ fresh' = IF Ends(d) THEN [w \in Workers |-> fresh[w] \ {d}] ELSE fresh
         /\ phase[d] = "streaming" <=> Ends(d)
         /\ reported' = reported
<1>1. CASE AllAtCapacity(d)
  BY <1>1 DEF AllAtCapacity, Ends, Returns, Moves, Typed, Others
<1>2. CASE Ends(d)
  BY <1>2 DEF Ends, Returns, Moves, Typed, Others
<1> QED BY <1>1, <1>2

LEMMA FreshStep ==
  ASSUME Typed, FreshIsHere, Step
  PROVE  FreshIsHere'
<1>1. ASSUME NEW d \in Dispatches, Dispatch(d) PROVE FreshIsHere'
  <2>1. SUFFICES ASSUME NEW w \in Workers, NEW e \in fresh'[w]
                 PROVE  phase'[e] = "streaming" /\ Current(e)' = w
    BY DEF FreshIsHere
  <2>2. CASE RankingStep(d)
    <3>1. fresh'[w] = fresh[w] /\ phase[d] # "streaming"
      BY <2>2, RankingCounts DEF entries
    <3>2. e \in Dispatches /\ e # d /\ phase[e] = "streaming" /\ Current(e) = w
      BY <2>1, <3>1 DEF FreshIsHere, Typed
    <3>3. Row(e)' = Row(e)
      BY <1>1, <3>2, OthersKept
    <3> QED BY <3>2, <3>3, RowCurrent
  <2>3. CASE begin(d) \/ Refuses(d) \/ Unreachable(d) \/ Accepts(d)
    <3>1. CASE Accepts(d) /\ w = Current(d) /\ e = d
      BY <3>1, <2>3, AttemptCounts
    <3>2. CASE ~ (Accepts(d) /\ w = Current(d) /\ e = d)
      <4>1. e \in fresh[w] /\ phase[d] # "streaming"
        <5>1. /\ phase[d] # "streaming"
              /\ fresh' = IF Accepts(d) THEN [fresh EXCEPT ![Current(d)] = @ \cup {d}] ELSE fresh
          BY <2>3, AttemptCounts
        <5>2. e \in fresh'[w] /\ fresh \in [Workers -> SUBSET Dispatches]
          BY <2>1 DEF Typed
        <5> QED BY <5>1, <5>2, <3>2, SMTT(30)
      <4>2. e \in Dispatches /\ e # d /\ phase[e] = "streaming" /\ Current(e) = w
        BY <4>1 DEF FreshIsHere, Typed
      <4>3. Row(e)' = Row(e)
        BY <1>1, <4>2, OthersKept
      <4> QED BY <4>2, <4>3, RowCurrent
    <3> QED BY <3>1, <3>2
  <2>4. CASE AllAtCapacity(d) \/ Ends(d)
    <3>1. e \in fresh[w] /\ (Ends(d) => e # d) /\ (~ Ends(d) => phase[d] # "streaming")
      BY <2>1, <2>4, ReturnCounts
    <3>2. e \in Dispatches /\ e # d /\ phase[e] = "streaming" /\ Current(e) = w
      BY <3>1 DEF FreshIsHere, Typed
    <3>3. Row(e)' = Row(e)
      BY <1>1, <3>2, OthersKept
    <3> QED BY <3>2, <3>3, RowCurrent
  <2> QED BY <1>1, <2>2, <2>3, <2>4 DEF Dispatch, RankingStep
<1>2. CASE (\E w \in Workers : probeWorker(w)) \/ waitForRecoveryWorker
  <2>1. \A e : phase'[e] = phase[e] /\ Current(e)' = Current(e)
    BY <1>2, ElsewhereKept DEF Current, order
  <2>2. \A w \in Workers : fresh'[w] \subseteq fresh[w]
    BY <1>2 DEF probeWorker, waitForRecoveryWorker, entries, Typed
  <2> QED BY <2>1, <2>2 DEF FreshIsHere
<1> QED BY <1>1, <1>2 DEF Step

LEMMA PostingKept ==
  ASSUME NEW d, \A e \in Dispatches \ {d} : Row(e)' = Row(e), NEW w,
         phase[d] = "posting" => Current(d) # w,
         phase'[d] = "posting" => Current(d)' # w
  PROVE  On(w, {"posting"})' = On(w, {"posting"})
<1>1. ASSUME NEW e \in Dispatches
      PROVE  (phase'[e] = "posting" /\ Current(e)' = w) <=> (phase[e] = "posting" /\ Current(e) = w)
  <2>1. CASE e = d
    BY <2>1
  <2>2. CASE e # d
    BY <2>2, RowCurrent
  <2> QED BY <2>1, <2>2
<1>2. \A e : phase[e] \in {"posting"} <=> phase[e] = "posting"
  OBVIOUS
<1>3. \A e : phase'[e] \in {"posting"} <=> phase'[e] = "posting"
  OBVIOUS
<1>4. On(w, {"posting"})' = {e \in Dispatches : phase'[e] \in {"posting"} /\ Current(e)' = w}
  BY DEF On
<1>5. On(w, {"posting"}) = {e \in Dispatches : phase[e] \in {"posting"} /\ Current(e) = w}
  BY DEF On
<1> QED BY <1>1, <1>2, <1>3, <1>4, <1>5

Same(w) ==
  /\ reported'[w] = reported[w] /\ fresh'[w] = fresh[w]
  /\ On(w, {"posting"})' = On(w, {"posting"})

LEMMA OneMoves ==
  ASSUME Typed, FreshIsHere, Step
  PROVE  \E x : \A w \in Workers : w # x => sessions(w)' = sessions(w)
<1>1. ASSUME NEW w \in Workers, Same(w) PROVE sessions(w)' = sessions(w)
  BY <1>1 DEF Same, sessions
<1>2. ASSUME NEW d \in Dispatches, Dispatch(d)
      PROVE  \E x : \A w \in Workers : w # x => Same(w)
  <2>1. \A e \in Dispatches \ {d} : Row(e)' = Row(e)
    BY <1>2, OthersKept
  <2>2. CASE RankingStep(d)
    <3>1. /\ phase[d] # "posting" /\ phase'[d] # "posting"
          /\ reported' = reported /\ fresh' = fresh
      BY <2>2, RankingCounts DEF entries
    <3> QED BY <2>1, <3>1, PostingKept DEF Same
  <2>3. CASE begin(d) \/ Refuses(d) \/ Unreachable(d) \/ Accepts(d)
    <3>1. PICK x : x = Current(d)'
      OBVIOUS
    <3>2. ASSUME NEW w \in Workers, w # x PROVE Same(w)
      <4>1. phase[d] = "posting" => Current(d) # w
        BY <2>3, <3>1, <3>2, AttemptCounts
      <4>2. phase'[d] = "posting" => Current(d)' # w
        BY <3>1, <3>2
      <4>3. reported'[w] = reported[w] /\ fresh'[w] = fresh[w]
        BY <2>3, <3>1, <3>2, AttemptCounts DEF Typed
      <4> QED BY <2>1, <4>1, <4>2, <4>3, PostingKept DEF Same
    <3> QED BY <3>2
  <2>4. CASE AllAtCapacity(d) \/ Ends(d)
    <3>1. PICK x : x = Current(d)
      OBVIOUS
    <3>2. ASSUME NEW w \in Workers, w # x PROVE Same(w)
      <4>1. phase[d] # "posting" /\ phase'[d] # "posting" /\ reported' = reported
        BY <2>4, ReturnCounts
      <4>2. d \notin fresh[w]
        BY <3>1, <3>2 DEF FreshIsHere
      <4>3. fresh'[w] = fresh[w]
        BY <2>4, <4>2, ReturnCounts
      <4> QED BY <2>1, <4>1, <4>3, PostingKept DEF Same
    <3> QED BY <3>2
  <2> QED BY <1>2, <2>2, <2>3, <2>4 DEF Dispatch, RankingStep
<1>3. ASSUME (\E w \in Workers : probeWorker(w)) \/ waitForRecoveryWorker
      PROVE  \E x : \A w \in Workers : w # x => Same(w)
  <2>1. \A e \in Dispatches : phase'[e] = phase[e] /\ Current(e)' = Current(e)
    BY <1>3, ElsewhereKept DEF Current, order
  <2>2. \A w : On(w, {"posting"})' = On(w, {"posting"})
    BY <2>1 DEF On
  <2>3. CASE waitForRecoveryWorker
    BY <2>2, <2>3 DEF waitForRecoveryWorker, entries, Same
  <2>4. ASSUME NEW x \in Workers, probeWorker(x)
        PROVE  \A w \in Workers : w # x => Same(w)
    BY <2>2, <2>4 DEF probeWorker, Same, Typed
  <2> QED BY <1>3, <2>3, <2>4
<1> QED BY <1>1, <1>2, <1>3 DEF Step

-----------------------------------------------------------------------------
(***************************************************************************)
(* Comparing, and what a ranking misses.                                   *)
(***************************************************************************)
LEMMA Cross ==
  ASSUME NEW a \in Nat, NEW b \in Nat, NEW c \in Nat, a <= b
  PROVE  a * c <= b * c
<1>1. PICK e \in Nat : b = a + e
  <2>1. b - a \in Nat /\ b = a + (b - a)
    OBVIOUS
  <2> QED BY <2>1
<1>2. b * c = a * c + e * c /\ e * c \in Nat /\ a * c \in Nat
  BY <1>1
<1> QED BY <1>2

LEMMA Cancel ==
  ASSUME NEW a \in Nat, NEW b \in Nat, NEW c \in Nat \ {0}, a * c <= b * c
  PROVE  a <= b
<1>1. SUFFICES ASSUME b + 1 <= a PROVE FALSE
  OBVIOUS
<1>2. (b + 1) * c <= a * c
  BY <1>1, Cross
<1>3. (b + 1) * c = b * c + c /\ b * c \in Nat
  OBVIOUS
<1> QED BY <1>2, <1>3

\* Fractions compared crosswise are ordered.
LEMMA NotBelowTransitive ==
  ASSUME NEW f1 \in Nat, NEW f2 \in Nat \ {0}, NEW g1 \in Nat, NEW g2 \in Nat \ {0},
         NEW h1 \in Nat, NEW h2 \in Nat \ {0},
         g1 * f2 <= f1 * g2, h1 * g2 <= g1 * h2
  PROVE  h1 * f2 <= f1 * h2
<1>1. (g1 * f2) * h2 <= (f1 * g2) * h2
  BY Cross
<1>2. (h1 * g2) * f2 <= (g1 * h2) * f2
  BY Cross
<1>3. /\ (g1 * f2) * h2 = (g1 * h2) * f2
      /\ (f1 * g2) * h2 = (f1 * h2) * g2
      /\ (h1 * g2) * f2 = (h1 * f2) * g2
  OBVIOUS
<1>4. h1 * f2 \in Nat /\ f1 * h2 \in Nat /\ (h1 * f2) * g2 \in Nat /\ (f1 * h2) * g2 \in Nat
      /\ (g1 * h2) * f2 \in Nat
  OBVIOUS
<1>5. (h1 * f2) * g2 <= (f1 * h2) * g2
  BY <1>1, <1>2, <1>3, <1>4
<1> QED BY <1>4, <1>5, Cancel

LEMMA LoadIsAFraction ==
  ASSUME Typed, NEW w \in Workers
  PROVE  /\ load(w)[1] \in Nat /\ load(w)[2] \in Nat \ {0}
<1>1. sessions(w) \in Nat /\ gpuLoad[w] \in Nat /\ MaxSessions[w] \in Nat
  BY SessionsAreNumbers, GpuLoadsAssumption, MaxSessionsAssumption DEF Typed
<1>2. Saturation(w)[1] \in Nat /\ Saturation(w)[2] \in Nat \ {0}
  BY <1>1 DEF Saturation
<1>3. CASE w \notin healthy
  BY <1>3 DEF load
<1>4. CASE w \in healthy /\ Below(Saturation(w), << gpuLoad[w], 2 >>)
  BY <1>1, <1>4 DEF load
<1>5. CASE w \in healthy /\ ~ Below(Saturation(w), << gpuLoad[w], 2 >>)
  BY <1>2, <1>5 DEF load
<1> QED BY <1>3, <1>4, <1>5

LEMMA LessIsAnOrder ==
  ASSUME Typed, NEW u \in Workers, NEW v \in Workers, NEW w \in Workers
  PROVE  /\ Less(u, v) => ~ Less(v, u)
         /\ ~ Less(v, v)
         /\ ~ Less(u, v) /\ ~ Less(v, w) => ~ Less(u, w)
<1>1. CASE strategy = "load"
  <2>1. PICK f1 \in Nat, f2 \in Nat \ {0} : f1 = load(u)[1] /\ f2 = load(u)[2]
    BY LoadIsAFraction
  <2>2. PICK g1 \in Nat, g2 \in Nat \ {0} : g1 = load(v)[1] /\ g2 = load(v)[2]
    BY LoadIsAFraction
  <2>3. PICK h1 \in Nat, h2 \in Nat \ {0} : h1 = load(w)[1] /\ h2 = load(w)[2]
    BY LoadIsAFraction
  <2>4. /\ Less(u, v) <=> f1 * g2 < g1 * f2
        /\ Less(v, u) <=> g1 * f2 < f1 * g2
        /\ Less(v, v) <=> g1 * g2 < g1 * g2
        /\ Less(v, w) <=> g1 * h2 < h1 * g2
        /\ Less(u, w) <=> f1 * h2 < h1 * f2
    BY <1>1, <2>1, <2>2, <2>3 DEF Less, Below
  <2>5. /\ f1 * g2 \in Nat /\ g1 * f2 \in Nat /\ g1 * g2 \in Nat /\ g1 * h2 \in Nat
        /\ h1 * g2 \in Nat /\ f1 * h2 \in Nat /\ h1 * f2 \in Nat
    OBVIOUS
  <2>6. g1 * f2 <= f1 * g2 /\ h1 * g2 <= g1 * h2 => h1 * f2 <= f1 * h2
    BY NotBelowTransitive
  <2>7. /\ ~ (f1 * g2 < g1 * f2 /\ g1 * f2 < f1 * g2)
        /\ ~ (g1 * g2 < g1 * g2)
    BY <2>5
  <2>8. ~ (f1 * g2 < g1 * f2) /\ ~ (g1 * h2 < h1 * g2) => ~ (f1 * h2 < h1 * f2)
    BY <2>5, <2>6
  <2> QED BY <2>4, <2>7, <2>8
<1>2. CASE strategy # "load"
  <2>1. sessions(u) \in Nat /\ sessions(v) \in Nat /\ sessions(w) \in Nat
    BY SessionsAreNumbers
  <2> QED BY <1>2, <2>1 DEF Less
<1> QED BY <1>1, <1>2

\* What the sort finds of two workers extends to those already compared.
LEMMA NotAboveChains ==
  ASSUME Typed, missed \in [Dispatches -> Nat], NEW d \in Dispatches, Compared,
         NEW u \in Workers, NEW v \in Workers, NEW w \in Workers
  PROVE  /\ NotAbove(d, v, v)
         /\ NotAbove(d, u, v) /\ ~ Less(w, v) => NotAbove(d, u, w)
         /\ Less(u, v) => NotAbove(d, u, v)
         /\ Less(u, v) /\ NotAbove(d, v, w) => NotAbove(d, u, w)
<1>0. missed[d] \in Nat
  OBVIOUS
<1>1. CASE strategy = "least-sessions"
  <2>1. sessions(u) \in Nat /\ sessions(v) \in Nat /\ sessions(w) \in Nat
    BY SessionsAreNumbers
  <2> QED BY <1>0, <1>1, <2>1 DEF NotAbove, Less
<1>2. CASE strategy = "load"
  BY <1>2, LessIsAnOrder DEF NotAbove
<1> QED BY <1>1, <1>2 DEF Compared

LEMMA MovesBoundedByChange ==
  ASSUME Typed, Typed', FreshIsHere, Step, strategy # "load",
         NEW v \in Workers, NEW w \in Workers, v # w
  PROVE  Distance(sessions(v), sessions(v)') + Distance(sessions(w), sessions(w)') <= Change
<1> DEFINE drift(u) == Distance(sessions(u), sessions(u)')
           drifts == {Distance(sessions(u), sessions(u)') : u \in Workers} \ {0}
<1>1. PICK x : \A u \in Workers : u # x => sessions(u)' = sessions(u)
  BY OneMoves
<1>2. ASSUME NEW u \in Workers
      PROVE  /\ drift(u) \in Nat /\ (u # x => drift(u) = 0)
             /\ drift(u) # 0 => drift(u) \in drifts
  <2>1. sessions(u) \in Nat /\ sessions(u)' \in Nat
    BY SessionsAreNumbers
  <2> QED BY <2>1, <1>1 DEF Distance
<1>3. Change = IF drifts = {} THEN 0 ELSE CHOOSE n \in drifts : TRUE
  BY DEF Change
<1>4. ASSUME NEW n \in drifts PROVE x \in Workers /\ n = drift(x)
  <2>1. PICK u \in Workers : n = drift(u) /\ n # 0
    OBVIOUS
  <2> HIDE DEF drift
  <2> QED BY <2>1, <1>2
<1> HIDE DEF drift, drifts
<1>5. \A u \in Workers : drift(u) # 0 => u = x /\ Change = drift(x)
  BY <1>2, <1>3, <1>4
<1>6. Change \in Nat
  BY ChangeIsANumber
<1>7. drift(v) + drift(w) <= Change
  BY <1>2, <1>5, <1>6
<1> QED BY <1>7 DEF drift

\* Between two steps of a ranking, only what it misses comes between two workers.
LEMMA NotAboveKept ==
  ASSUME Typed, Typed', missed \in [Dispatches -> Nat], FreshIsHere, Step, Notes,
         strategy' = strategy, Compared, NEW d \in Dispatches, Ranking(d), Ranking(d)',
         NEW v \in Workers, NEW w \in Workers, NotAbove(d, v, w)
  PROVE  NotAbove(d, v, w)'
<1>1. missed'[d] = missed[d] + Change /\ missed[d] \in Nat /\ Change \in Nat
  BY ChangeIsANumber DEF Notes
<1>2. CASE strategy = "least-sessions"
  <2>1. /\ sessions(v) \in Nat /\ sessions(w) \in Nat /\ sessions(v)' \in Nat /\ sessions(w)' \in Nat
    BY SessionsAreNumbers
  <2>2. sessions(v) <= sessions(w) + missed[d]
    BY <1>2 DEF NotAbove
  <2>3. v # w => sessions(v)' <= sessions(w)' + missed'[d]
    <3>1. SUFFICES ASSUME v # w PROVE sessions(v)' <= sessions(w)' + missed'[d]
      OBVIOUS
    <3>2. Distance(sessions(v), sessions(v)') + Distance(sessions(w), sessions(w)') <= Change
      BY <1>2, <3>1, MovesBoundedByChange
    <3> QED BY <1>1, <2>1, <2>2, <3>2 DEF Distance
  <2>4. v = w => sessions(v)' <= sessions(w)' + missed'[d]
    BY <1>1, <2>1
  <2> QED BY <1>2, <2>3, <2>4 DEF NotAbove
<1>3. CASE strategy = "load"
  <2>1. SUFFICES ASSUME missed'[d] = 0 PROVE ~ Less(w, v)'
    BY <1>3 DEF NotAbove
  <2>2. missed[d] = 0 /\ Change = 0
    BY <1>1, <2>1
  <2>3. load(v)' = load(v) /\ load(w)' = load(w)
    BY <1>3, <2>2 DEF Change
  <2>4. ~ Less(w, v)
    BY <1>3, <2>2 DEF NotAbove
  <2> QED BY <1>3, <2>3, <2>4 DEF Less, Below
<1> QED BY <1>2, <1>3 DEF Compared

-----------------------------------------------------------------------------
(***************************************************************************)
(* The first of a tier, and what it has been compared with.                *)
(***************************************************************************)
\* v leads a tier of d, and the sort is done with w: w is in a tier in order, or was
\* inserted, or is on its way and was compared with none but those behind it.
Leads(d, v, w) ==
  \/ \E k \in OrderedTiers(d) : v = tier[d][k][1] /\ w \in ToSet(tier[d][k])
  \/ /\ phase[d] = "sorting"
     /\ LET p == place[d]
            ws == tier[d][p.tier]
        IN  /\ v = ws[1]
            /\ \E j \in 1..p.insert : j <= Len(ws) /\ j # p.at /\ w = ws[j]

Leading(d) ==
  Compared /\ Ranking(d) => \A v, w \in Workers : Leads(d, v, w) => NotAbove(d, v, w)

LEMMA LeadsRow ==
  ASSUME NEW d, Row(d)' = Row(d)
  PROVE  /\ \A v, w : Leads(d, v, w)' <=> Leads(d, v, w)
         /\ Ranking(d)' <=> Ranking(d)
<1>1. /\ phase'[d] = phase[d] /\ tier'[d] = tier[d] /\ place'[d] = place[d] /\ tried'[d] = tried[d]
  BY DEF Row
<1>2. OrderedTiers(d)' = OrderedTiers(d)
  BY <1>1 DEF OrderedTiers
<1> QED BY <1>1, <1>2 DEF Leads, Ranking

\* Before the sort, nothing is led.
LEMMA SplitsLead ==
  ASSUME Typed, missed \in [Dispatches -> Nat], NEW d \in Dispatches, Local(d), Compared,
         Lists(d) \/ Draws(d) \/ Splits(d), Ranking(d)',
         NEW v \in Workers, NEW w \in Workers, Leads(d, v, w)'
  PROVE  Ranking(d) /\ NotAbove(d, v, w)
<1>1. CASE Lists(d) \/ Draws(d)
  <2>1. /\ tier'[d] = NoTiers /\ phase'[d] # "sorting"
    BY <1>1 DEF Lists, Draws, Moves, Drawn, Typed, Local, Stage
  <2>2. OrderedTiers(d)' \subseteq 1..2
    BY <2>1 DEF OrderedTiers
  <2>3. PICK k \in 1..2 : w \in ToSet(tier'[d][k])
    BY <2>1, <2>2 DEF Leads
  <2>4. tier'[d][k] = << >>
    BY <2>1, NothingListed
  <2> QED BY <2>3, <2>4, NothingListed
<1>2. CASE Splits(d)
  <2>1. /\ phase[d] = "splitting" /\ phase'[d] \in {"splitting", "sorting"}
        /\ place'[d] = Start(1)
    BY <1>2 DEF Splits, TakesNext, Typed, Local, Stage
  <2>2. OrderedTiers(d)' = {}
    BY <2>1 DEF OrderedTiers, Start
  <2>3. v = tier'[d][1][1] /\ \E j \in 1..2 : j # 2 /\ w = tier'[d][1][j]
    BY <2>1, <2>2 DEF Leads, Start
  <2>4. v = w
    BY <2>3
  <2> QED BY <2>1, <2>4, NotAboveChains DEF Ranking
<1> QED BY <1>1, <1>2

LEMMA HasSortedLeads ==
  ASSUME Typed, missed \in [Dispatches -> Nat], NEW d \in Dispatches, Local(d), Compared,
         Leading(d), HasSorted(d),
         NEW v \in Workers, NEW w \in Workers, Leads(d, v, w)'
  PROVE  Ranking(d) /\ NotAbove(d, v, w)
<1> DEFINE k == place[d].tier
           ws == tier[d][k]
<1>1. /\ phase[d] = "sorting" /\ place[d].insert > Len(ws) /\ TierOrdered(d) /\ tier' = tier
      /\ Ranking(d)
  BY DEF HasSorted, Ranking
<1>2. k \in 1..2 /\ ws \in Seq(Workers) /\ Len(ws) \in Nat /\ DOMAIN ws = 1..Len(ws)
      /\ place[d].insert \in Nat
  BY Parts, LenProperties
<1>3. place[d].at = place[d].insert
  BY <1>1, <1>2 DEF Local, Placed
<1>4. v = ws[1] /\ w \in ToSet(ws) => Leads(d, v, w)
  <2>1. SUFFICES ASSUME v = ws[1], NEW j \in DOMAIN ws, w = ws[j]
                 PROVE  Leads(d, v, w)
    BY DEF ToSet
  <2>2. j \in 1..place[d].insert /\ j <= Len(ws) /\ j # place[d].at
    BY <1>1, <1>2, <1>3
  <2> QED BY <2>1, <2>2, <1>1 DEF Leads
<1>5. \A i \in 1..k - 1 : v = tier[d][i][1] /\ w \in ToSet(tier[d][i]) => Leads(d, v, w)
  BY <1>1 DEF Leads, OrderedTiers
<1>6. \A i \in 1..k : v = tier[d][i][1] /\ w \in ToSet(tier[d][i]) => Leads(d, v, w)
  BY <1>2, <1>4, <1>5
<1>7. /\ phase'[d] = IF k = 1 THEN "sorting" ELSE "trying"
      /\ k = 1 => place'[d] = Start(2)
  BY <1>1 DEF TierOrdered, Typed
<1>8. OrderedTiers(d)' = 1..k
  <2>1. CASE k = 1
    BY <2>1, <1>7 DEF OrderedTiers, Start
  <2>2. CASE k = 2
    BY <2>2, <1>7 DEF OrderedTiers
  <2> QED BY <1>2, <2>1, <2>2
<1>9. CASE \E i \in 1..k : v = tier[d][i][1] /\ w \in ToSet(tier[d][i])
  BY <1>1, <1>6, <1>9 DEF Leading
<1>10. CASE ~ \E i \in 1..k : v = tier[d][i][1] /\ w \in ToSet(tier[d][i])
  <2>1. k = 1 /\ v = tier'[d][2][1] /\ \E j \in 1..2 : j # 2 /\ w = tier'[d][2][j]
    BY <1>1, <1>7, <1>8, <1>10 DEF Leads, Start
  <2>2. v = w
    BY <2>1
  <2> QED BY <1>1, <2>2, NotAboveChains
<1> QED BY <1>9, <1>10

LEMMA ComparesLeads ==
  ASSUME Typed, missed \in [Dispatches -> Nat], NEW d \in Dispatches, Local(d), Compared,
         Leading(d), Compares(d),
         NEW v \in Workers, NEW w \in Workers, Leads(d, v, w)'
  PROVE  Ranking(d) /\ NotAbove(d, v, w)
<1> DEFINE k == place[d].tier
           a == place[d].at
           n == place[d].insert
           ws == tier[d][k]
           swaps == Less(ws[a], ws[a - 1])
           swapped == [ws EXCEPT ![a] = ws[a - 1], ![a - 1] = ws[a]]
           after == IF swaps THEN swapped ELSE ws
           next == IF swaps /\ a > 2 THEN [place[d] EXCEPT !.at = a - 1]
                                     ELSE [place[d] EXCEPT !.insert = n + 1, !.at = n + 1]
<1>1. /\ phase[d] = "sorting" /\ phase' = phase /\ n <= Len(ws)
      /\ tier' = [tier EXCEPT ![d][k] = after]
      /\ place' = [place EXCEPT ![d] = next]
      /\ Ranking(d)
  <2>1. tier' = [tier EXCEPT ![d][k] = after]
    BY DEF Compares
  <2>2. place' = [place EXCEPT ![d] = next]
    BY DEF Compares
  <2>3. n <= Len(ws)
    BY DEF Compares
  <2> QED BY <2>1, <2>2, <2>3 DEF Compares, Ranking
<1>2. /\ k \in 1..2 /\ a \in 2..n /\ a \in Nat /\ n \in Nat
      /\ ws \in Seq(Workers) /\ Len(ws) \in Nat /\ DOMAIN ws = 1..Len(ws)
  <2>1. k \in 1..2 /\ a \in Nat /\ n \in Nat
    BY Parts
  <2>2. a \in 2..n
    BY <1>1 DEF Local, Placed
  <2>3. ws \in Seq(Workers) /\ Len(ws) \in Nat /\ DOMAIN ws = 1..Len(ws)
    BY <2>1, Parts, LenProperties
  <2> HIDE DEF ws, k, a, n
  <2> QED BY <2>1, <2>2, <2>3, Zenon
<1>3. \A j \in 1..n : ws[j] \in Workers
  BY <1>1, <1>2, ElementOfSeq
\* What is known of the tier as it is.
<1>4. \A j \in 1..n : j # a => NotAbove(d, ws[1], ws[j])
  <2>1. SUFFICES ASSUME NEW j \in 1..n, j # a PROVE NotAbove(d, ws[1], ws[j])
    OBVIOUS
  <2>2. Leads(d, ws[1], ws[j])
    <3>1. j \in 1..n /\ j <= Len(ws) /\ j # a
      <4> HIDE DEF ws, n, a
      <4> QED BY <2>1, <1>1, <1>2
    <3> QED BY <3>1, <1>1 DEF Leads
  <2>3. ws[1] \in Workers /\ ws[j] \in Workers
    BY <2>1, <1>2, <1>3
  <2> QED BY <2>2, <2>3, <1>1 DEF Leading
<1>5. tier'[d] = [tier[d] EXCEPT ![k] = after] /\ place'[d] = next /\ phase'[d] = "sorting"
  <2> HIDE DEF after, next, k
  <2> QED BY <1>1 DEF Typed
<1>6. next.tier = k /\ tier'[d][k] = after /\ \A i \in 1..k - 1 : tier'[d][i] = tier[d][i]
  <2>1. next.tier = k
    BY Parts
  <2>2. tier[d] \in [1..2 -> Seq(Workers)]
    BY Parts
  <2> HIDE DEF after, k, next
  <2> QED BY <2>1, <2>2, <1>2, <1>5
<1>7. CASE \E i \in OrderedTiers(d)' : v = tier'[d][i][1] /\ w \in ToSet(tier'[d][i])
  <2>1. OrderedTiers(d)' = 1..k - 1 /\ OrderedTiers(d) = 1..k - 1
    <3> HIDE DEF next
    <3> QED BY <1>1, <1>5, <1>6 DEF OrderedTiers
  <2>2. PICK i \in 1..k - 1 : v = tier'[d][i][1] /\ w \in ToSet(tier'[d][i])
    BY <1>7, <2>1
  <2>3. tier'[d][i] = tier[d][i]
    BY <1>6
  <2>4. Leads(d, v, w)
    BY <2>1, <2>2, <2>3 DEF Leads
  <2> QED BY <2>4, <1>1 DEF Leading
<1>8. CASE ~ \E i \in OrderedTiers(d)' : v = tier'[d][i][1] /\ w \in ToSet(tier'[d][i])
  <2>1. PICK j \in 1..next.insert : j <= Len(after) /\ j # next.at /\ v = after[1] /\ w = after[j]
    <3> HIDE DEF next, after, k
    <3> QED BY <1>5, <1>6, <1>8 DEF Leads
  <2>2. /\ swaps /\ a > 2 => next.insert = n /\ next.at = a - 1
        /\ ~ (swaps /\ a > 2) => next.insert = n + 1 /\ next.at = n + 1
    BY Parts
  <2>3. Len(after) = Len(ws)
    <3> HIDE DEF ws, a
    <3> QED BY <1>1, <1>2, SwapLists
  <2>4. j \in 1..n
    <3> HIDE DEF after, ws, next
    <3> QED BY <2>1, <2>2, <1>2
  <2>5. \A i \in 1..n : after[i] = IF swaps /\ i = a THEN ws[a - 1]
                                  ELSE IF swaps /\ i = a - 1 THEN ws[a] ELSE ws[i]
    <3> HIDE DEF ws, a, k
    <3>1. CASE swaps
      BY <3>1, <1>1, <1>2
    <3>2. CASE ~ swaps
      BY <3>2
    <3> QED BY <3>1, <3>2
  <2>6. 1 \in 1..n /\ a - 1 \in 1..n /\ a \in 1..n /\ a - 1 # a
    <3> HIDE DEF ws
    <3> QED BY <1>2
  <2>7. /\ v = IF swaps /\ a = 2 THEN ws[2] ELSE ws[1]
        /\ w = IF swaps /\ j = a THEN ws[a - 1] ELSE IF swaps /\ j = a - 1 THEN ws[a] ELSE ws[j]
    <3> HIDE DEF after, ws, next, k, swaps
    <3>1. a - 1 = 1 <=> a = 2
      BY <1>2
    <3> QED BY <3>1, <2>1, <2>4, <2>5, <2>6, <1>2
  <2>8. ws[1] \in Workers /\ ws[a] \in Workers /\ ws[a - 1] \in Workers /\ ws[j] \in Workers
    <3> HIDE DEF ws, a
    <3> QED BY <1>3, <2>4, <2>6
  <2>9. NotAbove(d, ws[1], ws[a - 1])
    <3> HIDE DEF ws, a
    <3> QED BY <1>4, <2>6
  <2>10. CASE ~ swaps
    <3>1. CASE j = a
      <4>1. v = ws[1] /\ w = ws[a]
        BY <2>7, <2>10, <3>1
      <4>2. ~ Less(ws[a], ws[a - 1])
        BY <2>10
      <4> HIDE DEF ws, a
      <4> QED BY <4>1, <4>2, <2>8, <2>9, NotAboveChains, <1>1
    <3>2. CASE j # a
      <4>1. v = ws[1] /\ w = ws[j]
        BY <2>7, <2>10
      <4> HIDE DEF ws, a
      <4> QED BY <4>1, <3>2, <2>4, <1>4, <1>1
    <3> QED BY <3>1, <3>2
  <2>11. CASE swaps /\ a > 2
    <3>1. v = ws[1] /\ j # a - 1
      <4>1. next.at = a - 1 /\ a # 2
        BY <2>2, <2>11
      <4> HIDE DEF next, ws, after
      <4> QED BY <4>1, <2>1, <2>7
    <3>2. w = IF j = a THEN ws[a - 1] ELSE ws[j]
      <4> HIDE DEF ws, after, next
      <4> QED BY <3>1, <2>7, <2>11
    <3> HIDE DEF ws, a, after, next, k
    <3>3. CASE j = a
      BY <3>1, <3>2, <3>3, <2>9, <1>1
    <3>4. CASE j # a
      BY <3>1, <3>2, <3>4, <2>4, <1>1, <1>4
    <3> QED BY <3>3, <3>4
  <2>12. CASE swaps /\ a = 2
    <3>1. v = ws[2] /\ Less(ws[2], ws[1]) /\ ws[2] \in Workers
      <4>1. a = 2 /\ a - 1 = 1 /\ Less(ws[a], ws[a - 1])
        BY <2>12
      <4> HIDE DEF ws, a, after, next, k, swaps
      <4> QED BY <4>1, <2>7, <2>8, <2>12
    <3>2. w = IF j = 2 THEN ws[1] ELSE IF j = 1 THEN ws[2] ELSE ws[j]
      <4>1. a = 2 /\ a - 1 = 1
        BY <2>12
      <4> HIDE DEF ws, a, after, next, k, swaps
      <4> QED BY <4>1, <2>7, <2>12
    <3>3. j # 1 /\ j # 2 => NotAbove(d, ws[1], ws[j])
      <4> HIDE DEF ws
      <4> QED BY <1>4, <2>4, <2>12
    <3> HIDE DEF ws, a
    <3> QED BY <3>1, <3>2, <3>3, <2>8, <1>1, NotAboveChains
  <2>13. a > 2 \/ a = 2
    <3> HIDE DEF ws
    <3> QED BY <1>2
  <2> QED BY <2>10, <2>11, <2>12, <2>13
<1> QED BY <1>7, <1>8

\* After the first attempt, or once the handler has returned, d ranks no longer.
LEMMA RankingOver ==
  ASSUME Typed, NEW d \in Dispatches, Local(d),
         \/ begin(d) \/ Refuses(d) \/ Unreachable(d) \/ Accepts(d)
         \/ AllAtCapacity(d) \/ Ends(d)
  PROVE  ~ Ranking(d)'
<1>1. CASE begin(d) \/ Accepts(d)
  BY <1>1 DEF begin, Accepts, Moves, Typed, Ranking
<1>2. CASE Refuses(d) \/ Unreachable(d)
  <2>1. phase[d] = "posting" /\ phase'[d] = "trying" /\ tried'[d] = tried[d]
    BY <1>2 DEF Refuses, Unreachable, Moves, Typed
  <2>2. tried[d] > 0 /\ tried[d] \in Nat
    BY <2>1, Parts DEF Local, Bounds
  <2> QED BY <2>1, <2>2 DEF Ranking
<1>3. CASE AllAtCapacity(d) \/ Ends(d)
  <2>1. phase'[d] = "ended"
    BY <1>3, ReturnCounts
  <2> QED BY <2>1 DEF Ranking
<1> QED BY <1>1, <1>2, <1>3

LEMMA LeadingStep ==
  ASSUME Typed, Typed', missed \in [Dispatches -> Nat], FreshIsHere, Step, Notes,
         strategy' = strategy, NEW d \in Dispatches, Local(d), Leading(d)
  PROVE  Leading(d)'
<1>1. SUFFICES ASSUME Compared, Ranking(d)', NEW v \in Workers, NEW w \in Workers, Leads(d, v, w)'
               PROVE  NotAbove(d, v, w)'
  BY DEF Leading, Compared
<1>2. Ranking(d) /\ NotAbove(d, v, w)
  <2>1. CASE Row(d)' = Row(d)
    <3>1. Ranking(d) /\ Leads(d, v, w)
      BY <1>1, <2>1, LeadsRow
    <3> QED BY <3>1, <1>1 DEF Leading
  <2>2. CASE Dispatch(d)
    <3>1. CASE Lists(d) \/ Draws(d) \/ Splits(d)
      BY <1>1, <3>1, SplitsLead
    <3>2. CASE Compares(d)
      BY <1>1, <3>2, ComparesLeads
    <3>3. CASE HasSorted(d)
      BY <1>1, <3>3, HasSortedLeads
    <3>4. CASE Rotates(d) \/ Shuffles(d)
      BY <1>1, <3>4 DEF Rotates, Shuffles, Compared
    <3>5. CASE \/ begin(d) \/ Refuses(d) \/ Unreachable(d) \/ Accepts(d)
               \/ AllAtCapacity(d) \/ Ends(d)
      BY <1>1, <3>5, RankingOver
    <3> QED BY <2>2, <3>1, <3>2, <3>3, <3>4, <3>5 DEF Dispatch
  <2>3. Row(d)' = Row(d) \/ Dispatch(d)
    <3>1. CASE \E e \in Dispatches : Dispatch(e)
      BY <3>1, OthersKept
    <3>2. CASE (\E x \in Workers : probeWorker(x)) \/ waitForRecoveryWorker
      BY <3>2, ElsewhereKept DEF Row
    <3> QED BY <3>1, <3>2 DEF Step
  <2> QED BY <2>1, <2>2, <2>3
<1> QED BY <1>1, <1>2, NotAboveKept

LInv == IInv /\ FreshIsHere /\ \A d \in Dispatches : Leading(d)

LEMMA LInvStep == LInv /\ [Next]_vars => LInv'
<1> SUFFICES ASSUME LInv, [Next]_vars PROVE LInv'
  OBVIOUS
<1>1. IInv'
  BY IInvStep DEF LInv
<1>2. CASE Next
  <2>1. FreshIsHere'
    BY <1>2, FreshStep DEF LInv, IInv, Next
  <2>2. strategy' = strategy
    BY <1>2, LocalStep DEF LInv, IInv, Next
  <2>3. \A d \in Dispatches : Leading(d)'
    BY <1>1, <1>2, <2>2, LeadingStep DEF LInv, IInv, Next
  <2> QED BY <1>1, <2>1, <2>3 DEF LInv
<1>3. CASE UNCHANGED vars
  <2>1. /\ UNCHANGED << strategy, healthy, gpuLoad, reported, fresh, phase, tier, place, tried, missed >>
    BY <1>3 DEF vars, entries, ranking
  <2>2. \A d \in Dispatches : Row(d)' = Row(d)
    BY <1>3 DEF vars, entries, ranking, Row
  <2>3. FreshIsHere'
    BY <2>1 DEF LInv, FreshIsHere, Current, order
  <2>4. ASSUME NEW w \in Workers PROVE sessions(w)' = sessions(w) /\ load(w)' = load(w)
    <3>1. On(w, {"posting"})' = On(w, {"posting"})
      BY <2>1 DEF On, Current, order
    <3>2. sessions(w)' = sessions(w)
      BY <2>1, <3>1 DEF sessions
    <3> QED BY <2>1, <3>2 DEF load, Saturation
  <2>5. ASSUME NEW d \in Dispatches, NEW v \in Workers, NEW w \in Workers
        PROVE  NotAbove(d, v, w)' <=> NotAbove(d, v, w)
    BY <2>1, <2>4 DEF NotAbove, Less, Below
  <2>6. \A d \in Dispatches : Leading(d)'
    BY <2>1, <2>2, <2>5, LeadsRow DEF LInv, Leading, Compared
  <2> QED BY <1>1, <2>3, <2>6 DEF LInv
<1> QED BY <1>2, <1>3

LEMMA LeadsThroughout == Spec => []LInv
<1>1. Init => LInv
  <2> SUFFICES ASSUME Init PROVE LInv
    OBVIOUS
  <2>1. FreshIsHere /\ \A d \in Dispatches : ~ Ranking(d)
    BY DEF Init, FreshIsHere, Ranking
  <2> QED BY <2>1, IInvInit DEF LInv, Leading
<1>2. LInv /\ [Next]_vars => LInv'
  BY LInvStep
<1> QED BY <1>1, <1>2, PTL DEF Spec

\* Scheduling: the first worker tried is the least loaded of its tier but for what has
\* changed since the fleet was listed, though the sort compares counts that move under
\* it (orderTier, main.go:605, 618), whatever the fleet and however many dispatches
\* rank it at once.
THEOREM FirstAlwaysNearLeast == Spec => []FirstIsNearLeast
<1>1. ASSUME LInv PROVE FirstIsNearLeast
  <2>1. SUFFICES ASSUME NEW d \in Dispatches, Compared, phase[d] = "trying", tried[d] = 0,
                        NEW w \in Peers(d)
                 PROVE  NotAbove(d, order(d)[1], w)
    BY DEF FirstIsNearLeast
  <2>2. PICK k \in 1..2 : /\ Peers(d) = ToSet(tier[d][k]) /\ tier[d][k] # << >>
                          /\ order(d)[1] = tier[d][k][1]
    BY <1>1, <2>1, FirstOfOrder DEF LInv, IInv
  <2>3. tier[d][k] \in Seq(Workers)
    BY <1>1, <2>2, Parts DEF LInv, IInv
  <2>4. tier[d][k][1] \in Workers /\ w \in Workers
    <3>1. \A i \in DOMAIN tier[d][k] : tier[d][k][i] \in Workers
      BY <2>3, LenProperties, ElementOfSeq
    <3>2. Len(tier[d][k]) \in Nat \ {0} /\ DOMAIN tier[d][k] = 1..Len(tier[d][k])
      BY <2>2, <2>3, EmptySeq, LenProperties
    <3>3. w \in ToSet(tier[d][k])
      BY <2>1, <2>2
    <3> QED BY <3>1, <3>2, <3>3 DEF ToSet
  <2>5. Leads(d, tier[d][k][1], w)
    <3>1. w \in ToSet(tier[d][k])
      BY <2>1, <2>2
    <3> QED BY <3>1, <2>1 DEF Leads, OrderedTiers
  <2> QED BY <1>1, <2>1, <2>2, <2>4, <2>5 DEF LInv, Leading, Ranking
<1> QED BY <1>1, LeadsThroughout, PTL

=============================================================================
