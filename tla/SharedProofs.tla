---------------------------- MODULE SharedProofs ----------------------------
(***************************************************************************)
(* Proofs about what several callers share: the sampler object of Python   *)
(* (FamilySessions) and the cache directory (CacheDirectory).              *)
(***************************************************************************)
EXTENDS FamilySessions, CacheDirectory, SumLemmas, SequenceTheorems, TLAPS

-----------------------------------------------------------------------------
(* A set of numbers in ascending order, and what a sequence holds at its    *)
(* positions.                                                               *)
Rank(I, i) == Cardinality(Promise!UpTo(I, i))

LEMMA CardinalityAgrees == \A S : Promise!Cardinality(S) = Cardinality(S)
BY DEF Promise!Cardinality, Cardinality

LEMMA RankType ==
    ASSUME NEW I \in SUBSET Nat, IsFiniteSet(I), NEW i \in I
    PROVE  Rank(I, i) \in 1 .. Cardinality(I)
<1> DEFINE U == Promise!UpTo(I, i)
<1>1. U \in SUBSET I /\ i \in U
  BY DEF Promise!UpTo
<1>2. IsFiniteSet(U) /\ Cardinality(U) <= Cardinality(I)
  BY <1>1, FS_Subset
<1>3. Cardinality(U) \in Nat /\ Cardinality(I) \in Nat /\ Cardinality(U) # 0
  BY <1>1, <1>2, FS_CardinalityType, FS_EmptySet
<1> QED
  BY <1>2, <1>3 DEF Rank

LEMMA RankRises ==
    ASSUME NEW I \in SUBSET Nat, IsFiniteSet(I), NEW i \in I, NEW j \in I, i < j
    PROVE  Rank(I, i) < Rank(I, j)
<1> DEFINE U == Promise!UpTo(I, i)
           V == Promise!UpTo(I, j)
<1>1. V \in SUBSET I /\ j \in V /\ U \in SUBSET (V \ {j})
  <2>1. i \in Nat /\ j \in Nat /\ \A k \in I : k \in Nat
    OBVIOUS
  <2>2. V \in SUBSET I
    BY DEF Promise!UpTo
  <2>3. j \in V
    BY <2>1 DEF Promise!UpTo
  <2>4. \A k \in U : k \in V \ {j}
    BY <2>1 DEF Promise!UpTo
  <2> QED
    BY <2>2, <2>3, <2>4
<1>2. IsFiniteSet(V)
  BY <1>1, FS_Subset
<1>3. IsFiniteSet(V \ {j}) /\ Cardinality(V \ {j}) = Cardinality(V) - 1
  BY <1>1, <1>2, FS_RemoveElement
<1>4. Cardinality(U) <= Cardinality(V \ {j}) /\ IsFiniteSet(U)
  BY <1>1, <1>3, FS_Subset
<1>5. Cardinality(U) \in Nat /\ Cardinality(V) \in Nat
  BY <1>2, <1>4, FS_CardinalityType
<1> QED
  BY <1>3, <1>4, <1>5 DEF Rank

LEMMA RankTells ==
    ASSUME NEW I \in SUBSET Nat, IsFiniteSet(I), NEW i \in I, NEW j \in I, Rank(I, i) = Rank(I, j)
    PROVE  i = j
<1>1. i \in Nat /\ j \in Nat
  OBVIOUS
<1>2. Rank(I, i) \in 1 .. Cardinality(I)
  BY RankType
<1>3. ~(i < j) /\ ~(j < i)
  BY <1>2, RankRises
<1> QED
  BY <1>1, <1>3

(* Every rank is taken. *)
LEMMA RankReaches ==
    ASSUME NEW I \in SUBSET Nat, IsFiniteSet(I), NEW x \in 1 .. Cardinality(I)
    PROVE  \E i \in I : Rank(I, i) = x
<1> DEFINE n == Cardinality(I)
           r == [i \in I |-> Rank(I, i)]
<1>1. n \in Nat
  BY FS_CardinalityType
<1>2. IsFiniteSet(1 .. n) /\ Cardinality(1 .. n) = n
  BY <1>1, FS_Interval
<1>3. r \in [I -> 1 .. n]
  BY RankType
<1>4. \A i, j \in I : r[i] = r[j] => i = j
  BY RankTells
<1>5. r \in Injection(I, 1 .. n)
  BY <1>3, <1>4 DEF Injection, IsInjective
<1>6. r \in Surjection(I, 1 .. n)
  BY <1>2, <1>5, FS_Injection
<1> QED
  BY <1>6 DEF Surjection

LEMMA AscendingByRank ==
    ASSUME NEW I
    PROVE  Promise!Ascending(I) = [x \in 1 .. Cardinality(I) |-> CHOOSE i \in I : Rank(I, i) = x]
BY CardinalityAgrees DEF Promise!Ascending, Rank

LEMMA AscendingIs ==
    ASSUME NEW I \in SUBSET Nat, IsFiniteSet(I)
    PROVE  /\ Promise!Ascending(I) \in [1 .. Cardinality(I) -> I]
           /\ \A x \in 1 .. Cardinality(I) : Rank(I, Promise!Ascending(I)[x]) = x
           /\ \A i \in I : Promise!Ascending(I)[Rank(I, i)] = i
<1> DEFINE a == Promise!Ascending(I)
           c(x) == CHOOSE i \in I : Rank(I, i) = x
<1>1. ASSUME NEW x \in 1 .. Cardinality(I) PROVE c(x) \in I /\ Rank(I, c(x)) = x
  <2>1. \E i \in I : Rank(I, i) = x
    BY RankReaches
  <2> QED
    BY <2>1
<1>2. a = [x \in 1 .. Cardinality(I) |-> c(x)]
  BY AscendingByRank
<1> HIDE DEF a, c
<1>3. ASSUME NEW i \in I PROVE a[Rank(I, i)] = i
  <2>1. Rank(I, i) \in 1 .. Cardinality(I)
    BY RankType
  <2>2. PICK j \in I : j = c(Rank(I, i)) /\ Rank(I, j) = Rank(I, i)
    BY <1>1, <2>1
  <2>3. c(Rank(I, i)) = i
    BY <2>2, RankTells
  <2> QED
    BY <1>2, <2>1, <2>3
<1>4. a \in [1 .. Cardinality(I) -> I] /\ \A x \in 1 .. Cardinality(I) : Rank(I, a[x]) = x
  BY <1>1, <1>2
<1> QED
  BY <1>3, <1>4 DEF a

(* Ascending is an ascending sequence of all of the set. *)
LEMMA AscendingRises ==
    ASSUME NEW I \in SUBSET Nat, IsFiniteSet(I)
    PROVE  /\ Promise!Ascending(I) \in Seq(I)
           /\ Len(Promise!Ascending(I)) = Cardinality(I)
           /\ \A x, y \in 1 .. Cardinality(I) :
                 x < y => Promise!Ascending(I)[x] < Promise!Ascending(I)[y]
           /\ \A i \in I : \E x \in 1 .. Cardinality(I) : Promise!Ascending(I)[x] = i
<1> DEFINE a == Promise!Ascending(I)
<1>1. Cardinality(I) \in Nat
  BY FS_CardinalityType
<1>2. a \in [1 .. Cardinality(I) -> I]
  BY AscendingIs
<1>3. a \in Seq(I) /\ Len(a) = Cardinality(I)
  <2> HIDE DEF a
  <2> QED
    BY <1>1, <1>2
<1>4. ASSUME NEW x \in 1 .. Cardinality(I), NEW y \in 1 .. Cardinality(I), x < y
      PROVE  a[x] < a[y]
  <2>1. a[x] \in I /\ a[y] \in I /\ Rank(I, a[x]) = x /\ Rank(I, a[y]) = y
    BY AscendingIs
  <2> HIDE DEF a
  <2>2. a[y] < a[x] => y < x
    BY <2>1, RankRises
  <2>3. a[x] \in Nat /\ a[y] \in Nat /\ x \in Nat /\ y \in Nat
    <3>1. \A i \in I : i \in Nat
      OBVIOUS
    <3>2. x \in Nat /\ y \in Nat
      BY <1>1
    <3>3. a[x] \in Nat /\ a[y] \in Nat
      BY <2>1, <3>1
    <3> QED
      BY <3>2, <3>3
  <2>4. a[x] # a[y]
    BY <1>4, <2>1, <2>3
  <2> QED
    BY <1>4, <2>2, <2>3, <2>4
<1>5. ASSUME NEW i \in I PROVE \E x \in 1 .. Cardinality(I) : a[x] = i
  BY AscendingIs, RankType
<1> HIDE DEF a
<1> QED
  BY <1>3, <1>4, <1>5 DEF a

LEMMA AscendingOfAll ==
    ASSUME NEW n \in Nat
    PROVE  Promise!Ascending(1 .. n) = [x \in 1 .. n |-> x]
<1> DEFINE I == 1 .. n
           a == Promise!Ascending(I)
<1>1. I \in SUBSET Nat /\ IsFiniteSet(I) /\ Cardinality(I) = n
  BY FS_Interval
<1>2. ASSUME NEW i \in I PROVE Rank(I, i) = i
  <2>1. Promise!UpTo(I, i) = 1 .. i
    BY DEF Promise!UpTo
  <2> QED
    BY <2>1, FS_Interval DEF Rank
<1>3. a \in [1 .. n -> I] /\ \A i \in I : a[Rank(I, i)] = i
  <2> HIDE DEF I
  <2> QED
    BY <1>1, AscendingIs
<1> QED
  BY <1>2, <1>3

LEMMA AscendingOfNone == Promise!Ascending({}) = <<>>
<1>1. Promise!Ascending({}) \in Seq({}) /\ Len(Promise!Ascending({})) = 0
  BY AscendingRises, FS_EmptySet
<1> QED
  BY <1>1

(* A number above all the others comes last. *)
LEMMA AscendingAdds ==
    ASSUME NEW I \in SUBSET Nat, IsFiniteSet(I), NEW n \in Nat, \A i \in I : i < n
    PROVE  Promise!Ascending(I \cup {n}) = Append(Promise!Ascending(I), n)
<1> DEFINE J == I \cup {n}
           C == Cardinality(I)
           a == Promise!Ascending(I)
           b == Promise!Ascending(J)
<1>0. \A i \in I : i \in Nat
  OBVIOUS
<1>1. n \notin I /\ J \in SUBSET Nat
  BY <1>0
<1>2. IsFiniteSet(J) /\ Cardinality(J) = C + 1 /\ C \in Nat
  BY <1>1, FS_AddElement, FS_CardinalityType
<1>3. ASSUME NEW i \in I PROVE Rank(J, i) = Rank(I, i)
  <2>1. Promise!UpTo(J, i) = Promise!UpTo(I, i)
    BY <1>0 DEF Promise!UpTo
  <2> QED
    BY <2>1 DEF Rank
<1>4. Rank(J, n) = C + 1
  <2>1. \A j \in J : j <= n
    BY <1>0
  <2> HIDE DEF J
  <2>2. Promise!UpTo(J, n) = J
    BY <2>1 DEF Promise!UpTo
  <2> QED
    BY <1>2, <2>2 DEF Rank
<1>5. a \in [1 .. C -> I] /\ \A x \in 1 .. C : Rank(I, a[x]) = x
  BY AscendingIs
<1>6. b \in [1 .. C + 1 -> J] /\ \A j \in J : b[Rank(J, j)] = j
  <2> HIDE DEF J
  <2> QED
    BY <1>1, <1>2, AscendingIs
<1> HIDE DEF a, b, C
<1>7. ASSUME NEW x \in 1 .. C PROVE b[x] = a[x]
  <2>1. PICK i \in I : i = a[x]
    BY <1>5
  <2>2. Rank(J, i) = x
    BY <1>3, <1>5, <2>1
  <2> QED
    BY <1>6, <2>1, <2>2
<1>8. b[C + 1] = n
  BY <1>4, <1>6
<1>9. a \in Seq(Nat) /\ Len(a) = C
  <2>1. a \in Seq(I) /\ Len(a) = C
    BY AscendingRises DEF a, C
  <2> QED
    BY <2>1, SeqMonotonic
<1>10. b \in Seq(Nat) /\ Len(b) = C + 1
  <2>1. b \in Seq(J) /\ Len(b) = C + 1
    BY <1>1, <1>2, AscendingRises DEF b
  <2> QED
    BY <1>1, <2>1, SeqMonotonic
<1>11. Append(a, n) \in Seq(Nat) /\ Len(Append(a, n)) = C + 1
  BY <1>9
<1>12. ASSUME NEW x \in 1 .. Len(b) PROVE b[x] = Append(a, n)[x]
  <2>1. C \in Nat /\ x \in 1 .. C + 1
    BY <1>2, <1>10
  <2>2. CASE x \in 1 .. C
    BY <1>7, <1>9, <2>2
  <2>3. CASE x = C + 1
    BY <1>8, <1>9, <2>3
  <2>4. x \in 1 .. C \/ x = C + 1
    BY <2>1
  <2> QED
    BY <2>2, <2>3, <2>4
<1>13. b = Append(a, n)
  BY <1>10, <1>11, <1>12, SeqEqual
<1> QED
  BY <1>13 DEF a, b

LEMMA PositionsAreFinite ==
    ASSUME NEW S, NEW s \in Seq(S), NEW I \in SUBSET (DOMAIN s)
    PROVE  I \in SUBSET Nat /\ IsFiniteSet(I) /\ Cardinality(I) \in Nat
<1>1. I \in SUBSET (1 .. Len(s)) /\ Len(s) \in Nat
  OBVIOUS
<1>2. IsFiniteSet(1 .. Len(s))
  BY <1>1, FS_Interval
<1>3. IsFiniteSet(I)
  BY <1>1, <1>2, FS_Subset
<1> QED
  BY <1>1, <1>3, FS_CardinalityType

(* Pick keeps the order, and everything it is asked for. *)
LEMMA PickIs ==
    ASSUME NEW S, NEW s \in Seq(S), NEW I \in SUBSET (DOMAIN s)
    PROVE  /\ Promise!Pick(s, I) \in Seq(S)
           /\ Len(Promise!Pick(s, I)) = Cardinality(I)
           /\ \A x \in 1 .. Cardinality(I) :
                 Promise!Ascending(I)[x] \in I /\ Promise!Pick(s, I)[x] = s[Promise!Ascending(I)[x]]
<1> DEFINE a == Promise!Ascending(I)
           p == Promise!Pick(s, I)
<1>1. I \in SUBSET Nat /\ IsFiniteSet(I) /\ Cardinality(I) \in Nat
  BY PositionsAreFinite
<1>2. a \in [1 .. Cardinality(I) -> I]
  BY <1>1, AscendingIs
<1>3. p = [x \in DOMAIN a |-> s[a[x]]]
  BY DEF Promise!Pick
<1> HIDE DEF a, p
<1>4. \A x \in 1 .. Cardinality(I) : a[x] \in I /\ p[x] = s[a[x]] /\ s[a[x]] \in S
  BY <1>2, <1>3
<1>5. p \in [1 .. Cardinality(I) -> S]
  BY <1>2, <1>3, <1>4
<1>6. p \in Seq(S) /\ Len(p) = Cardinality(I)
  BY <1>1, <1>5
<1> QED
  BY <1>4, <1>6 DEF a, p

LEMMA PickKeeps ==
    ASSUME NEW S, NEW s \in Seq(S), NEW e \in S, NEW I \in SUBSET (DOMAIN s)
    PROVE  /\ Promise!Pick(Append(s, e), I) = Promise!Pick(s, I)
           /\ Promise!Pick(Append(s, e), I \cup {Len(s) + 1}) = Append(Promise!Pick(s, I), e)
<1> DEFINE a == Promise!Ascending(I)
           n == Len(s) + 1
           J == I \cup {n}
           t == Append(s, e)
           C == Cardinality(I)
<1>1. I \in SUBSET Nat /\ IsFiniteSet(I) /\ C \in Nat
  BY PositionsAreFinite
<1>2. n \in Nat /\ \A i \in I : i < n
  OBVIOUS
<1>3. Promise!Ascending(J) = Append(a, n)
  BY <1>1, <1>2, AscendingAdds
<1>4. a \in [1 .. C -> I] /\ a \in Seq(I) /\ Len(a) = C
  BY <1>1, AscendingIs, AscendingRises
<1>5. t \in Seq(S) /\ Len(t) = n /\ t[n] = e /\ \A i \in I : t[i] = s[i]
  OBVIOUS
<1>6. Promise!Pick(t, I) = Promise!Pick(s, I)
  BY <1>4, <1>5 DEF Promise!Pick
<1>7. Promise!Pick(t, J) = Append(Promise!Pick(s, I), e)
  <2> DEFINE p == Promise!Pick(s, I)
             q == Promise!Pick(t, J)
             b == Append(a, n)
  <2>1. p \in Seq(S) /\ Len(p) = C /\ \A x \in 1 .. C : p[x] = s[a[x]]
    BY PickIs
  <2>2. q = [x \in DOMAIN b |-> t[b[x]]]
    BY <1>3 DEF Promise!Pick
  <2>3. DOMAIN b = 1 .. C + 1 /\ b[C + 1] = n /\ \A x \in 1 .. C : b[x] = a[x]
    BY <1>1, <1>2, <1>4
  <2> HIDE DEF a, b, p, q, n, t, C
  <2>c. C \in Nat /\ \A x \in 1 .. C + 1 : x \in 1 .. C \/ x = C + 1
    BY <1>1
  <2>4. q[C + 1] = e /\ \A x \in 1 .. C : q[x] = p[x]
    <3>1. C + 1 \in DOMAIN b /\ \A x \in 1 .. C : x \in DOMAIN b
      BY <2>c, <2>3
    <3>2. q[C + 1] = t[n]
      BY <2>2, <2>3, <3>1
    <3>3. ASSUME NEW x \in 1 .. C PROVE q[x] = t[a[x]] /\ a[x] \in I
      BY <1>4, <2>2, <2>3, <3>1
    <3> QED
      BY <1>5, <2>1, <3>2, <3>3
  <2>5. q \in [1 .. C + 1 -> S]
    <3>1. \A x \in 1 .. C : p[x] \in S
      BY <2>1
    <3> QED
      BY <2>c, <2>2, <2>3, <2>4, <3>1
  <2>6. q \in Seq(S) /\ Len(q) = C + 1
    BY <1>1, <2>5
  <2>7. Append(p, e) \in Seq(S) /\ Len(Append(p, e)) = C + 1
    BY <2>1
  <2>8. ASSUME NEW x \in 1 .. Len(q) PROVE q[x] = Append(p, e)[x]
    <3>1. CASE x \in 1 .. C
      BY <2>1, <2>4, <3>1
    <3>2. CASE x = C + 1
      BY <2>1, <2>4, <3>2
    <3> QED
      BY <2>c, <2>6, <3>1, <3>2
  <2>9. q = Append(p, e)
    BY <2>6, <2>7, <2>8, SeqEqual
  <2> QED
    BY <2>9 DEF p, q
<1> QED
  BY <1>6, <1>7

LEMMA MinIs ==
    ASSUME NEW I \in SUBSET Nat, IsFiniteSet(I), I # {}
    PROVE  Min(I) \in I /\ \A i \in I : Min(I) <= i
<1> DEFINE a == Promise!Ascending(I)
<1>1. Cardinality(I) \in Nat \ {0}
  BY FS_CardinalityType, FS_EmptySet
<1>2. a \in Seq(I) /\ Len(a) = Cardinality(I) /\ \A i \in I : \E x \in 1 .. Cardinality(I) : a[x] = i
  BY AscendingRises
<1>3. \A x, y \in 1 .. Cardinality(I) : x < y => a[x] < a[y]
  BY AscendingRises
<1>4. \A i \in I : i \in Nat
  OBVIOUS
<1> HIDE DEF a
<1>5. a[1] \in I /\ 1 \in 1 .. Cardinality(I)
  BY <1>1, <1>2
<1>6. ASSUME NEW i \in I PROVE a[1] <= i
  <2>1. PICK x \in 1 .. Cardinality(I) : a[x] = i
    BY <1>2
  <2>2. x = 1 \/ 1 < x
    OBVIOUS
  <2>3. CASE 1 < x
    <3>1. a[1] < a[x]
      BY <1>3, <1>5, <2>3
    <3>2. a[1] \in Nat /\ i \in Nat
      BY <1>4, <1>5
    <3> QED
      BY <2>1, <3>1, <3>2
  <2>4. CASE x = 1
    BY <1>4, <1>5, <2>1, <2>4
  <2> QED
    BY <2>2, <2>3, <2>4
<1>7. \E m \in I : \A i \in I : m <= i
  BY <1>5, <1>6
<1> QED
  BY <1>7 DEF Min

(* The position SelectInSeq tells. *)
PlaceOf(s, e) == SelectInSeq(s, LAMBDA x : x = e)

LEMMA PlaceIs ==
    ASSUME NEW S, NEW s \in Seq(S), NEW e
    PROVE  /\ Contains(s, e) => PlaceOf(s, e) \in 1 .. Len(s) /\ s[PlaceOf(s, e)] = e
           /\ ~Contains(s, e) => PlaceOf(s, e) = 0
           /\ PlaceOf(s, e) \in Nat
<1> DEFINE I == {i \in 1 .. Len(s) : s[i] = e}
<1>1. PlaceOf(s, e) = IF I # {} THEN Min(I) ELSE 0
  BY DEF PlaceOf, SelectInSeq
<1>2. I \in SUBSET (DOMAIN s)
  OBVIOUS
<1>3. I \in SUBSET Nat /\ IsFiniteSet(I)
  BY <1>2, PositionsAreFinite
<1>4. I # {} <=> Contains(s, e)
  BY DEF Contains
<1>5. CASE I # {}
  <2>1. Min(I) \in I
    <3> HIDE DEF I
    <3> QED
      BY <1>3, <1>5, MinIs
  <2> QED
    BY <1>1, <1>4, <1>5, <2>1
<1>6. CASE I = {}
  BY <1>1, <1>4, <1>6
<1> QED
  BY <1>5, <1>6

(* The same of the abstract calls, whose operators are instances.           *)
LEMMA PlacesAgree ==
    /\ \A s, e : Promise!Contains(s, e) <=> Contains(s, e)
    /\ \A s, e : Promise!SelectInSeq(s, LAMBDA x : x = e) = PlaceOf(s, e)
BY DEF Promise!Contains, Contains, Promise!SelectInSeq, SelectInSeq, PlaceOf, Promise!Min, Min

LEMMA PlaceOnce ==
    ASSUME NEW S, NEW s \in Seq(S), NEW i \in DOMAIN s, \A x, y \in DOMAIN s : s[x] = s[y] => x = y
    PROVE  PlaceOf(s, s[i]) = i
<1>1. Contains(s, s[i])
  BY DEF Contains
<1>2. PlaceOf(s, s[i]) \in DOMAIN s /\ s[PlaceOf(s, s[i])] = s[i]
  BY <1>1, PlaceIs
<1> QED
  BY <1>2

(* The order in which payloads are evicted: all but n, the never used ones  *)
(* first, then by last use.                                                 *)
Eviction(D, s, n) ==
    Promise!Ascending({m \in D : m # n /\ ~Contains(s, m)})
      \o Promise!Pick(s, {i \in DOMAIN s : s[i] # n /\ s[i] \in D})

LEMMA EvictionOrder ==
    ASSUME NEW D \in SUBSET Nat, IsFiniteSet(D), NEW s \in Seq(Nat), NEW n,
           \A x, y \in DOMAIN s : s[x] = s[y] => x = y,
           NEW v, v = Eviction(D, s, n)
    PROVE  /\ v \in Seq(Nat)
           /\ \A x \in 1 .. Len(v) : v[x] \in D /\ v[x] # n
           /\ \A m \in D : m # n => \E x \in 1 .. Len(v) : v[x] = m
           /\ \A x, y \in 1 .. Len(v) :
                 x < y => v[x] # v[y] /\ PlaceOf(s, v[x]) <= PlaceOf(s, v[y])
<1> DEFINE never == {m \in D : m # n /\ ~Contains(s, m)}
           once == {i \in DOMAIN s : s[i] # n /\ s[i] \in D}
           a == Promise!Ascending(never)
           at == Promise!Ascending(once)
           p == Promise!Pick(s, once)
           N == Cardinality(never)
           C == Cardinality(once)
<1>1. never \in SUBSET Nat /\ never \in SUBSET D /\ IsFiniteSet(never)
  BY FS_Subset
<1>2. once \in SUBSET (DOMAIN s)
  OBVIOUS
<1>3. once \in SUBSET Nat /\ IsFiniteSet(once) /\ C \in Nat
  BY <1>2, PositionsAreFinite
<1>4. \A m \in never : m \in D /\ m \in Nat /\ m # n /\ ~Contains(s, m)
  OBVIOUS
<1>5. \A i \in once : i \in DOMAIN s /\ i \in Nat /\ s[i] # n /\ s[i] \in D
  OBVIOUS
<1>6. \A m \in D : m # n => m \in never \/ \E i \in once : s[i] = m
  BY DEF Contains
<1> HIDE DEF never, once
<1>7. /\ a \in Seq(never) /\ Len(a) = N
      /\ \A x, y \in 1 .. N : x < y => a[x] < a[y]
      /\ \A m \in never : \E x \in 1 .. N : a[x] = m
  BY <1>1, AscendingRises
<1>8. a \in Seq(Nat) /\ N \in Nat
  BY <1>1, <1>7, SeqMonotonic, FS_CardinalityType
<1>9. p \in Seq(Nat) /\ Len(p) = C /\ \A x \in 1 .. C : at[x] \in once /\ p[x] = s[at[x]]
  BY <1>2, PickIs
<1>10. /\ \A x, y \in 1 .. C : x < y => at[x] < at[y]
       /\ \A i \in once : \E x \in 1 .. C : at[x] = i
  BY <1>3, AscendingRises
<1>11. v = a \o p
  BY DEF never, once, Eviction
<1> HIDE DEF a, at, p, N, C
<1>a. a \in Seq(Nat) /\ p \in Seq(Nat) /\ Len(a) = N /\ Len(p) = C
  BY <1>7, <1>8, <1>9
<1>12. v \in Seq(Nat) /\ Len(v) = N + C
  <2>1. a \o p \in Seq(Nat)
    BY <1>a, ConcatProperties
  <2>2. Len(a \o p) = Len(a) + Len(p)
    BY <1>a, ConcatProperties
  <2> QED
    BY <1>a, <1>11, <2>1, <2>2
<1>13. \A x \in 1 .. N + C : v[x] = IF x <= N THEN a[x] ELSE p[x - N]
  <2>1. \A x \in 1 .. Len(a) + Len(p) : (a \o p)[x] = IF x <= Len(a) THEN a[x] ELSE p[x - Len(a)]
    BY <1>a, ConcatProperties
  <2> QED
    BY <1>a, <1>11, <2>1
<1>14. ASSUME NEW x \in 1 .. N + C
       PROVE  \/ /\ x \in 1 .. N /\ v[x] = a[x] /\ v[x] \in never
                 /\ PlaceOf(s, v[x]) = 0
              \/ /\ x - N \in 1 .. C /\ v[x] = s[at[x - N]] /\ at[x - N] \in once
                 /\ PlaceOf(s, v[x]) = at[x - N]
  <2>1. CASE x <= N
    <3>1. x \in 1 .. N /\ v[x] = a[x]
      BY <1>8, <1>13, <2>1
    <3>2. v[x] \in never
      BY <1>7, <3>1
    <3>3. PlaceOf(s, v[x]) = 0
      BY <1>4, <3>2, PlaceIs
    <3> QED
      BY <3>1, <3>2, <3>3
  <2>2. CASE ~(x <= N)
    <3>1. x - N \in 1 .. C /\ v[x] = p[x - N]
      BY <1>3, <1>8, <1>13, <2>2
    <3>2. at[x - N] \in once /\ v[x] = s[at[x - N]]
      BY <1>9, <3>1
    <3>3. PlaceOf(s, v[x]) = at[x - N]
      BY <1>5, <3>2, PlaceOnce
    <3> QED
      BY <3>1, <3>2, <3>3
  <2> QED
    BY <2>1, <2>2
<1>15. \A x \in 1 .. Len(v) : v[x] \in D /\ v[x] # n
  BY <1>4, <1>5, <1>12, <1>14
<1>16. ASSUME NEW m \in D, m # n PROVE \E x \in 1 .. Len(v) : v[x] = m
  <2>1. CASE m \in never
    <3>1. PICK x \in 1 .. N : a[x] = m
      BY <1>7, <2>1
    <3>2. x \in 1 .. N + C /\ x <= N
      BY <1>3, <1>8
    <3> QED
      BY <1>12, <1>13, <3>1, <3>2
  <2>2. ASSUME NEW i \in once, s[i] = m PROVE \E x \in 1 .. Len(v) : v[x] = m
    <3>1. PICK x \in 1 .. C : at[x] = i
      BY <1>10
    <3>2. N + x \in 1 .. N + C /\ ~(N + x <= N) /\ (N + x) - N = x
      BY <1>3, <1>8
    <3>3. v[N + x] = p[x]
      BY <1>13, <3>2
    <3> QED
      BY <1>9, <1>12, <2>2, <3>1, <3>2, <3>3
  <2> QED
    BY <1>6, <1>16, <2>1, <2>2
<1>17. ASSUME NEW x \in 1 .. Len(v), NEW y \in 1 .. Len(v), x < y
       PROVE  v[x] # v[y] /\ PlaceOf(s, v[x]) <= PlaceOf(s, v[y])
  <2>1. x \in 1 .. N + C /\ y \in 1 .. N + C /\ PlaceOf(s, v[y]) \in Nat
    BY <1>12, PlaceIs
  <2>2. CASE x \in 1 .. N /\ v[x] = a[x] /\ v[x] \in never /\ PlaceOf(s, v[x]) = 0
    <3>1. CASE y \in 1 .. N /\ v[y] = a[y] /\ v[y] \in never
      <4>1. a[x] < a[y] /\ a[x] \in Nat /\ a[y] \in Nat
        BY <1>7, <1>8, <1>17, <2>2, <3>1
      <4> QED
        BY <2>1, <2>2, <3>1, <4>1
    <3>2. CASE PlaceOf(s, v[y]) = at[y - N] /\ at[y - N] \in once
      <4>1. at[y - N] # 0
        BY <1>5, <3>2
      <4> QED
        BY <2>1, <2>2, <3>2, <4>1
    <3> QED
      BY <1>14, <2>1, <3>1, <3>2
  <2>3. CASE /\ x - N \in 1 .. C /\ v[x] = s[at[x - N]] /\ at[x - N] \in once
             /\ PlaceOf(s, v[x]) = at[x - N]
    <3>1. /\ y - N \in 1 .. C /\ v[y] = s[at[y - N]] /\ at[y - N] \in once
          /\ PlaceOf(s, v[y]) = at[y - N]
      BY <1>8, <1>14, <1>17, <2>1, <2>3
    <3>2. x - N < y - N
      BY <1>8, <1>17
    <3>3. at[x - N] < at[y - N] /\ at[x - N] \in Nat /\ at[y - N] \in Nat
      BY <1>5, <1>10, <2>3, <3>1, <3>2
    <3> QED
      BY <2>3, <3>1, <3>3
  <2> QED
    BY <1>14, <2>1, <2>2, <2>3
<1> QED
  BY <1>12, <1>15, <1>16, <1>17

-----------------------------------------------------------------------------
(* What the sampler object stores between calls: its branch tables and the  *)
(* payloads of its engines.                                                 *)
StoredTypes ==
    /\ table \in Seq(Handles) /\ beng \in Seq(Nat) /\ bclass \in Seq(Nat)
    /\ eclass \in Seq(Range(Emin) \ {NoRows})
    /\ branches \in [Engines -> Seq(Handles)] /\ DOMAIN payload = Engines
    /\ used \in [Engines -> Seq(Nat)] /\ budget \in [Engines -> Nat]

(* A registered branch has one number, and its number leads to it.          *)
Tables ==
    /\ Len(beng) = Len(table) /\ Len(bclass) = Len(table)
    /\ \A b, c \in DOMAIN table : table[b] = table[c] => b = c
    /\ \A x, y \in DOMAIN eclass : eclass[x] = eclass[y] => x = y
    /\ \A b \in DOMAIN table :
          /\ bclass[b] \in 0 .. Len(eclass)
          /\ beng[b] \in DOMAIN branches[bclass[b]]
          /\ branches[bclass[b]][beng[b]] = table[b]

(* A resident payload is its own branch's, and no branch is used twice.     *)
Payloads == \A k \in Engines :
    /\ DOMAIN payload[k] \subseteq DOMAIN branches[k]
    /\ \A n \in DOMAIN payload[k] : payload[k][n] = branches[k][n]
    /\ \A i, j \in DOMAIN used[k] : used[k][i] = used[k][j] => i = j

Stored == StoredTypes /\ Tables /\ Payloads

LEMMA EnginesAre ==
    /\ Engines = 0 .. Cardinality(Range(Emin) \ {NoRows})
    /\ Cardinality(Range(Emin) \ {NoRows}) \in Nat
    /\ IsFiniteSet(Range(Emin) \ {NoRows})
    /\ 0 \in Engines /\ \A k \in Engines : k \in Nat
<1>1. IsFiniteSet(Range(Emin) \ {NoRows})
  BY ConstantsAssumption, FS_Subset DEF ConstantsAssumption
<1>2. Cardinality(Range(Emin) \ {NoRows}) \in Nat
  BY <1>1, FS_CardinalityType
<1> QED
  BY <1>1, <1>2 DEF Engines

(* There is an engine for every E_min.                                      *)
LEMMA EngineForEach ==
    ASSUME NEW s \in Seq(Range(Emin) \ {NoRows}), \A x, y \in DOMAIN s : s[x] = s[y] => x = y
    PROVE  0 .. Len(s) \subseteq Engines
<1> DEFINE E == Range(Emin) \ {NoRows}
<1> HIDE DEF E
<1>1. s \in [1 .. Len(s) -> E] /\ Len(s) \in Nat /\ DOMAIN s = 1 .. Len(s)
  BY DEF E
<1>2. s \in Injection(1 .. Len(s), E)
  BY <1>1 DEF Injection, IsInjective
<1>3. IsFiniteSet(E) /\ Cardinality(E) \in Nat /\ Engines = 0 .. Cardinality(E)
  BY EnginesAre DEF E
<1>4. Cardinality(1 .. Len(s)) <= Cardinality(E)
  BY <1>2, <1>3, FS_Injection
<1>5. Cardinality(1 .. Len(s)) = Len(s)
  <2>1. Cardinality(1 .. Len(s)) = IF 1 > Len(s) THEN 0 ELSE Len(s) - 1 + 1
    BY <1>1, FS_Interval
  <2> QED
    BY <1>1, <2>1
<1> QED
  BY <1>1, <1>3, <1>4, <1>5

LEMMA StoredStays ==
    ASSUME Stored, UNCHANGED <<tableVars, branches, payload, used>>, budget' \in [Engines -> Nat]
    PROVE  Stored'
BY DEF Stored, StoredTypes, Tables, Payloads, tableVars

(* What is evicted to make room for branch n, and what is kept.             *)
LEMMA ResidentNumbers ==
    ASSUME Stored, NEW k \in Engines
    PROVE  /\ DOMAIN payload[k] \in SUBSET Nat /\ IsFiniteSet(DOMAIN payload[k])
           /\ DOMAIN branches[k] \in SUBSET Nat /\ IsFiniteSet(DOMAIN branches[k])
           /\ DOMAIN payload[k] \subseteq DOMAIN branches[k]
<1>1. branches[k] \in Seq(Handles) /\ DOMAIN payload[k] \in SUBSET DOMAIN branches[k]
  BY DEF Stored, StoredTypes, Payloads
<1>2. DOMAIN branches[k] \in SUBSET (DOMAIN branches[k])
  OBVIOUS
<1> QED
  BY <1>1, <1>2, PositionsAreFinite

LEMMA VictimsAre ==
    ASSUME Stored, NEW k \in Engines, NEW n, NEW v, v = Victims(k, n)
    PROVE  /\ v \in Seq(Nat)
           /\ \A x \in 1 .. Len(v) : v[x] \in DOMAIN payload[k] /\ v[x] # n
           /\ \A m \in DOMAIN payload[k] : m # n => \E x \in 1 .. Len(v) : v[x] = m
           /\ \A x, y \in 1 .. Len(v) :
                 x < y => v[x] # v[y] /\ PlaceOf(used[k], v[x]) <= PlaceOf(used[k], v[y])
<1> DEFINE D == DOMAIN payload[k]
           s == used[k]
<1>1. D \in SUBSET Nat /\ IsFiniteSet(D)
  BY ResidentNumbers
<1>2. s \in Seq(Nat) /\ \A x, y \in DOMAIN s : s[x] = s[y] => x = y
  BY DEF Stored, StoredTypes, Payloads
<1>3. v = Eviction(D, s, n)
  BY DEF Victims, Eviction
<1> HIDE DEF D, s
<1>4. /\ v \in Seq(Nat)
      /\ \A x \in 1 .. Len(v) : v[x] \in D /\ v[x] # n
      /\ \A m \in D : m # n => \E x \in 1 .. Len(v) : v[x] = m
      /\ \A x, y \in 1 .. Len(v) :
            x < y => v[x] # v[y] /\ PlaceOf(s, v[x]) <= PlaceOf(s, v[y])
  BY <1>1, <1>2, <1>3, EvictionOrder
<1> QED
  BY <1>4 DEF D, s

LeftAfter(v, n, c) == {n} \cup Range(SubSeq(v, c + 1, Len(v)))

LEMMA LeftAfterIs ==
    ASSUME NEW v \in Seq(Nat), NEW n, NEW c \in 0 .. Len(v)
    PROVE  LeftAfter(v, n, c) = {n} \cup {v[x] : x \in (c + 1) .. Len(v)}
<1> DEFINE w == SubSeq(v, c + 1, Len(v))
<1>1. Len(v) \in Nat /\ c \in Nat /\ c <= Len(v) /\ c + 1 \in Int /\ Len(v) \in Int
  OBVIOUS
<1>2. \A i \in (c + 1) .. Len(v) : v[i] \in Nat
  BY <1>1
<1>3. /\ w \in Seq(Nat)
      /\ Len(w) = IF c + 1 <= Len(v) THEN Len(v) - (c + 1) + 1 ELSE 0
      /\ \A i \in 1 .. Len(v) - (c + 1) + 1 : w[i] = v[c + 1 + i - 1]
  BY <1>1, <1>2, SubSeqProperties
<1> HIDE DEF w
<1>4. Len(w) = Len(v) - c /\ \A i \in 1 .. Len(v) - c : w[i] = v[c + i]
  BY <1>1, <1>3
<1>5. Range(w) = {w[i] : i \in 1 .. Len(v) - c}
  BY <1>3, <1>4 DEF Range
<1>6. ASSUME NEW i \in 1 .. Len(v) - c PROVE \E x \in (c + 1) .. Len(v) : v[x] = w[i]
  <2>1. c + i \in (c + 1) .. Len(v)
    BY <1>1
  <2> QED
    BY <1>4, <2>1
<1>7. ASSUME NEW x \in (c + 1) .. Len(v) PROVE \E i \in 1 .. Len(v) - c : v[x] = w[i]
  <2>1. x - c \in 1 .. Len(v) - c /\ c + (x - c) = x
    BY <1>1
  <2> QED
    BY <1>4, <2>1
<1>8. Range(w) = {v[x] : x \in (c + 1) .. Len(v)}
  <2>1. \A e \in Range(w) : e \in {v[x] : x \in (c + 1) .. Len(v)}
    BY <1>5, <1>6
  <2>2. \A x \in (c + 1) .. Len(v) : v[x] \in Range(w)
    BY <1>5, <1>7
  <2> QED
    BY <2>1, <2>2
<1> QED
  BY <1>8 DEF LeftAfter, w

LEMMA KeptIs ==
    ASSUME Stored, NEW k \in Engines, NEW n, NEW v, v = Victims(k, n)
    PROVE  \E cut \in 0 .. Len(v) :
              /\ Kept(k, n) = LeftAfter(v, n, cut)
              /\ cut = Len(v) \/ Total(k, LeftAfter(v, n, cut)) <= budget[k]
              /\ \A c \in 0 .. Len(v) : c < cut => ~(Total(k, LeftAfter(v, n, c)) <= budget[k])
<1> DEFINE I == {c \in 0 .. Len(v) : c = Len(v) \/ Total(k, LeftAfter(v, n, c)) <= budget[k]}
<1>1. Len(v) \in Nat
  BY VictimsAre
<1>2. I \in SUBSET Nat /\ Len(v) \in I
  BY <1>1
<1>3. IsFiniteSet(I)
  <2>1. \A c \in I : c <= Len(v)
    BY <1>1
  <2> QED
    BY <1>1, <1>2, <2>1, FS_BoundedSetOfNaturals
<1>4. Kept(k, n) = LeftAfter(v, n, Min(I))
  BY DEF Kept, LeftAfter
<1>5. Min(I) \in I /\ \A c \in I : Min(I) <= c
  <2> HIDE DEF I
  <2> QED
    BY <1>2, <1>3, MinIs
<1>6. ASSUME NEW c \in 0 .. Len(v), c < Min(I) PROVE c \notin I
  <2>1. Min(I) \in Nat /\ c \in Nat
    BY <1>1, <1>2, <1>5
  <2> QED
    BY <1>5, <1>6, <2>1
<1> QED
  BY <1>4, <1>5, <1>6

LEMMA KeptWithin ==
    ASSUME Stored, NEW k \in Engines, NEW n
    PROVE  n \in Kept(k, n) /\ Kept(k, n) \subseteq {n} \cup DOMAIN payload[k]
<1>1. PICK v : v = Victims(k, n)
  OBVIOUS
<1>2. v \in Seq(Nat) /\ \A x \in 1 .. Len(v) : v[x] \in DOMAIN payload[k]
  BY <1>1, VictimsAre
<1>3. PICK cut \in 0 .. Len(v) : Kept(k, n) = LeftAfter(v, n, cut)
  BY <1>1, KeptIs
<1>4. Kept(k, n) = {n} \cup {v[x] : x \in (cut + 1) .. Len(v)}
  BY <1>2, <1>3, LeftAfterIs
<1>5. \A x \in (cut + 1) .. Len(v) : x \in 1 .. Len(v)
  BY <1>2
<1> QED
  BY <1>2, <1>4, <1>5

LEMMA SuppliedIs ==
    ASSUME Stored, NEW k \in Engines, NEW n \in DOMAIN branches[k]
    PROVE  /\ DOMAIN Supplied(k, n) = {n} \cup DOMAIN payload[k]
           /\ \A m \in DOMAIN Supplied(k, n) : Supplied(k, n)[m] = branches[k][m]
<1>1. \A m \in DOMAIN payload[k] : payload[k][m] = branches[k][m]
  BY DEF Stored, Payloads
<1> QED
  BY <1>1 DEF Supplied, WithPayload

LEMMA NowUsedIs ==
    ASSUME Stored, NEW k \in Engines, NEW n \in Nat, NEW w, w = NowUsed(k, n)
    PROVE  /\ w \in Seq(Nat) /\ w # <<>> /\ Last(w) = n
           /\ \A x, y \in DOMAIN w : w[x] = w[y] => x = y
<1> DEFINE s == used[k]
           I == {i \in DOMAIN s : s[i] # n}
           p == Promise!Pick(s, I)
           C == Cardinality(I)
           a == Promise!Ascending(I)
<1>1. s \in Seq(Nat) /\ \A x, y \in DOMAIN s : s[x] = s[y] => x = y
  BY DEF Stored, StoredTypes, Payloads
<1>2. I \in SUBSET (DOMAIN s)
  OBVIOUS
<1>3. w = Append(p, n)
  BY DEF NowUsed
<1>i. \A i \in I : i \in DOMAIN s /\ s[i] # n
  OBVIOUS
<1> HIDE DEF s, I
<1>4. I \in SUBSET Nat /\ IsFiniteSet(I) /\ C \in Nat
  BY <1>1, <1>2, PositionsAreFinite
<1>5. p \in Seq(Nat) /\ Len(p) = C /\ \A x \in 1 .. C : a[x] \in I /\ p[x] = s[a[x]]
  BY <1>1, <1>2, PickIs
<1>6. \A x, y \in 1 .. C : x < y => a[x] < a[y]
  BY <1>4, AscendingRises
<1> HIDE DEF p, a, C
<1>7. w \in Seq(Nat) /\ Len(w) = C + 1 /\ w[C + 1] = n /\ \A x \in 1 .. C : w[x] = p[x]
  BY <1>3, <1>4, <1>5
<1>8. w # <<>> /\ Last(w) = n
  BY <1>4, <1>7 DEF Last
<1>9. ASSUME NEW x \in 1 .. C PROVE w[x] # n /\ a[x] \in Nat
  BY <1>4, <1>5, <1>7, <1>i
<1>10. ASSUME NEW x \in DOMAIN w, NEW y \in DOMAIN w, w[x] = w[y] PROVE ~(x < y)
  <2> SUFFICES ASSUME x < y PROVE FALSE
    OBVIOUS
  <2>1. x \in 1 .. C + 1 /\ y \in 1 .. C + 1
    BY <1>7
  <2>2. x \in 1 .. C
    BY <1>4, <2>1
  <2>3. CASE y = C + 1
    BY <1>7, <1>9, <1>10, <2>2, <2>3
  <2>4. CASE y # C + 1
    <3>1. y \in 1 .. C
      BY <1>4, <2>1, <2>4
    <3>2. a[x] < a[y] /\ a[x] \in Nat /\ a[y] \in Nat
      BY <1>6, <1>9, <2>2, <3>1
    <3>3. s[a[x]] = s[a[y]] /\ a[x] \in DOMAIN s /\ a[y] \in DOMAIN s
      BY <1>5, <1>7, <1>10, <1>i, <2>2, <3>1
    <3> QED
      BY <1>1, <3>2, <3>3
  <2> QED
    BY <2>3, <2>4
<1>11. \A x, y \in DOMAIN w : w[x] = w[y] => x = y
  <2>1. \A x \in DOMAIN w : x \in Nat
    BY <1>4, <1>7
  <2> QED
    BY <1>10, <2>1
<1> QED
  BY <1>7, <1>8, <1>11

LEMMA TouchKeeps ==
    ASSUME Stored, NEW k \in Engines, NEW n \in Nat, n <= Len(branches[k]), Touch(k, n),
           UNCHANGED <<tableVars, branches, budget>>
    PROVE  Stored'
<1>t. StoredTypes
  BY DEF Stored
<1>1. CASE UNCHANGED <<payload, used>>
  BY <1>1, <1>t, StoredStays DEF StoredTypes
<1>2. CASE /\ n # 0
           /\ used' = [used EXCEPT ![k] = NowUsed(k, n)]
           /\ payload' = [payload EXCEPT ![k] = Restrict(Supplied(k, n), Kept(k, n))]
  <2>1. n \in DOMAIN branches[k]
    BY <1>2, <1>t DEF StoredTypes
  <2>2. PICK w : w = NowUsed(k, n)
    OBVIOUS
  <2>3. w \in Seq(Nat) /\ \A x, y \in DOMAIN w : w[x] = w[y] => x = y
    BY <2>2, NowUsedIs
  <2>4. PICK f : f = Restrict(Supplied(k, n), Kept(k, n))
    OBVIOUS
  <2>5. /\ DOMAIN f \subseteq DOMAIN branches[k]
        /\ \A m \in DOMAIN f : f[m] = branches[k][m]
    <3>1. DOMAIN f = Kept(k, n) /\ \A m \in DOMAIN f : f[m] = Supplied(k, n)[m]
      BY <2>4 DEF Restrict
    <3>2. DOMAIN f \subseteq {n} \cup DOMAIN payload[k]
      BY <3>1, KeptWithin
    <3>3. DOMAIN payload[k] \subseteq DOMAIN branches[k]
      BY ResidentNumbers
    <3> QED
      BY <2>1, <3>1, <3>2, <3>3, SuppliedIs
  <2>6. used' = [used EXCEPT ![k] = w] /\ payload' = [payload EXCEPT ![k] = f]
    BY <1>2, <2>2, <2>4
  <2>7. StoredTypes'
    BY <1>t, <2>3, <2>6 DEF StoredTypes, tableVars
  <2>8. Tables'
    BY DEF Stored, Tables, tableVars
  <2>9. Payloads'
    <3>1. Payloads /\ used \in [Engines -> Seq(Nat)] /\ DOMAIN payload = Engines /\ branches' = branches
      BY <1>t DEF Stored, StoredTypes
    <3>2. \A j \in Engines : j # k => used'[j] = used[j] /\ payload'[j] = payload[j]
      BY <2>6, <3>1
    <3>3. used'[k] = w /\ payload'[k] = f
      BY <2>6, <3>1
    <3>4. ASSUME NEW j \in Engines
          PROVE  /\ DOMAIN payload'[j] \subseteq DOMAIN branches[j]
                 /\ \A m \in DOMAIN payload'[j] : payload'[j][m] = branches[j][m]
                 /\ \A x, y \in DOMAIN used'[j] : used'[j][x] = used'[j][y] => x = y
      <4>1. CASE j = k
        BY <2>3, <2>5, <3>3, <4>1
      <4>2. CASE j # k
        BY <3>1, <3>2, <4>2 DEF Payloads
      <4> QED
        BY <4>1, <4>2
    <3> QED
      BY <3>1, <3>4 DEF Payloads
  <2> QED
    BY <2>7, <2>8, <2>9 DEF Stored
<1> QED
  BY <1>1, <1>2 DEF Touch

(* What a touched engine holds is within its budget, at the price of the    *)
(* least recently used.                                                     *)
LEMMA TouchWithin ==
    ASSUME Stored, NEW k \in Engines, NEW n \in DOMAIN branches[k],
           used' = [used EXCEPT ![k] = NowUsed(k, n)],
           payload' = [payload EXCEPT ![k] = Restrict(Supplied(k, n), Kept(k, n))]
    PROVE  TouchedWithinBudget(k)
<1>t. used \in [Engines -> Seq(Nat)] /\ DOMAIN payload = Engines /\ branches[k] \in Seq(Handles) /\ budget[k] \in Nat
  BY DEF Stored, StoredTypes
<1>1. n \in Nat
  BY <1>t
<1>2. Last(used'[k]) = n
  BY <1>t, <1>1, NowUsedIs
<1> DEFINE kept == DOMAIN payload'[k]
           gone == DOMAIN payload[k] \ kept
           when(m) == PlaceOf(used[k], m)
<1>3. kept = Kept(k, n)
  BY <1>t DEF Restrict
<1>4. PICK v : v = Victims(k, n)
  OBVIOUS
<1>5. /\ v \in Seq(Nat)
      /\ \A x \in 1 .. Len(v) : v[x] \in DOMAIN payload[k] /\ v[x] # n
      /\ \A m \in DOMAIN payload[k] : m # n => \E x \in 1 .. Len(v) : v[x] = m
      /\ \A x, y \in 1 .. Len(v) : x < y => v[x] # v[y] /\ when(v[x]) <= when(v[y])
  BY <1>4, VictimsAre
<1>6. PICK cut \in 0 .. Len(v) :
              /\ Kept(k, n) = LeftAfter(v, n, cut)
              /\ cut = Len(v) \/ Total(k, LeftAfter(v, n, cut)) <= budget[k]
              /\ \A c \in 0 .. Len(v) : c < cut => ~(Total(k, LeftAfter(v, n, c)) <= budget[k])
  BY <1>4, KeptIs
<1>7. kept = {n} \cup {v[x] : x \in (cut + 1) .. Len(v)}
  BY <1>3, <1>5, <1>6, LeftAfterIs
<1>l. Len(v) \in Nat /\ cut \in Nat /\ cut <= Len(v)
  BY <1>5
<1>w. \A m : when(m) \in Nat
  BY <1>t, PlaceIs
<1> HIDE DEF kept, when
<1>8. kept = {n} \/ Total(k, kept) <= budget[k]
  <2>1. CASE cut = Len(v)
    <3>1. (cut + 1) .. Len(v) = {}
      BY <1>l, <2>1
    <3> QED
      BY <1>7, <3>1
  <2> QED
    BY <1>3, <1>6, <2>1
<1>9. ASSUME NEW m \in gone PROVE \E x \in 1 .. cut : v[x] = m
  <2>1. m # n /\ m \in DOMAIN payload[k] /\ m \notin kept
    BY <1>7
  <2>2. PICK x \in 1 .. Len(v) : v[x] = m
    BY <1>5, <2>1
  <2>3. x \notin (cut + 1) .. Len(v)
    BY <1>7, <2>1, <2>2
  <2> QED
    BY <1>l, <2>2, <2>3
<1>10. ASSUME NEW m \in gone, NEW o \in kept \ {n} PROVE when(m) <= when(o)
  <2>1. PICK x \in 1 .. cut : v[x] = m
    BY <1>9
  <2>2. PICK y \in (cut + 1) .. Len(v) : v[y] = o
    BY <1>7
  <2>3. x \in 1 .. Len(v) /\ y \in 1 .. Len(v) /\ x < y
    BY <1>l
  <2> QED
    BY <1>5, <2>1, <2>2, <2>3
<1>11. ASSUME gone # {}
       PROVE  \E m \in gone : /\ \A o \in gone : when(o) <= when(m)
                              /\ Total(k, kept \cup {m}) > budget[k]
  <2>1. cut \in 1 .. Len(v) /\ cut - 1 \in 0 .. Len(v) /\ cut - 1 < cut
    BY <1>9, <1>11, <1>l
  <2> DEFINE m == v[cut]
  <2>2. m \in gone
    <3>1. m \in DOMAIN payload[k] /\ m # n
      BY <1>5, <2>1
    <3>2. \A x \in (cut + 1) .. Len(v) : v[x] # m
      <4>1. \A x \in (cut + 1) .. Len(v) : x \in 1 .. Len(v) /\ cut < x
        BY <1>l
      <4> QED
        BY <1>5, <2>1, <4>1
    <3> QED
      BY <1>7, <3>1, <3>2
  <2>3. ASSUME NEW o \in gone PROVE when(o) <= when(m)
    <3>1. PICK x \in 1 .. cut : v[x] = o
      BY <1>9
    <3>2. x = cut \/ (x < cut /\ x \in 1 .. Len(v))
      BY <1>l
    <3> QED
      BY <1>5, <1>w, <2>1, <3>1, <3>2
  <2>4. kept \cup {m} = LeftAfter(v, n, cut - 1)
    <3>1. LeftAfter(v, n, cut - 1) = {n} \cup {v[x] : x \in cut .. Len(v)}
      <4>1. LeftAfter(v, n, cut - 1) = {n} \cup {v[x] : x \in (cut - 1 + 1) .. Len(v)}
        BY <1>5, <2>1, LeftAfterIs
      <4>2. cut - 1 + 1 = cut
        BY <1>l
      <4> QED
        BY <4>1, <4>2
    <3>2. cut .. Len(v) = {cut} \cup ((cut + 1) .. Len(v))
      BY <1>l, <2>1
    <3> QED
      BY <1>7, <3>1, <3>2
  <2>5. ~(Total(k, kept \cup {m}) <= budget[k])
    BY <1>6, <2>1, <2>4
  <2>6. Total(k, kept \cup {m}) \in Nat
    <3> DEFINE S == kept \cup {m}
    <3>1. S \in SUBSET (DOMAIN branches[k])
      <4>1. kept \subseteq {n} \cup DOMAIN payload[k]
        BY <1>3, KeptWithin
      <4>2. DOMAIN payload[k] \subseteq DOMAIN branches[k]
        BY ResidentNumbers
      <4> QED
        BY <2>2, <4>1, <4>2
    <3>2. IsFiniteSet(S)
      BY <1>t, <3>1, PositionsAreFinite
    <3>3. \A x \in S : BytesIn(k)[x] \in Nat
      <4>1. \A x \in DOMAIN branches[k] : branches[k][x] \in Handles
        BY <1>t
      <4> QED
        BY <3>1, <4>1, ConstantsAssumption DEF ConstantsAssumption, BytesIn
    <3> HIDE DEF S
    <3>4. SumFunctionOnSet(BytesIn(k), S) \in Nat
      BY <3>2, <3>3, SumNat
    <3> QED
      BY <3>4 DEF S, Total
  <2>7. Total(k, kept \cup {m}) > budget[k]
    BY <1>t, <2>5, <2>6
  <2> QED
    BY <2>2, <2>3, <2>7
<1>12. n \in kept
  BY <1>7
<1>13. /\ n \in kept
       /\ kept = {n} \/ Total(k, kept) <= budget[k]
       /\ \A m \in gone, o \in kept \ {n} : when(m) <= when(o)
       /\ gone = {} \/ \E m \in gone : /\ \A o \in gone : when(o) <= when(m)
                                       /\ Total(k, kept \cup {m}) > budget[k]
  BY <1>8, <1>10, <1>11, <1>12
<1> HIDE DEF gone
<1>14. n = Last(used'[k])
  BY <1>2
<1> QED
  BY ONLY <1>13, <1>14 DEF TouchedWithinBudget, kept, gone, when, PlaceOf

-----------------------------------------------------------------------------
(* The calls.                                                               *)
Row == [branch : Handles \cup {Ideal}, reference : Nat]
Runs == [engine : Engines, cls : Seq(Nat), shots : Seq(Nat), pos : Nat, sink : Seq(Row), out : Seq(Row)]
Places == {"idle", "branches", "run", "tail", "add", "host"}

CallTypes ==
    /\ flag \in Threads \cup {NoThread} /\ valid \in BOOLEAN /\ recording \in BOOLEAN
    /\ engIb \in Seq(Nat) /\ clsIb \in Seq(Nat)
    /\ branchIds \in [Engines -> Seq(Nat)] /\ sinkOf \in [Engines -> Threads \cup {NoThread}]
    /\ pc \in [Threads -> Places] /\ call \in [Threads -> Calls \cup {NoCall}]
    /\ run \in [Threads -> Runs]

(* A thread is in a call while it holds the flag.                           *)
Held == \A t \in Threads :
    /\ pc[t] = "idle" <=> flag # t
    /\ pc[t] = "idle" => call[t] = NoCall
    /\ pc[t] \in {"branches", "run", "tail"} => call[t] \in RunCalls
    /\ pc[t] \in {"add", "host"} => call[t] \in AddCalls

Handed == \A k \in Engines : branchIds[k] = <<>> /\ sinkOf[k] = NoThread
Clean == clsIb = <<>> /\ (Mixed \/ engIb = <<>>) /\ Handed

MixedCall(c) == c.rec /\ Known(c.ib) /\ AnyOwn(c.ib) /\ AnyClass(Classes(c.ib))

(* What the call in progress has handed down, and what it has got back.      *)
Progress(t, ib, k, cls, shots) ==
    /\ Known(ib) /\ cls = Classes(ib)
    /\ k \in 0 .. Len(eclass) /\ (k # 0 => AnyClass(cls))
    /\ shots = ShotsOf(cls, k) /\ run[t].pos <= Len(shots)
    /\ Mixed \/ engIb = IF AnyOwn(ib) THEN OwnIds(ib) ELSE <<>>
    /\ AnyClass(cls) => clsIb = ClassIds(ib)
    /\ k = 0 => branchIds[0] = engIb
    /\ k # 0 => branchIds[k] = [x \in DOMAIN shots |-> clsIb[shots[x]]]
    /\ sinkOf[k] = t
    /\ \A j \in Engines \ {k} : branchIds[j] = <<>> /\ sinkOf[j] = NoThread
    /\ ~EngineMasks(t) => Len(run[t].sink) = run[t].pos
    /\ k # 0 => Len(run[t].out) = Len(ib)

InRun(t) == Progress(t, call[t].ib, run[t].engine, run[t].cls, run[t].shots)

InTail(t) == Known(call[t].ib) /\ run[t].cls = Classes(call[t].ib) /\ Handed

InPhase(t) ==
    /\ pc[t] \in {"add", "host"} => Clean /\ ~recording
    /\ pc[t] = "branches" => /\ Clean /\ recording = call[t].rec
                             /\ Mixed \/ ~MixedCall(call[t])
    /\ pc[t] = "run" => InRun(t)
    /\ pc[t] = "tail" => InTail(t)

Phases ==
    /\ flag = NoThread => Clean /\ ~recording
    /\ \A t \in Threads : InPhase(t)

IInv == Stored /\ CallTypes /\ Held /\ Phases

(* Whoever is in a call is alone.                                           *)
LEMMA Alone ==
    ASSUME Held, NEW t \in Threads, pc[t] # "idle"
    PROVE  flag = t /\ \A u \in Threads : u # t => pc[u] = "idle" /\ flag # u
BY DEF Held

LEMMA NobodyIn ==
    ASSUME Held, flag = NoThread
    PROVE  \A u \in Threads : pc[u] = "idle" /\ call[u] = NoCall
BY ConstantsAssumption DEF Held, ConstantsAssumption

LEMMA OthersInPhase ==
    ASSUME NEW t \in Threads, \A u \in Threads : u # t => pc'[u] = "idle", InPhase(t)',
           flag' = NoThread => Clean' /\ ~recording'
    PROVE  Phases'
BY DEF Phases, InPhase

LEMMA CallKinds ==
    /\ \A c \in RunCalls : /\ c.kind = "run" /\ c.ib \in Seq(Nat) /\ c.masked \in BOOLEAN /\ c.rec \in BOOLEAN
                           /\ c \in Calls /\ c # NoCall
    /\ \A c \in AddCalls : c.kind = "add" /\ c.handle \in Handles /\ c \in Calls /\ c # NoCall
<1>1. ASSUME NEW c \in RunCalls PROVE c.kind = "run" /\ c.ib \in Seq(Nat) /\ c.masked \in BOOLEAN /\ c.rec \in BOOLEAN
  <2>1. c.ib \in Asks /\ c.kind = "run" /\ c.masked \in BOOLEAN /\ c.rec \in BOOLEAN
    BY DEF RunCalls
  <2> QED
    BY <2>1, ConstantsAssumption DEF ConstantsAssumption
<1>2. ASSUME NEW c \in AddCalls PROVE c.kind = "add" /\ c.handle \in Handles
  BY DEF AddCalls
<1>3. \A c \in RunCalls \cup AddCalls : c \in Calls /\ c # NoCall
  BY NoCallAssumption DEF NoCallAssumption, Calls
<1> QED
  BY <1>1, <1>2, <1>3

LEMMA NoRunIs == NoRun \in Runs
BY EnginesAre DEF NoRun, Runs

(* However a call ends.                                                     *)
LEMMA LeaveKeeps ==
    ASSUME CallTypes, Held, NEW t \in Threads, pc[t] # "idle", NEW a, Leave(t, a),
           valid' \in BOOLEAN, engIb' \in Seq(Nat), clsIb' \in Seq(Nat),
           branchIds' \in [Engines -> Seq(Nat)], sinkOf' \in [Engines -> Threads \cup {NoThread}],
           Clean'
    PROVE  CallTypes' /\ Held' /\ Phases'
<1>1. /\ flag' = NoThread /\ recording' = FALSE /\ pc' = [pc EXCEPT ![t] = "idle"]
      /\ call' = [call EXCEPT ![t] = NoCall] /\ run' = [run EXCEPT ![t] = NoRun]
  BY DEF Leave
<1>2. \A u \in Threads : u # t => pc[u] = "idle"
  BY Alone
<1>3. pc \in [Threads -> Places] /\ call \in [Threads -> Calls \cup {NoCall}] /\ run \in [Threads -> Runs]
  BY DEF CallTypes
<1>4. \A u \in Threads : pc'[u] = "idle" /\ (call[u] = NoCall => call'[u] = NoCall) /\ call'[t] = NoCall
  BY <1>1, <1>2, <1>3
<1>5. CallTypes'
  BY <1>1, <1>3, NoRunIs DEF CallTypes, Places
<1>6. Held'
  BY <1>1, <1>2, <1>4, ConstantsAssumption DEF Held, ConstantsAssumption
<1>7. Phases'
  BY <1>1, <1>4 DEF Phases, InPhase
<1> QED
  BY <1>5, <1>6, <1>7

LEMMA InitRight == Init => IInv
<1> SUFFICES ASSUME Init PROVE IInv
  OBVIOUS
<1>1. Stored
  BY EnginesAre, ConstantsAssumption DEF Init, Stored, StoredTypes, Tables, Payloads, ConstantsAssumption
<1>e. <<>> \in Seq(Nat)
  OBVIOUS
<1>2. CallTypes
  <2>1. flag \in Threads \cup {NoThread} /\ valid \in BOOLEAN /\ recording \in BOOLEAN
    BY DEF Init
  <2>2. engIb \in Seq(Nat) /\ clsIb \in Seq(Nat)
    BY DEF Init
  <2>3. branchIds \in [Engines -> Seq(Nat)] /\ sinkOf \in [Engines -> Threads \cup {NoThread}]
    BY <1>e DEF Init
  <2>4. pc \in [Threads -> Places] /\ call \in [Threads -> Calls \cup {NoCall}]
    BY DEF Init, Places
  <2>5. run \in [Threads -> Runs]
    BY NoRunIs DEF Init
  <2> QED
    BY <2>1, <2>2, <2>3, <2>4, <2>5 DEF CallTypes
<1>3. Held
  BY ConstantsAssumption DEF Init, Held, ConstantsAssumption
<1>4. Phases
  BY DEF Init, Phases, InPhase, Clean, Handed
<1> QED
  BY <1>1, <1>2, <1>3, <1>4 DEF IInv

LEMMA PhasesStay ==
    ASSUME Phases, UNCHANGED <<flag, recording, engIb, clsIb, tableVars, engineVars, pc, call, run>>
    PROVE  Phases'
<1>1. UNCHANGED <<table, beng, bclass, eclass, branchIds, sinkOf>>
  BY DEF tableVars, engineVars
<1>2. ASSUME NEW u \in Threads PROVE InPhase(u)'
  <2> DEFINE ib == call[u].ib
  <2>1. Known(ib)' <=> Known(ib)
    BY <1>1 DEF Known
  <2>2. Classes(ib)' = Classes(ib)
    BY <1>1 DEF Classes
  <2>3. AnyOwn(ib)' <=> AnyOwn(ib)
    BY <1>1 DEF AnyOwn
  <2>4. OwnIds(ib)' = OwnIds(ib) /\ ClassIds(ib)' = ClassIds(ib)
    BY <1>1, <2>2 DEF OwnIds, ClassIds, InEngine
  <2>5. AnyClass(run[u].cls)' <=> AnyClass(run[u].cls)
    BY <1>1
  <2>6. AnyClass(Classes(ib))' <=> AnyClass(Classes(ib))
    BY <2>2
  <2>7. ShotsOf(run[u].cls, run[u].engine)' = ShotsOf(run[u].cls, run[u].engine)
    BY <1>1
  <2>8. EngineMasks(u)' <=> EngineMasks(u)
    BY <2>5 DEF EngineMasks
  <2>9. (Clean' <=> Clean) /\ (Handed' <=> Handed)
    BY <1>1 DEF Clean, Handed
  <2>10. InRun(u)' <=> InRun(u)
    BY <1>1, <2>1, <2>2, <2>3, <2>4, <2>5, <2>7, <2>8 DEF InRun, Progress
  <2>11. InTail(u)' <=> InTail(u)
    BY <1>1, <2>1, <2>2, <2>9 DEF InTail
  <2>12. MixedCall(call[u])' <=> MixedCall(call[u])
    BY <1>1, <2>1, <2>3, <2>6 DEF MixedCall
  <2> QED
    BY <1>1, <2>9, <2>10, <2>11, <2>12 DEF Phases, InPhase
<1>3. flag' = NoThread => Clean' /\ ~recording'
  BY <1>1 DEF Phases, Clean, Handed
<1> QED
  BY <1>2, <1>3 DEF Phases

LEMMA TurnAwayKeeps ==
    ASSUME IInv, NEW t \in Threads, TurnAway(t)
    PROVE  IInv'
<1>1. UNCHANGED <<objectVars, tableVars, payloadVars, engineVars, pc, call, run>>
  BY DEF TurnAway
<1>2. Stored'
  BY <1>1, StoredStays DEF IInv, Stored, StoredTypes, payloadVars
<1>3. CallTypes' /\ Held'
  BY <1>1 DEF IInv, CallTypes, Held, objectVars, engineVars
<1>4. Phases'
  BY <1>1, PhasesStay DEF IInv, objectVars
<1> QED
  BY <1>2, <1>3, <1>4 DEF IInv

LEMMA SetBudgetKeeps ==
    ASSUME IInv, NEW t \in Threads, SetBudget(t)
    PROVE  IInv'
<1>1. UNCHANGED <<objectVars, tableVars, branches, payload, used, engineVars, pc, call, run>>
  BY DEF SetBudget
<1>2. budget' \in [Engines -> Nat]
  BY ConstantsAssumption DEF SetBudget, IInv, Stored, StoredTypes, ConstantsAssumption
<1>3. Stored'
  BY <1>1, <1>2, StoredStays DEF IInv
<1>4. CallTypes' /\ Held'
  BY <1>1 DEF IInv, CallTypes, Held, objectVars, engineVars
<1>5. Phases'
  BY <1>1, PhasesStay DEF IInv, objectVars
<1> QED
  BY <1>3, <1>4, <1>5 DEF IInv

LEMMA TakeKeeps ==
    ASSUME CallTypes, Held, NEW t \in Threads, NEW c, NEW at, Take(t, c, at),
           (at = "branches" /\ c \in RunCalls) \/ (at = "add" /\ c \in AddCalls),
           recording' \in BOOLEAN, UNCHANGED <<valid, engIb, clsIb, engineVars, run>>
    PROVE  /\ CallTypes' /\ Held' /\ flag = NoThread /\ flag' = t
           /\ \A u \in Threads : u # t => pc'[u] = "idle"
           /\ pc'[t] = at /\ call'[t] = c
<1>1. /\ flag = NoThread /\ flag' = t /\ pc' = [pc EXCEPT ![t] = at] /\ call' = [call EXCEPT ![t] = c]
  BY DEF Take, Free
<1>2. \A u \in Threads : pc[u] = "idle" /\ call[u] = NoCall
  BY <1>1, NobodyIn
<1>3. pc \in [Threads -> Places] /\ call \in [Threads -> Calls \cup {NoCall}]
  BY DEF CallTypes
<1>4. c \in Calls /\ at \in Places
  BY CallKinds DEF Places
<1>5. /\ \A u \in Threads : u # t => pc'[u] = "idle" /\ call'[u] = NoCall
      /\ pc'[t] = at /\ call'[t] = c
  BY <1>1, <1>2, <1>3
<1>6. CallTypes'
  BY <1>1, <1>3, <1>4 DEF CallTypes, engineVars
<1>7. Held'
  BY <1>1, <1>5 DEF Held
<1> QED
  BY <1>1, <1>5, <1>6, <1>7

LEMMA AskRunKeeps ==
    ASSUME IInv, NEW t \in Threads, AskRun(t)
    PROVE  IInv'
<1>1. PICK c \in RunCalls : /\ Mixed \/ ~MixedCall(c)
                            /\ Take(t, c, "branches")
                            /\ recording' = c.rec
                            /\ UNCHANGED <<valid, engIb, clsIb, tableVars, payloadVars, engineVars, run, answer>>
  BY DEF AskRun, MixedCall
<1>2. c.rec \in BOOLEAN
  BY CallKinds
<1>3. /\ CallTypes' /\ Held' /\ flag = NoThread /\ flag' = t
      /\ \A u \in Threads : u # t => pc'[u] = "idle"
      /\ pc'[t] = "branches" /\ call'[t] = c
  BY <1>1, <1>2, TakeKeeps DEF IInv
<1>4. Stored'
  BY <1>1, StoredStays DEF IInv, Stored, StoredTypes, payloadVars
<1>5. Clean'
  <2>1. Clean
    BY <1>3 DEF IInv, Phases
  <2> QED
    BY <1>1, <2>1 DEF Clean, Handed, engineVars
<1>6. MixedCall(c)' <=> MixedCall(c)
  <2>1. Known(c.ib)' <=> Known(c.ib)
    BY <1>1 DEF Known, tableVars
  <2>2. AnyOwn(c.ib)' <=> AnyOwn(c.ib)
    BY <1>1 DEF AnyOwn, tableVars
  <2>3. Classes(c.ib)' = Classes(c.ib)
    BY <1>1 DEF Classes, tableVars
  <2>4. AnyClass(Classes(c.ib))' <=> AnyClass(Classes(c.ib))
    BY <2>3
  <2> QED
    BY <2>1, <2>2, <2>4 DEF MixedCall
<1>7. MixedCall(call[t])' <=> MixedCall(c)'
  BY <1>3 DEF MixedCall
<1>8. InPhase(t)'
  BY <1>1, <1>3, <1>5, <1>6, <1>7 DEF InPhase
<1>9. Phases'
  BY <1>3, <1>8, OthersInPhase, ConstantsAssumption DEF ConstantsAssumption
<1> QED
  BY <1>3, <1>4, <1>9 DEF IInv

LEMMA AskAddKeeps ==
    ASSUME IInv, NEW t \in Threads, AskAdd(t)
    PROVE  IInv'
<1>1. PICK c \in AddCalls :
              /\ Take(t, c, "add")
              /\ UNCHANGED <<valid, recording, engIb, clsIb, tableVars, payloadVars, engineVars, run, answer>>
  BY DEF AskAdd
<1>2. recording \in BOOLEAN
  BY DEF IInv, CallTypes
<1>3. /\ CallTypes' /\ Held' /\ flag = NoThread /\ flag' = t
      /\ \A u \in Threads : u # t => pc'[u] = "idle"
      /\ pc'[t] = "add" /\ call'[t] = c
  BY <1>1, <1>2, TakeKeeps DEF IInv
<1>4. Stored'
  BY <1>1, StoredStays DEF IInv, Stored, StoredTypes, payloadVars
<1>5. Clean' /\ ~recording'
  <2>1. Clean /\ ~recording
    BY <1>3 DEF IInv, Phases
  <2> QED
    BY <1>1, <2>1 DEF Clean, Handed, engineVars
<1>6. InPhase(t)'
  BY <1>3, <1>5 DEF InPhase
<1>7. Phases'
  BY <1>3, <1>6, OthersInPhase, ConstantsAssumption DEF ConstantsAssumption
<1> QED
  BY <1>3, <1>4, <1>7 DEF IInv

LEMMA AddRefusedKeeps ==
    ASSUME IInv, NEW t \in Threads, AddRefused(t)
    PROVE  IInv'
<1>1. /\ pc[t] \in {"add", "host"} /\ Leave(t, Failed)
      /\ UNCHANGED <<valid, engIb, clsIb, tableVars, payloadVars, engineVars>>
  BY DEF AddRefused
<1>2. Clean
  BY <1>1 DEF IInv, Phases, InPhase
<1>3. Clean'
  BY <1>1, <1>2 DEF Clean, Handed, engineVars
<1>4. CallTypes' /\ Held' /\ Phases'
  BY <1>1, <1>3, LeaveKeeps DEF IInv, CallTypes, engineVars
<1>5. Stored'
  BY <1>1, StoredStays DEF IInv, Stored, StoredTypes, payloadVars
<1> QED
  BY <1>4, <1>5 DEF IInv

LEMMA BuildHostKeeps ==
    ASSUME IInv, NEW t \in Threads, BuildHost(t)
    PROVE  IInv'
<1>1. /\ pc[t] = "add" /\ pc' = [pc EXCEPT ![t] = "host"]
      /\ UNCHANGED <<objectVars, tableVars, payloadVars, engineVars, call, run>>
  BY DEF BuildHost
<1>2. flag = t /\ \A u \in Threads : u # t => pc[u] = "idle"
  BY <1>1, Alone DEF IInv
<1>3. pc \in [Threads -> Places]
  BY DEF IInv, CallTypes
<1>4. pc'[t] = "host" /\ \A u \in Threads : u # t => pc'[u] = pc[u]
  BY <1>1, <1>3
<1>5. CallTypes'
  BY <1>1, <1>3 DEF IInv, CallTypes, Places, objectVars, engineVars
<1>6. Held'
  BY <1>1, <1>4 DEF IInv, Held, objectVars
<1>7. Clean' /\ ~recording'
  BY <1>1 DEF IInv, Phases, InPhase, Clean, Handed, objectVars, engineVars
<1>8. Phases'
  <2>1. InPhase(t)'
    BY <1>4, <1>7 DEF InPhase
  <2> QED
    BY <1>2, <1>4, <1>7, <2>1, OthersInPhase
<1>9. Stored'
  BY <1>1, StoredStays DEF IInv, Stored, StoredTypes, payloadVars
<1> QED
  BY <1>5, <1>6, <1>8, <1>9 DEF IInv

(* IbReset empties what the run of engine k was given.                      *)
LEMMA ResetCleans ==
    ASSUME CallTypes, NEW k \in Engines, IbReset(k),
           \A j \in Engines \ {k} : branchIds[j] = <<>> /\ sinkOf[j] = NoThread
    PROVE  /\ Clean' /\ engIb' \in Seq(Nat) /\ clsIb' \in Seq(Nat)
           /\ branchIds' \in [Engines -> Seq(Nat)] /\ sinkOf' \in [Engines -> Threads \cup {NoThread}]
<1>1. branchIds \in [Engines -> Seq(Nat)] /\ sinkOf \in [Engines -> Threads \cup {NoThread}]
  BY DEF CallTypes
<1>2. /\ branchIds' = [branchIds EXCEPT ![k] = <<>>, ![0] = <<>>]
      /\ sinkOf' = [sinkOf EXCEPT ![k] = NoThread] /\ engIb' = <<>> /\ clsIb' = <<>>
  BY DEF IbReset
<1>3. <<>> \in Seq(Nat) /\ 0 \in Engines
  BY EnginesAre
<1>4. branchIds' \in [Engines -> Seq(Nat)] /\ sinkOf' \in [Engines -> Threads \cup {NoThread}]
  BY <1>1, <1>2, <1>3
<1>5. \A j \in Engines : branchIds'[j] = <<>> /\ sinkOf'[j] = NoThread
  BY <1>1, <1>2, <1>3
<1>6. Clean'
  BY <1>2, <1>5 DEF Clean, Handed
<1> QED
  BY <1>2, <1>3, <1>4, <1>6

LEMMA RunFailsKeeps ==
    ASSUME IInv, NEW t \in Threads, RunFails(t)
    PROVE  IInv'
<1>1. /\ pc[t] = "run" /\ Leave(t, Failed) /\ IbReset(run[t].engine) /\ valid' \in {valid, FALSE}
      /\ UNCHANGED <<tableVars, payloadVars>>
  BY DEF RunFails
<1>2. InRun(t) /\ run[t].engine \in Engines /\ valid \in BOOLEAN
  BY <1>1 DEF IInv, Phases, InPhase, CallTypes, Runs
<1>3. \A j \in Engines \ {run[t].engine} : branchIds[j] = <<>> /\ sinkOf[j] = NoThread
  BY <1>2 DEF InRun, Progress
<1>4. /\ Clean' /\ engIb' \in Seq(Nat) /\ clsIb' \in Seq(Nat)
      /\ branchIds' \in [Engines -> Seq(Nat)] /\ sinkOf' \in [Engines -> Threads \cup {NoThread}]
  BY <1>1, <1>2, <1>3, ResetCleans DEF IInv
<1>5. CallTypes' /\ Held' /\ Phases'
  BY <1>1, <1>2, <1>4, LeaveKeeps DEF IInv
<1>6. Stored'
  BY <1>1, StoredStays DEF IInv, Stored, StoredTypes, payloadVars
<1> QED
  BY <1>5, <1>6 DEF IInv

LEMMA FinishKeeps ==
    ASSUME IInv, NEW t \in Threads, Finish(t)
    PROVE  IInv'
<1>1. PICK a : /\ pc[t] = "tail" /\ Leave(t, a) /\ IbReset(run[t].engine)
               /\ UNCHANGED <<valid, tableVars, payloadVars>>
  BY DEF Finish
<1>2. InTail(t) /\ run[t].engine \in Engines /\ valid \in BOOLEAN
  BY <1>1 DEF IInv, Phases, InPhase, CallTypes, Runs
<1>3. /\ Clean' /\ engIb' \in Seq(Nat) /\ clsIb' \in Seq(Nat)
      /\ branchIds' \in [Engines -> Seq(Nat)] /\ sinkOf' \in [Engines -> Threads \cup {NoThread}]
  BY <1>1, <1>2, ResetCleans DEF IInv, InTail, Handed
<1>4. CallTypes' /\ Held' /\ Phases'
  BY <1>1, <1>2, <1>3, LeaveKeeps DEF IInv
<1>5. Stored'
  BY <1>1, StoredStays DEF IInv, Stored, StoredTypes, payloadVars
<1> QED
  BY <1>4, <1>5 DEF IInv

LEMMA AppendOnce ==
    ASSUME NEW S, NEW s \in Seq(S), NEW e \in S, ~Contains(s, e),
           \A x, y \in DOMAIN s : s[x] = s[y] => x = y
    PROVE  \A x, y \in DOMAIN Append(s, e) : Append(s, e)[x] = Append(s, e)[y] => x = y
<1> DEFINE w == Append(s, e)
<1>1. /\ Len(s) \in Nat /\ DOMAIN s = 1 .. Len(s) /\ DOMAIN w = 1 .. Len(s) + 1
      /\ w[Len(s) + 1] = e /\ \A x \in 1 .. Len(s) : w[x] = s[x]
  OBVIOUS
<1>2. \A x \in 1 .. Len(s) : s[x] # e
  BY DEF Contains
<1> HIDE DEF w
<1>3. \A x \in DOMAIN w : x \in 1 .. Len(s) \/ x = Len(s) + 1
  BY <1>1
<1>4. \A x, y \in DOMAIN w : w[x] = w[y] => x = y
  BY <1>1, <1>2, <1>3
<1> QED
  BY <1>4 DEF w

(* The number and the engine a handle gets.                                 *)
LEMMA NumberIs ==
    ASSUME Stored, NEW h \in Handles
    PROVE  IF Contains(table, h) THEN NumberOf(h) \in 1 .. Len(table) /\ TableWith(h) = table
           ELSE NumberOf(h) = Len(table) + 1 /\ TableWith(h) = Append(table, h)
<1>1. table \in Seq(Handles) /\ Len(table) \in Nat
  BY DEF Stored, StoredTypes
<1>2. NumberOf(h) = PlaceOf(TableWith(h), h)
  BY DEF NumberOf, PlaceOf
<1>3. CASE Contains(table, h)
  BY <1>1, <1>2, <1>3, PlaceIs DEF TableWith
<1>4. CASE ~Contains(table, h)
  <2> DEFINE s == Append(table, h)
  <2>1. TableWith(h) = s
    BY <1>4 DEF TableWith
  <2>2. s \in Seq(Handles) /\ Len(s) = Len(table) + 1 /\ s[Len(table) + 1] = h
        /\ \A i \in 1 .. Len(table) : s[i] = table[i]
    BY <1>1
  <2> HIDE DEF s
  <2>3. Contains(s, h)
    <3>1. Len(table) + 1 \in 1 .. Len(s)
      BY <1>1, <2>2
    <3> QED
      BY <2>2, <3>1 DEF Contains
  <2>4. PlaceOf(s, h) \in 1 .. Len(s) /\ s[PlaceOf(s, h)] = h
    BY <2>2, <2>3, PlaceIs
  <2>5. PlaceOf(s, h) \notin 1 .. Len(table)
    BY <1>4, <2>2, <2>4 DEF Contains
  <2>6. PlaceOf(s, h) = Len(table) + 1
    BY <1>1, <2>2, <2>4, <2>5
  <2> QED
    BY <1>2, <1>4, <2>1, <2>6 DEF s
<1> QED
  BY <1>3, <1>4

LEMMA ClassNumberIs ==
    ASSUME Stored, NEW h \in Handles
    PROVE  /\ ClassesWith(h) \in Seq(Range(Emin) \ {NoRows})
           /\ \A x, y \in DOMAIN ClassesWith(h) : ClassesWith(h)[x] = ClassesWith(h)[y] => x = y
           /\ Len(eclass) <= Len(ClassesWith(h)) /\ Len(eclass) \in Nat /\ Len(ClassesWith(h)) \in Nat
           /\ ClassNumber(h) \in 0 .. Len(ClassesWith(h))
<1>1. /\ eclass \in Seq(Range(Emin) \ {NoRows}) /\ Len(eclass) \in Nat
      /\ \A x, y \in DOMAIN eclass : eclass[x] = eclass[y] => x = y
  BY DEF Stored, StoredTypes, Tables
<1> DEFINE E == Range(Emin) \ {NoRows}
           e == Emin[h]
<1>2. e # NoRows => e \in E
  BY ConstantsAssumption DEF ConstantsAssumption, Range
<1> HIDE DEF E
<1>3. CASE NeedsHost(h)
  <2>1. e \in E /\ ~Contains(eclass, e) /\ ClassesWith(h) = Append(eclass, e) /\ ClassNumber(h) = Len(eclass) + 1
    BY <1>2, <1>3 DEF NeedsHost, ClassesWith, ClassNumber
  <2>2. eclass \in Seq(E)
    BY <1>1 DEF E
  <2> DEFINE w == Append(eclass, e)
  <2>3. w \in Seq(E) /\ Len(w) = Len(eclass) + 1
    BY <2>1, <2>2
  <2>6. \A x, y \in DOMAIN w : w[x] = w[y] => x = y
    BY <1>1, <2>1, <2>2, AppendOnce
  <2> HIDE DEF w, e
  <2>7. ClassNumber(h) \in 0 .. Len(w)
    BY <1>1, <2>1, <2>3
  <2>8. w = ClassesWith(h)
    BY <2>1 DEF w, e
  <2> QED
    BY <1>1, <2>3, <2>6, <2>7, <2>8 DEF E
<1>4. CASE ~NeedsHost(h)
  <2>1. ClassesWith(h) = eclass /\ ClassNumber(h) = ClassOf(h)
    BY <1>4 DEF ClassesWith, ClassNumber
  <2>2. ClassOf(h) \in 0 .. Len(eclass)
    <3>1. CASE e = NoRows
      BY <1>1, <3>1 DEF ClassOf
    <3>2. CASE e # NoRows
      <4>1. Contains(eclass, e) /\ ClassOf(h) = PlaceOf(eclass, e)
        BY <1>4, <3>2 DEF NeedsHost, ClassOf, PlaceOf
      <4>2. PlaceOf(eclass, e) \in 1 .. Len(eclass)
        BY <1>1, <4>1, PlaceIs
      <4> QED
        BY <1>1, <4>1, <4>2
    <3> QED
      BY <3>1, <3>2
  <2> QED
    BY <1>1, <2>1, <2>2
<1> QED
  BY <1>3, <1>4

(* add_branch of a branch it does not have.                                 *)
LEMMA AddStores ==
    ASSUME Stored, NEW h \in Handles, ~Contains(table, h), NEW k, k = ClassNumber(h), NEW n, n = NextIn(k),
           table' = Append(table, h), eclass' = ClassesWith(h),
           beng' = Append(beng, n), bclass' = Append(bclass, k),
           branches' = [branches EXCEPT ![k] = Append(@, h)],
           payload' = [payload EXCEPT ![k] = WithPayload(@, n, h)],
           UNCHANGED <<used, budget>>
    PROVE  Stored'
<1>1. /\ eclass' \in Seq(Range(Emin) \ {NoRows})
      /\ \A x, y \in DOMAIN eclass' : eclass'[x] = eclass'[y] => x = y
      /\ Len(eclass) <= Len(eclass') /\ Len(eclass) \in Nat /\ Len(eclass') \in Nat
      /\ k \in 0 .. Len(eclass')
  BY ClassNumberIs
<1>2. k \in Engines /\ k \in Nat
  <2>1. 0 .. Len(eclass') \subseteq Engines
    BY <1>1, EngineForEach
  <2> QED
    BY <1>1, <2>1
<1>t. StoredTypes /\ Tables /\ Payloads
  BY DEF Stored
<1>3. branches[k] \in Seq(Handles) /\ n = Len(branches[k]) + 1 /\ n \in Nat /\ Len(branches[k]) \in Nat
  BY <1>2, <1>t DEF StoredTypes, NextIn
<1>4. /\ branches'[k] = Append(branches[k], h) /\ \A j \in Engines : j # k => branches'[j] = branches[j]
      /\ payload'[k] = WithPayload(payload[k], n, h) /\ \A j \in Engines : j # k => payload'[j] = payload[j]
  BY <1>2, <1>t DEF StoredTypes
<1>5. /\ branches'[k] \in Seq(Handles) /\ Len(branches'[k]) = n /\ branches'[k][n] = h
      /\ \A i \in DOMAIN branches[k] : i \in DOMAIN branches'[k] /\ branches'[k][i] = branches[k][i]
  BY <1>3, <1>4
<1>6. StoredTypes'
  <2>1. table' \in Seq(Handles) /\ beng' \in Seq(Nat) /\ bclass' \in Seq(Nat)
    BY <1>2, <1>3, <1>t DEF StoredTypes
  <2>2. branches' \in [Engines -> Seq(Handles)]
    BY <1>2, <1>5, <1>4, <1>t DEF StoredTypes
  <2>3. DOMAIN payload' = Engines
    BY <1>t DEF StoredTypes
  <2> QED
    BY <1>1, <1>t, <2>1, <2>2, <2>3 DEF StoredTypes
<1>7. Tables'
  <2> DEFINE L == Len(table)
  <2>1. /\ table \in Seq(Handles) /\ beng \in Seq(Nat) /\ bclass \in Seq(Nat)
        /\ Len(beng) = L /\ Len(bclass) = L /\ L \in Nat
    BY <1>t DEF StoredTypes, Tables
  <2>2. /\ Len(table') = L + 1 /\ table'[L + 1] = h /\ \A b \in 1 .. L : table'[b] = table[b]
        /\ DOMAIN table' = 1 .. L + 1
    BY <2>1
  <2>3. /\ Len(beng') = L + 1 /\ beng'[L + 1] = n /\ \A b \in 1 .. L : beng'[b] = beng[b]
        /\ Len(bclass') = L + 1 /\ bclass'[L + 1] = k /\ \A b \in 1 .. L : bclass'[b] = bclass[b]
    BY <1>2, <1>3, <2>1
  <2>5. DOMAIN table = 1 .. L
    BY <2>1
  <2> HIDE DEF L
  <2>6. \A b \in DOMAIN table' : b \in 1 .. L \/ b = L + 1
    BY <2>1, <2>2
  <2>7. \A b, c \in DOMAIN table' : table'[b] = table'[c] => b = c
    <3>1. \A b, c \in DOMAIN table : table[b] = table[c] => b = c
      BY <1>t DEF Tables
    <3> QED
      BY <2>1, <3>1, AppendOnce
  <2>8. ASSUME NEW b \in DOMAIN table'
        PROVE  /\ bclass'[b] \in 0 .. Len(eclass')
               /\ beng'[b] \in DOMAIN branches'[bclass'[b]]
               /\ branches'[bclass'[b]][beng'[b]] = table'[b]
    <3>1. CASE b = L + 1
      <4>1. n \in DOMAIN branches'[k]
        BY <1>3, <1>5
      <4> QED
        BY <1>1, <1>5, <2>2, <2>3, <3>1, <4>1
    <3>2. CASE b \in 1 .. L
      <4>1. /\ bclass[b] \in 0 .. Len(eclass) /\ beng[b] \in DOMAIN branches[bclass[b]]
            /\ branches[bclass[b]][beng[b]] = table[b]
        BY <1>t, <2>5, <3>2 DEF Tables
      <4>2. bclass[b] \in 0 .. Len(eclass')
        BY <1>1, <4>1
      <4>3. bclass[b] \in Engines
        BY <1>1, <4>2, EngineForEach
      <4>4. /\ beng[b] \in DOMAIN branches'[bclass[b]]
            /\ branches'[bclass[b]][beng[b]] = table[b]
        BY <1>4, <1>5, <4>1, <4>3
      <4> QED
        BY <2>2, <2>3, <3>2, <4>2, <4>4
    <3> QED
      BY <2>6, <3>1, <3>2
  <2> QED
    BY <1>1, <2>2, <2>3, <2>7, <2>8 DEF Tables
<1>8. Payloads'
  <2>1. ASSUME NEW j \in Engines
        PROVE  /\ DOMAIN payload'[j] \subseteq DOMAIN branches'[j]
               /\ \A m \in DOMAIN payload'[j] : payload'[j][m] = branches'[j][m]
    <3>1. /\ DOMAIN payload[j] \subseteq DOMAIN branches[j]
          /\ \A m \in DOMAIN payload[j] : payload[j][m] = branches[j][m]
      BY <1>t DEF Payloads
    <3>2. CASE j # k
      BY <1>4, <3>1, <3>2
    <3>3. CASE j = k
      <4>1. /\ DOMAIN payload'[k] = DOMAIN payload[k] \cup {n}
            /\ \A m \in DOMAIN payload'[k] :
                  payload'[k][m] = IF m \in DOMAIN payload[k] THEN payload[k][m] ELSE h
        BY <1>4 DEF WithPayload
      <4>2. n \in DOMAIN branches'[k]
        BY <1>3, <1>5
      <4> QED
        BY <1>5, <3>1, <3>3, <4>1, <4>2
    <3> QED
      BY <3>2, <3>3
  <2> QED
    BY <1>t, <2>1 DEF Payloads
<1> QED
  BY <1>6, <1>7, <1>8 DEF Stored

LEMMA AddKeeps ==
    ASSUME IInv, NEW t \in Threads, Add(t)
    PROVE  IInv'
<1> DEFINE h == call[t].handle
           k == ClassNumber(h)
           n == NextIn(k)
<1>1. /\ pc[t] \in {"add", "host"} /\ table' = TableWith(h)
      /\ Leave(t, [is |-> "number", number |-> NumberOf(h)])
      /\ UNCHANGED <<valid, engIb, clsIb, used, budget, engineVars>>
  BY DEF Add, ReadyToAdd
<1>2. h \in Handles
  <2>1. call[t] \in AddCalls
    BY <1>1 DEF IInv, Held
  <2> QED
    BY <2>1, CallKinds
<1>3. Clean'
  <2>1. Clean
    BY <1>1 DEF IInv, Phases, InPhase
  <2> QED
    BY <1>1, <2>1 DEF Clean, Handed, engineVars
<1>4. CallTypes' /\ Held' /\ Phases'
  BY <1>1, <1>3, LeaveKeeps DEF IInv, CallTypes, engineVars
<1>5. Stored'
  <2>0. Stored /\ Len(table) \in Nat
    BY DEF IInv, Stored, StoredTypes
  <2>1. CASE Contains(table, h)
    <3>1. table' = table /\ ~(NumberOf(h) > Len(table))
      BY <1>1, <1>2, <2>0, <2>1, NumberIs
    <3>2. UNCHANGED <<eclass, beng, bclass, branches, payload>>
      BY <3>1 DEF Add
    <3>3. UNCHANGED <<tableVars, branches, payload, used>> /\ budget' \in [Engines -> Nat]
      BY <1>1, <2>0, <3>1, <3>2 DEF tableVars, Stored, StoredTypes
    <3> QED
      BY <2>0, <3>3, StoredStays
  <2>2. CASE ~Contains(table, h)
    <3>1. table' = Append(table, h) /\ NumberOf(h) > Len(table)
      BY <1>1, <1>2, <2>0, <2>2, NumberIs
    <3>2. /\ eclass' = ClassesWith(h) /\ beng' = Append(beng, n) /\ bclass' = Append(bclass, k)
          /\ branches' = [branches EXCEPT ![k] = Append(@, h)]
          /\ payload' = [payload EXCEPT ![k] = WithPayload(@, n, h)]
      BY <3>1 DEF Add
    <3> HIDE DEF n, k, h
    <3> QED
      BY <1>1, <1>2, <2>0, <2>2, <3>1, <3>2, AddStores DEF n, k
  <2> QED
    BY <2>1, <2>2
<1> QED
  BY <1>4, <1>5 DEF IInv

(* What the tables say of the branches a call asks for.                     *)
LEMMA ReadingsAre ==
    ASSUME Stored, NEW ib \in Seq(Nat), Known(ib)
    PROVE  /\ Classes(ib) \in Seq(Nat) /\ Len(Classes(ib)) = Len(ib)
           /\ InEngine(ib) \in Seq(Nat) /\ Len(InEngine(ib)) = Len(ib)
           /\ OwnIds(ib) \in Seq(Nat) /\ Len(OwnIds(ib)) = Len(ib)
           /\ ClassIds(ib) \in Seq(Nat) /\ Len(ClassIds(ib)) = Len(ib)
           /\ \A i \in DOMAIN ib : ib[i] # 0 => /\ ib[i] \in DOMAIN table
                                                /\ Classes(ib)[i] = bclass[ib[i]]
                                                /\ InEngine(ib)[i] = beng[ib[i]]
           /\ \A i \in DOMAIN ib : ib[i] = 0 => Classes(ib)[i] = 0 /\ InEngine(ib)[i] = 0
           /\ \A i \in DOMAIN ib : Classes(ib)[i] \in 0 .. Len(eclass)
<1>1. /\ table \in Seq(Handles) /\ beng \in Seq(Nat) /\ bclass \in Seq(Nat)
      /\ Len(beng) = Len(table) /\ Len(bclass) = Len(table) /\ Len(table) \in Nat
      /\ DOMAIN beng = DOMAIN table /\ DOMAIN bclass = DOMAIN table /\ DOMAIN table = 1 .. Len(table)
  BY DEF Stored, StoredTypes, Tables
<1>2. Len(ib) \in Nat /\ DOMAIN ib = 1 .. Len(ib) /\ \A i \in DOMAIN ib : ib[i] \in Nat
  OBVIOUS
<1>3. ASSUME NEW i \in DOMAIN ib, ib[i] # 0 PROVE ib[i] \in DOMAIN table
  <2>1. ib[i] \in Nat /\ ib[i] <= Len(table)
    BY <1>2 DEF Known
  <2> QED
    BY <1>1, <1>3, <2>1
<1>4. \A b \in DOMAIN table : beng[b] \in Nat /\ bclass[b] \in Nat
  BY <1>1
<1>5. \A i \in DOMAIN ib : ib[i] # 0 => Classes(ib)[i] = bclass[ib[i]] /\ InEngine(ib)[i] = beng[ib[i]]
  BY DEF Classes, InEngine
<1>6. \A i \in DOMAIN ib : ib[i] = 0 => Classes(ib)[i] = 0 /\ InEngine(ib)[i] = 0
  BY DEF Classes, InEngine
<1>7. \A i \in DOMAIN ib : Classes(ib)[i] \in Nat /\ InEngine(ib)[i] \in Nat
  BY <1>3, <1>4, <1>5, <1>6
<1>8. Classes(ib) \in [1 .. Len(ib) -> Nat] /\ InEngine(ib) \in [1 .. Len(ib) -> Nat]
  <2>1. DOMAIN Classes(ib) = DOMAIN ib /\ DOMAIN InEngine(ib) = DOMAIN ib
    BY DEF Classes, InEngine
  <2>2. Classes(ib) = [i \in 1 .. Len(ib) |-> Classes(ib)[i]]
    BY <1>2 DEF Classes
  <2>3. InEngine(ib) = [i \in 1 .. Len(ib) |-> InEngine(ib)[i]]
    BY <1>2 DEF InEngine
  <2> QED
    BY <1>2, <1>7, <2>2, <2>3
<1>9. OwnIds(ib) \in [1 .. Len(ib) -> Nat]
  BY <1>2, <1>7 DEF OwnIds
<1>10. ClassIds(ib) \in [1 .. Len(ib) -> Nat]
  BY <1>2, <1>7 DEF ClassIds
<1>11. \A s \in [1 .. Len(ib) -> Nat] : s \in Seq(Nat) /\ Len(s) = Len(ib)
  BY <1>2
<1>12. \A i \in DOMAIN ib : Classes(ib)[i] \in 0 .. Len(eclass)
  <2>1. \A b \in DOMAIN table : bclass[b] \in 0 .. Len(eclass)
    BY DEF Stored, Tables
  <2>2. Len(eclass) \in Nat
    BY DEF Stored, StoredTypes
  <2> QED
    BY <1>3, <1>5, <1>6, <2>1, <2>2
<1> QED
  BY <1>3, <1>5, <1>6, <1>8, <1>9, <1>10, <1>11, <1>12

LEMMA ShotsAre ==
    ASSUME NEW cls \in Seq(Nat), NEW k
    PROVE  /\ ShotsOf(cls, k) \in Seq(Nat)
           /\ \A x \in DOMAIN ShotsOf(cls, k) :
                 /\ ShotsOf(cls, k)[x] \in DOMAIN cls
                 /\ k = 0 \/ cls[ShotsOf(cls, k)[x]] = k
           /\ \A i \in DOMAIN cls : k = 0 \/ cls[i] = k => \E x \in DOMAIN ShotsOf(cls, k) : ShotsOf(cls, k)[x] = i
           /\ \A x, y \in DOMAIN ShotsOf(cls, k) : ShotsOf(cls, k)[x] = ShotsOf(cls, k)[y] => x = y
           /\ k = 0 => ShotsOf(cls, k) = [x \in DOMAIN cls |-> x]
<1> DEFINE I == {i \in DOMAIN cls : k = 0 \/ cls[i] = k}
           s == ShotsOf(cls, k)
<1>1. I \in SUBSET (DOMAIN cls)
  OBVIOUS
<1>2. I \in SUBSET Nat /\ IsFiniteSet(I) /\ Cardinality(I) \in Nat
  <2> HIDE DEF I
  <2> QED
    BY <1>1, PositionsAreFinite
<1>3. s = Promise!Ascending(I)
  BY DEF ShotsOf
<1>4. \A i \in I : i \in Nat /\ i \in DOMAIN cls /\ (k = 0 \/ cls[i] = k)
  BY <1>2
<1>5. \A i \in DOMAIN cls : k = 0 \/ cls[i] = k => i \in I
  OBVIOUS
<1>6. k = 0 => I = 1 .. Len(cls) /\ DOMAIN cls = 1 .. Len(cls) /\ Len(cls) \in Nat
  OBVIOUS
<1> HIDE DEF I, s
<1>7. /\ s \in Seq(I) /\ Len(s) = Cardinality(I)
      /\ \A x, y \in 1 .. Cardinality(I) : x < y => s[x] < s[y]
      /\ \A i \in I : \E x \in 1 .. Cardinality(I) : s[x] = i
  BY <1>2, <1>3, AscendingRises
<1>8. s \in Seq(Nat) /\ DOMAIN s = 1 .. Cardinality(I) /\ \A x \in DOMAIN s : s[x] \in I
  <2>1. s \in Seq(Nat)
    BY <1>2, <1>7, SeqMonotonic
  <2>2. DOMAIN s = 1 .. Cardinality(I)
    BY <1>7
  <2> QED
    BY <1>7, <2>1, <2>2
<1>9. ASSUME NEW x \in DOMAIN s, NEW y \in DOMAIN s, s[x] = s[y] PROVE x = y
  <2>1. x \in Nat /\ y \in Nat /\ s[x] \in Nat
    BY <1>2, <1>4, <1>8
  <2>2. ~(x < y) /\ ~(y < x)
    BY <1>7, <1>8, <1>9, <2>1
  <2> QED
    BY <2>1, <2>2
<1>10. k = 0 => s = [x \in DOMAIN cls |-> x]
  BY <1>3, <1>6, AscendingOfAll
<1>11. \A x \in DOMAIN s : s[x] \in DOMAIN cls /\ (k = 0 \/ cls[s[x]] = k)
  BY <1>4, <1>8
<1>12. \A i \in DOMAIN cls : k = 0 \/ cls[i] = k => \E x \in DOMAIN s : s[x] = i
  BY <1>5, <1>7, <1>8
<1> QED
  BY <1>8, <1>9, <1>10, <1>11, <1>12 DEF s

LEMMA EnterIs ==
    ASSUME CallTypes, Held, NEW t \in Threads, pc[t] \in {"branches", "run"}, NEW k \in Engines, NEW cls \in Seq(Nat),
           NEW out \in Seq(Row), Enter(t, k, cls, out)
    PROVE  /\ run' \in [Threads -> Runs] /\ pc' \in [Threads -> Places]
           /\ flag' = flag /\ recording' = recording /\ call' = call /\ flag = t
           /\ run'[t] = [engine |-> k, cls |-> cls, shots |-> ShotsOf(cls, k), pos |-> 0, sink |-> <<>>, out |-> out]
           /\ pc'[t] = "run" /\ \A u \in Threads : u # t => pc'[u] = "idle"
           /\ Held'
<1> DEFINE r == [engine |-> k, cls |-> cls, shots |-> ShotsOf(cls, k), pos |-> 0, sink |-> <<>>, out |-> out]
<1>1. /\ run' = [run EXCEPT ![t] = r] /\ pc' = [pc EXCEPT ![t] = "run"]
      /\ UNCHANGED <<flag, recording, call>>
  BY DEF Enter
<1>2. r \in Runs
  BY ShotsAre DEF Runs
<1>3. pc \in [Threads -> Places] /\ run \in [Threads -> Runs]
  BY DEF CallTypes
<1> HIDE DEF r
<1>4. flag = t /\ \A u \in Threads : u # t => pc[u] = "idle"
  BY Alone
<1>5. pc' \in [Threads -> Places] /\ pc'[t] = "run" /\ \A u \in Threads : u # t => pc'[u] = pc[u]
  BY <1>1, <1>3 DEF Places
<1>6. run' \in [Threads -> Runs] /\ run'[t] = r
  BY <1>1, <1>2, <1>3
<1>7. Held'
  BY <1>1, <1>4, <1>5 DEF Held
<1> QED
  BY <1>1, <1>4, <1>5, <1>6, <1>7 DEF r

LEMMA BranchesKeeps ==
    ASSUME IInv, NEW t \in Threads, Branches(t)
    PROVE  IInv'
<1> DEFINE ib == call[t].ib
           cls == Classes(ib)
<1>1. pc[t] = "branches" /\ UNCHANGED <<valid, tableVars, payloadVars>>
  BY DEF Branches
<1>2. Stored'
  BY <1>1, StoredStays DEF IInv, Stored, StoredTypes, payloadVars
<1>3. Clean /\ recording = call[t].rec /\ (Mixed \/ ~MixedCall(call[t]))
  BY <1>1 DEF IInv, Phases, InPhase
<1>4. CallTypes /\ Held /\ Stored
  BY DEF IInv
<1>5. ib \in Seq(Nat)
  <2>1. call[t] \in RunCalls
    BY <1>1, <1>4 DEF Held
  <2> QED
    BY <2>1, CallKinds
<1> HIDE DEF ib, cls
<1>6. CASE ~Known(ib)
  <2>1. Leave(t, Failed) /\ UNCHANGED <<engIb, clsIb, engineVars>>
    BY <1>6 DEF Branches, RefuseAsk, ib
  <2>2. Clean'
    BY <1>3, <2>1 DEF Clean, Handed, engineVars
  <2>3. CallTypes' /\ Held' /\ Phases'
    BY <1>1, <1>4, <2>1, <2>2, LeaveKeeps DEF CallTypes, engineVars
  <2> QED
    BY <1>2, <2>3 DEF IInv
<1>7. CASE Known(ib)
  <2>0. /\ engIb' = IF AnyOwn(ib) THEN OwnIds(ib) ELSE engIb
        /\ IF AnyClass(cls) /\ recording THEN RefuseAsk(t)
           ELSE /\ clsIb' = IF AnyClass(cls) THEN ClassIds(ib) ELSE clsIb
                /\ branchIds' = [branchIds EXCEPT ![0] = engIb']
                /\ sinkOf' = [sinkOf EXCEPT ![0] = t]
                /\ Enter(t, 0, cls, <<>>)
    BY <1>7 DEF Branches, ib, cls
  <2>1. /\ cls \in Seq(Nat) /\ OwnIds(ib) \in Seq(Nat) /\ ClassIds(ib) \in Seq(Nat)
    BY <1>4, <1>5, <1>7, ReadingsAre DEF cls
  <2>2. engIb' \in Seq(Nat)
    BY <1>4, <2>0, <2>1 DEF CallTypes
  <2>3. CASE AnyClass(cls) /\ recording
    <3>1. Leave(t, Failed) /\ UNCHANGED <<clsIb, engineVars>>
      BY <2>0, <2>3 DEF RefuseAsk
    <3>2. Mixed \/ engIb' = engIb
      BY <1>3, <1>7, <2>0, <2>3 DEF MixedCall, ib, cls
    <3>3. Clean'
      BY <1>3, <3>1, <3>2 DEF Clean, Handed, engineVars
    <3>4. CallTypes' /\ Held' /\ Phases'
      BY <1>1, <1>4, <2>2, <3>1, <3>3, LeaveKeeps DEF CallTypes, engineVars
    <3> QED
      BY <1>2, <3>4 DEF IInv
  <2>4. CASE ~(AnyClass(cls) /\ recording)
    <3>0. /\ clsIb' = IF AnyClass(cls) THEN ClassIds(ib) ELSE clsIb
          /\ branchIds' = [branchIds EXCEPT ![0] = engIb']
          /\ sinkOf' = [sinkOf EXCEPT ![0] = t]
          /\ Enter(t, 0, cls, <<>>)
      BY <2>0, <2>4
    <3>1. <<>> \in Seq(Row) /\ 0 \in Engines
      BY EnginesAre
    <3>2. /\ run' \in [Threads -> Runs] /\ pc' \in [Threads -> Places]
          /\ flag' = flag /\ recording' = recording /\ call' = call /\ flag = t
          /\ run'[t] = [engine |-> 0, cls |-> cls, shots |-> ShotsOf(cls, 0), pos |-> 0, sink |-> <<>>, out |-> <<>>]
          /\ pc'[t] = "run" /\ \A u \in Threads : u # t => pc'[u] = "idle"
          /\ Held'
      BY <1>1, <1>4, <2>1, <3>0, <3>1, EnterIs
    <3>3. branchIds \in [Engines -> Seq(Nat)] /\ sinkOf \in [Engines -> Threads \cup {NoThread}]
      BY <1>4 DEF CallTypes
    <3>4. /\ branchIds' \in [Engines -> Seq(Nat)] /\ sinkOf' \in [Engines -> Threads \cup {NoThread}]
          /\ branchIds'[0] = engIb' /\ sinkOf'[0] = t
          /\ \A j \in Engines \ {0} : branchIds'[j] = branchIds[j] /\ sinkOf'[j] = sinkOf[j]
      BY <2>2, <3>0, <3>1, <3>3
    <3>5. CallTypes'
      <4>1. clsIb' \in Seq(Nat)
        BY <1>4, <2>1, <3>0 DEF CallTypes
      <4> QED
        BY <1>1, <1>4, <2>2, <3>2, <3>4, <4>1 DEF CallTypes
    <3>6. InRun(t)'
      <4>1. call'[t].ib = ib
        BY <3>2 DEF ib
      <4>2. Known(ib)' /\ Classes(ib)' = cls /\ (AnyOwn(ib)' <=> AnyOwn(ib))
            /\ OwnIds(ib)' = OwnIds(ib) /\ ClassIds(ib)' = ClassIds(ib)
        <5>1. table' = table /\ beng' = beng /\ bclass' = bclass
          BY <1>1 DEF tableVars
        <5>2. ib' = ib
          BY <3>2 DEF ib
        <5>3. Known(ib)' /\ (AnyOwn(ib)' <=> AnyOwn(ib))
          BY <1>7, <5>1, <5>2 DEF Known, AnyOwn
        <5>4. Classes(ib)' = Classes(ib)
          BY <5>1, <5>2 DEF Classes
        <5>5. OwnIds(ib)' = OwnIds(ib) /\ ClassIds(ib)' = ClassIds(ib)
          BY <5>1, <5>2, <5>4 DEF OwnIds, ClassIds, InEngine
        <5> QED
          BY <5>3, <5>4, <5>5 DEF cls
      <4>3. Len(eclass') \in Nat
        BY <1>2 DEF Stored, StoredTypes
      <4>4. Len(ShotsOf(cls, 0)) \in Nat
        BY <2>1, ShotsAre
      <4>5. Mixed \/ engIb' = IF AnyOwn(ib) THEN OwnIds(ib) ELSE <<>>
        BY <1>3, <2>0 DEF Clean
      <4>6. \A j \in Engines \ {0} : branchIds'[j] = <<>> /\ sinkOf'[j] = NoThread
        BY <1>3, <3>4 DEF Clean, Handed
      <4> DEFINE r == run'[t]
      <4>7. r.engine = 0 /\ r.cls = cls /\ r.shots = ShotsOf(cls, 0) /\ r.pos = 0 /\ r.sink = <<>>
        BY <3>2
      <4> HIDE DEF r
      <4>8. Progress(t, ib, 0, cls, ShotsOf(cls, 0))'
        <5>1. ib' = ib /\ cls' = cls
          BY <4>1, <4>2 DEF ib, cls
        <5>2. (run[t].pos <= Len(ShotsOf(cls, 0)))'
          BY <4>4, <4>7, <5>1 DEF r
        <5>3. (run[t].pos = 0 /\ Len(run[t].sink) = 0)'
          BY <4>7 DEF r
        <5>4. (AnyClass(cls) => clsIb = ClassIds(ib))'
          BY <3>0, <4>2, <5>1
        <5> QED
          BY <3>4, <4>2, <4>3, <4>5, <4>6, <5>1, <5>2, <5>3, <5>4 DEF Progress
      <4>9. ib' = ib /\ cls' = cls
        BY <4>1, <4>2 DEF ib, cls
      <4> QED
        BY <4>1, <4>7, <4>8, <4>9 DEF InRun, r
    <3>7. InPhase(t)'
      BY <3>2, <3>6 DEF InPhase
    <3>8. Phases'
      BY <3>2, <3>7, OthersInPhase, ConstantsAssumption DEF ConstantsAssumption
    <3> QED
      BY <1>2, <3>2, <3>5, <3>8 DEF IInv
  <2> QED
    BY <2>3, <2>4
<1> QED
  BY <1>6, <1>7

(* What one shot does to its run.                                           *)
LEMMA ShotIs ==
    ASSUME IInv, NEW t \in Threads, RunShot(t)
    PROVE  \E n \in IdsAt(run[t].engine, run[t].pos + 1) :
              LET k == run[t].engine
                  branch == IF n = 0 THEN Ideal ELSE branches[k][n]
              IN  /\ pc[t] = "run" /\ run[t].pos + 1 <= Len(run[t].shots) /\ k \in Engines
                  /\ n \in Nat /\ n <= Len(branches[k])
                  /\ Touch(k, n)
                  /\ branch \in Handles \cup {Ideal}
                  /\ run' = [run EXCEPT ![t] =
                        [run[t] EXCEPT !.pos = @ + 1,
                                       !.sink = IF EngineMasks(t) /\ branch \in Bad THEN @
                                                ELSE Append(@, [branch |-> branch, reference |-> k])]]
                  /\ UNCHANGED <<objectVars, tableVars, engineVars, branches, budget, pc, call>>
<1> DEFINE k == run[t].engine
           i == run[t].pos + 1
<1>1. /\ pc[t] = "run" /\ i <= Len(run[t].shots)
      /\ UNCHANGED <<objectVars, tableVars, engineVars, branches, budget, pc, call>>
  BY DEF RunShot
<1>2. /\ run \in [Threads -> Runs] /\ branchIds \in [Engines -> Seq(Nat)] /\ branches \in [Engines -> Seq(Handles)]
      /\ Stored
  BY DEF IInv, CallTypes, Stored, StoredTypes
<1>3. k \in Engines /\ run[t] \in Runs
  BY <1>2 DEF Runs
<1>4. sinkOf[k] = t /\ t # NoThread
  BY <1>1, ConstantsAssumption DEF IInv, Phases, InPhase, InRun, Progress, ConstantsAssumption
<1>5. PICK n \in IdsAt(k, i) :
              /\ n <= Len(branches[k])
              /\ Touch(k, n)
              /\ LET branch == IF n = 0 THEN Ideal ELSE Supplied(k, n)[n]
                     row == [branch |-> branch, reference |-> k]
                     moved == [run EXCEPT ![t].pos = i]
                 IN  run' = IF sinkOf[k] = NoThread \/ (EngineMasks(t) /\ branch \in Bad) THEN moved
                            ELSE [moved EXCEPT ![sinkOf[k]].sink = Append(@, row)]
  BY DEF RunShot
<1>6. n \in Nat
  <2>1. Len(branches[k]) \in Nat
    BY <1>2, <1>3
  <2>2. \A x \in DOMAIN branchIds[k] : branchIds[k][x] \in Nat
    BY <1>2, <1>3
  <2>3. CASE branchIds[k] = <<>>
    BY <1>5, <2>3 DEF IdsAt
  <2>4. CASE branchIds[k] # <<>> /\ i \in DOMAIN branchIds[k]
    BY <1>5, <2>2, <2>4 DEF IdsAt
  <2>5. CASE branchIds[k] # <<>> /\ i \notin DOMAIN branchIds[k]
    <3>1. n \in 0 .. Len(branches[k])
      BY <1>5, <2>5 DEF IdsAt
    <3> QED
      BY <2>1, <3>1
  <2> QED
    BY <2>3, <2>4, <2>5
<1> DEFINE branch == IF n = 0 THEN Ideal ELSE branches[k][n]
           row == [branch |-> branch, reference |-> k]
<1>7. n # 0 => n \in DOMAIN branches[k]
  BY <1>2, <1>3, <1>5, <1>6
<1>8. n # 0 => Supplied(k, n)[n] = branches[k][n]
  BY <1>2, <1>3, <1>7, SuppliedIs
<1>9. branch \in Handles \cup {Ideal}
  BY <1>2, <1>3, <1>7
<1>10. run' = IF EngineMasks(t) /\ branch \in Bad THEN [run EXCEPT ![t].pos = i]
              ELSE [[run EXCEPT ![t].pos = i] EXCEPT ![t].sink = Append(@, row)]
  BY <1>4, <1>5, <1>8
<1> DEFINE after == [run[t] EXCEPT !.pos = @ + 1,
                                   !.sink = IF EngineMasks(t) /\ branch \in Bad THEN @ ELSE Append(@, row)]
<1> HIDE DEF k, branch, row
<1>11. run' = [run EXCEPT ![t] = after]
  <2>1. CASE EngineMasks(t) /\ branch \in Bad
    BY <1>2, <1>3, <1>10, <2>1 DEF Runs
  <2>2. CASE ~(EngineMasks(t) /\ branch \in Bad)
    BY <1>2, <1>3, <1>10, <2>2 DEF Runs
  <2> QED
    BY <2>1, <2>2
<1> QED
  BY <1>1, <1>3, <1>5, <1>6, <1>9, <1>11 DEF k, branch, row

LEMMA RunShotKeeps ==
    ASSUME IInv, NEW t \in Threads, RunShot(t)
    PROVE  IInv'
<1> DEFINE k == run[t].engine
           r == run[t]
<1>1. PICK n, branch :
         /\ pc[t] = "run" /\ r.pos + 1 <= Len(r.shots) /\ k \in Engines
         /\ n \in Nat /\ n <= Len(branches[k])
         /\ Touch(k, n)
         /\ branch \in Handles \cup {Ideal}
         /\ run' = [run EXCEPT ![t] =
               [r EXCEPT !.pos = @ + 1,
                         !.sink = IF EngineMasks(t) /\ branch \in Bad THEN @
                                  ELSE Append(@, [branch |-> branch, reference |-> k])]]
         /\ UNCHANGED <<objectVars, tableVars, engineVars, branches, budget, pc, call>>
  BY ShotIs
<1>2. Stored /\ CallTypes /\ Held /\ InRun(t) /\ Phases /\ k \in Nat
  BY <1>1, EnginesAre DEF IInv, Phases, InPhase
<1>3. Stored'
  BY <1>1, <1>2, TouchKeeps
<1>4. /\ UNCHANGED <<flag, valid, recording, engIb, clsIb, table, beng, bclass, eclass, branchIds, sinkOf, pc, call>>
  BY <1>1 DEF objectVars, tableVars, engineVars
<1>5. run \in [Threads -> Runs] /\ r \in Runs
  BY <1>2 DEF CallTypes
<1> DEFINE row == [branch |-> branch, reference |-> k]
           r1 == run'[t]
<1>6. /\ r1.engine = r.engine /\ r1.cls = r.cls /\ r1.shots = r.shots /\ r1.pos = r.pos + 1 /\ r1.out = r.out
      /\ r1.sink = IF EngineMasks(t) /\ branch \in Bad THEN r.sink ELSE Append(r.sink, row)
      /\ DOMAIN run' = Threads /\ r1 \in Runs
      /\ \A u \in Threads : u # t => run'[u] = run[u]
  <2>1. row \in Row
    BY <1>1, <1>2 DEF Row
  <2> DEFINE r2 == [r EXCEPT !.pos = @ + 1,
                             !.sink = IF EngineMasks(t) /\ branch \in Bad THEN @ ELSE Append(@, row)]
  <2>2. r2 \in Runs
    <3>1. r.pos + 1 \in Nat /\ Append(r.sink, row) \in Seq(Row)
      BY <1>5, <2>1 DEF Runs
    <3> HIDE DEF row
    <3> QED
      BY <1>5, <3>1 DEF Runs
  <2>3. run' = [run EXCEPT ![t] = r2]
    BY <1>1
  <2>4. /\ r2.engine = r.engine /\ r2.cls = r.cls /\ r2.shots = r.shots /\ r2.pos = r.pos + 1 /\ r2.out = r.out
        /\ r2.sink = IF EngineMasks(t) /\ branch \in Bad THEN r.sink ELSE Append(r.sink, row)
    BY <1>5 DEF Runs
  <2> HIDE DEF r2
  <2> QED
    BY <1>5, <2>2, <2>3, <2>4
<1> HIDE DEF row, r1
<1>7. run' \in [Threads -> Runs]
  <2>1. \A u \in Threads : run'[u] \in Runs
    BY <1>5, <1>6 DEF r1
  <2>2. run' = [u \in Threads |-> run'[u]]
    BY <1>1, <1>5
  <2> QED
    BY <2>1, <2>2
<1>8. CallTypes'
  BY <1>2, <1>4, <1>7 DEF CallTypes
<1>9. Held'
  BY <1>2, <1>4 DEF Held
<1>10. InRun(t)'
  <2> DEFINE ib == call[t].ib
             cls == run[t].cls
             shots == run[t].shots
  <2>1. ib' = ib /\ cls' = cls /\ shots' = shots /\ k' = k
    BY <1>4, <1>6 DEF r1
  <2>2. Progress(t, ib, k, cls, shots)
    BY <1>2 DEF InRun
  <2> HIDE DEF ib, cls, shots, k
  <2>3. (Known(ib)' <=> Known(ib)) /\ Classes(ib)' = Classes(ib) /\ (AnyOwn(ib)' <=> AnyOwn(ib))
        /\ OwnIds(ib)' = OwnIds(ib) /\ ClassIds(ib)' = ClassIds(ib)
    <3>1. (Known(ib)' <=> Known(ib)) /\ (AnyOwn(ib)' <=> AnyOwn(ib))
      BY <1>4, <2>1 DEF Known, AnyOwn
    <3>2. Classes(ib)' = Classes(ib)
      BY <1>4, <2>1 DEF Classes
    <3>3. OwnIds(ib)' = OwnIds(ib) /\ ClassIds(ib)' = ClassIds(ib)
      BY <1>4, <2>1, <3>2 DEF OwnIds, ClassIds, InEngine
    <3> QED
      BY <3>1, <3>2, <3>3
  <2>4. AnyClass(cls)' <=> AnyClass(cls)
    BY <2>1 DEF AnyClass
  <2>5. EngineMasks(t)' <=> EngineMasks(t)
    BY <1>4, <2>1, <2>4 DEF EngineMasks, cls
  <2>6. (run[t].pos <= Len(shots))'
    BY <1>1, <1>6, <2>1 DEF r1, shots
  <2>7. (~EngineMasks(t) => Len(run[t].sink) = run[t].pos)'
    <3>1. ~EngineMasks(t) => Len(r.sink) = r.pos
      BY <2>2 DEF Progress
    <3>2. r.sink \in Seq(Row) /\ r.pos \in Nat
      BY <1>5 DEF Runs
    <3> QED
      BY <1>6, <2>5, <3>1, <3>2 DEF r1
  <2>8. (k # 0 => Len(run[t].out) = Len(ib))'
    BY <1>6, <2>1, <2>2 DEF r1, Progress
  <2>9. ShotsOf(cls, k)' = ShotsOf(cls, k)
    BY <2>1
  <2>10. Progress(t, ib, k, cls, shots)'
    BY <1>4, <2>1, <2>2, <2>3, <2>4, <2>6, <2>7, <2>8, <2>9 DEF Progress
  <2> QED
    BY <2>10 DEF InRun, ib, k, cls, shots
<1>11. Phases'
  <2>1. flag = t /\ t # NoThread /\ \A u \in Threads : u # t => pc[u] = "idle"
    BY <1>1, <1>2, Alone, ConstantsAssumption DEF ConstantsAssumption
  <2>2. InPhase(t)'
    BY <1>1, <1>4, <1>10 DEF InPhase
  <2> QED
    BY <1>4, <2>1, <2>2, OthersInPhase
<1> QED
  BY <1>3, <1>8, <1>9, <1>11 DEF IInv

(* The rows of a class's run go where its shots are.                        *)
LEMMA ScatterIs ==
    ASSUME IInv, NEW t \in Threads, pc[t] = "run", run[t].pos = Len(run[t].shots),
           NEW s, s = Scatter(run[t])
    PROVE  /\ s \in Seq(Row)
           /\ run[t].engine = 0 => s = run[t].sink
           /\ AnyClass(run[t].cls) => Len(s) = Len(call[t].ib)
           /\ run[t].engine # 0 =>
                 \A x \in DOMAIN run[t].shots : s[run[t].shots[x]] = Relative(run[t].sink[x])
           /\ run[t].engine # 0 =>
                 \A i \in DOMAIN run[t].out : run[t].cls[i] # run[t].engine => s[i] = run[t].out[i]
<1> DEFINE r == run[t]
           k == r.engine
           ib == call[t].ib
<1>1. r \in Runs /\ InRun(t) /\ Stored /\ call[t] \in RunCalls
  BY DEF IInv, CallTypes, Phases, InPhase, Held
<1>2. /\ r.cls \in Seq(Nat) /\ r.shots \in Seq(Nat) /\ r.sink \in Seq(Row) /\ r.out \in Seq(Row)
      /\ k \in Engines /\ k \in Nat
  BY <1>1, EnginesAre DEF Runs
<1>3. ib \in Seq(Nat)
  BY <1>1, CallKinds
<1>4. /\ Known(ib) /\ r.cls = Classes(ib) /\ r.shots = ShotsOf(r.cls, k)
      /\ (k # 0 => AnyClass(r.cls)) /\ (~EngineMasks(t) => Len(r.sink) = Len(r.shots))
      /\ (k # 0 => Len(r.out) = Len(ib))
  BY <1>1 DEF InRun, Progress
<1>5. Len(r.cls) = Len(ib)
  BY <1>1, <1>3, <1>4, ReadingsAre
<1>6. AnyClass(r.cls) => ~EngineMasks(t)
  BY DEF EngineMasks
<1> HIDE DEF r, k, ib
<1>s. s = Scatter(r)
  BY DEF r
<1>7. CASE k = 0
  <2>1. s = r.sink
    BY <1>7, <1>s DEF Scatter, k
  <2>2. AnyClass(r.cls) => Len(s) = Len(ib)
    <3>1. r.shots = [x \in DOMAIN r.cls |-> x]
      BY <1>2, <1>4, <1>7, ShotsAre
    <3>2. DOMAIN r.shots = 1 .. Len(ib) /\ Len(ib) \in Nat
      BY <1>2, <1>3, <1>5, <3>1
    <3>3. Len(r.shots) = Len(ib)
      BY <1>2, <3>2
    <3> QED
      BY <1>4, <1>6, <2>1, <3>3
  <2> QED
    BY <1>2, <1>7, <2>1, <2>2 DEF r, k, ib
<1>8. CASE k # 0
  <2>1. s = [i \in DOMAIN r.out |-> IF Contains(r.shots, i) THEN Relative(r.sink[PlaceOf(r.shots, i)])
                                    ELSE r.out[i]]
    BY <1>8, <1>s DEF Scatter, PlaceOf, k
  <2>2. /\ Len(r.sink) = Len(r.shots) /\ Len(r.out) = Len(ib) /\ Len(ib) \in Nat
        /\ DOMAIN r.out = 1 .. Len(ib) /\ DOMAIN r.cls = 1 .. Len(ib) /\ Len(r.shots) \in Nat
        /\ DOMAIN r.shots = 1 .. Len(r.shots) /\ DOMAIN r.sink = 1 .. Len(r.sink)
    BY <1>2, <1>3, <1>4, <1>5, <1>6, <1>8
  <2>3. /\ \A x \in DOMAIN r.shots : r.shots[x] \in DOMAIN r.cls /\ r.cls[r.shots[x]] = k
        /\ \A x, y \in DOMAIN r.shots : r.shots[x] = r.shots[y] => x = y
    BY <1>2, <1>4, <1>8, ShotsAre
  <2>4. \A row \in Row : Relative(row) \in Row
    BY DEF Relative, Row
  <2>5. ASSUME NEW i \in DOMAIN r.out PROVE s[i] \in Row
    <3>1. CASE Contains(r.shots, i)
      <4>1. PlaceOf(r.shots, i) \in DOMAIN r.sink
        BY <1>2, <2>2, <3>1, PlaceIs
      <4>2. r.sink[PlaceOf(r.shots, i)] \in Row
        BY <1>2, <4>1
      <4> QED
        BY <2>1, <2>4, <3>1, <4>2
    <3>2. CASE ~Contains(r.shots, i)
      BY <1>2, <2>1, <3>2
    <3> QED
      BY <3>1, <3>2
  <2>6. s \in [1 .. Len(ib) -> Row]
    BY <2>1, <2>2, <2>5
  <2>7. s \in Seq(Row) /\ Len(s) = Len(ib)
    BY <2>2, <2>6
  <2>8. ASSUME NEW x \in DOMAIN r.shots PROVE s[r.shots[x]] = Relative(r.sink[x])
    <3>1. Contains(r.shots, r.shots[x])
      BY <2>2 DEF Contains
    <3>2. PlaceOf(r.shots, r.shots[x]) = x
      BY <1>2, <2>3, PlaceOnce
    <3>3. r.shots[x] \in DOMAIN r.out
      BY <2>2, <2>3
    <3> QED
      BY <2>1, <3>1, <3>2, <3>3
  <2>9. ASSUME NEW i \in DOMAIN r.out, r.cls[i] # k PROVE s[i] = r.out[i]
    <3>1. ~Contains(r.shots, i)
      BY <2>2, <2>3, <2>9 DEF Contains
    <3> QED
      BY <2>1, <3>1
  <2> QED
    BY <1>8, <2>7, <2>8, <2>9 DEF r, k, ib
<1> QED
  BY <1>7, <1>8

(* The engine that runs next.                                               *)
NextEngines(t) == {j \in (run[t].engine + 1) .. Len(eclass) : ShotsOf(run[t].cls, j) # <<>>}

LEMMA NextEngineIs ==
    ASSUME IInv, NEW t \in Threads, pc[t] = "run", NextEngines(t) # {}, NEW j, j = Min(NextEngines(t))
    PROVE  /\ j \in Engines /\ j # 0 /\ j # run[t].engine /\ j \in (run[t].engine + 1) .. Len(eclass)
           /\ AnyClass(run[t].cls)
           /\ \A i \in (run[t].engine + 1) .. Len(eclass) : i < j => ShotsOf(run[t].cls, i) = <<>>
<1> DEFINE k == run[t].engine
           J == NextEngines(t)
<1>1. run[t] \in Runs /\ Stored
  BY DEF IInv, CallTypes
<1>2. k \in Nat /\ run[t].cls \in Seq(Nat)
  BY <1>1, EnginesAre DEF Runs
<1>3. Len(eclass) \in Nat /\ 0 .. Len(eclass) \subseteq Engines
  <2>1. eclass \in Seq(Range(Emin) \ {NoRows}) /\ \A x, y \in DOMAIN eclass : eclass[x] = eclass[y] => x = y
    BY <1>1 DEF Stored, StoredTypes, Tables
  <2>2. 0 .. Len(eclass) \subseteq Engines
    BY <2>1, EngineForEach
  <2>3. Len(eclass) \in Nat
    BY <2>1
  <2> QED
    BY <2>2, <2>3
<1>4. \A i \in J : i \in (k + 1) .. Len(eclass) /\ ShotsOf(run[t].cls, i) # <<>>
  BY DEF NextEngines
<1>5. \A i \in (k + 1) .. Len(eclass) : i \notin J => ShotsOf(run[t].cls, i) = <<>>
  BY DEF NextEngines
<1> HIDE DEF J, k
<1>6. J \in SUBSET Nat /\ \A i \in J : i <= Len(eclass)
  BY <1>2, <1>3, <1>4
<1>7. IsFiniteSet(J)
  BY <1>3, <1>6, FS_BoundedSetOfNaturals
<1>8. j \in J /\ \A i \in J : j <= i
  BY <1>6, <1>7, MinIs DEF J
<1>9. j \in (k + 1) .. Len(eclass) /\ j # 0 /\ j # k /\ j \in Engines
  BY <1>2, <1>3, <1>4, <1>8
<1>10. AnyClass(run[t].cls)
  <2> DEFINE s == ShotsOf(run[t].cls, j)
  <2>1. s # <<>> /\ s \in Seq(Nat) /\ \A x \in DOMAIN s : s[x] \in DOMAIN run[t].cls /\ (j = 0 \/ run[t].cls[s[x]] = j)
    BY <1>2, <1>4, <1>8, ShotsAre
  <2> HIDE DEF s
  <2>2. 1 \in DOMAIN s
    BY <2>1
  <2> QED
    BY <1>9, <2>1, <2>2 DEF AnyClass
<1>11. ASSUME NEW i \in (k + 1) .. Len(eclass), i < j PROVE ShotsOf(run[t].cls, i) = <<>>
  <2>1. i \in Nat /\ j \in Nat
    BY <1>2, <1>3, <1>9
  <2>2. i \notin J
    BY <1>8, <1>11, <2>1
  <2> QED
    BY <1>5, <2>2
<1> QED
  BY <1>9, <1>10, <1>11 DEF k

LEMMA EndRunKeeps ==
    ASSUME IInv, NEW t \in Threads, EndRun(t)
    PROVE  IInv'
<1> DEFINE r == run[t]
           k == r.engine
           cls == r.cls
           ib == call[t].ib
           j == Min(NextEngines(t))
           s == ShotsOf(cls, j)
           ids == [x \in DOMAIN s |-> clsIb[s[x]]]
<1>1. /\ pc[t] = "run" /\ r.pos = Len(r.shots) /\ UNCHANGED <<valid, engIb, clsIb, tableVars, payloadVars>>
      /\ IF NextEngines(t) = {}
         THEN /\ run' = [run EXCEPT ![t].out = Scatter(r)]
              /\ pc' = [pc EXCEPT ![t] = "tail"]
              /\ branchIds' = [branchIds EXCEPT ![k] = <<>>]
              /\ sinkOf' = [sinkOf EXCEPT ![k] = NoThread]
              /\ UNCHANGED <<flag, recording, call>>
         ELSE /\ Enter(t, j, cls, Scatter(r))
              /\ branchIds' = [branchIds EXCEPT ![k] = <<>>, ![j] = ids]
              /\ sinkOf' = [sinkOf EXCEPT ![k] = NoThread, ![j] = t]
  BY DEF EndRun, NextEngines
<1>2. Stored /\ CallTypes /\ Held /\ InRun(t) /\ r \in Runs /\ call[t] \in RunCalls
  BY <1>1 DEF IInv, Phases, InPhase, CallTypes, Held
<1>3. /\ k \in Engines /\ cls \in Seq(Nat) /\ ib \in Seq(Nat)
      /\ branchIds \in [Engines -> Seq(Nat)] /\ sinkOf \in [Engines -> Threads \cup {NoThread}]
      /\ pc \in [Threads -> Places] /\ run \in [Threads -> Runs]
  BY <1>2, CallKinds DEF Runs, CallTypes
<1>4. flag = t /\ t # NoThread /\ \A u \in Threads : u # t => pc[u] = "idle"
  BY <1>1, <1>2, Alone, ConstantsAssumption DEF ConstantsAssumption
<1>5. Stored'
  BY <1>1, <1>2, StoredStays DEF Stored, StoredTypes, payloadVars
<1>6. UNCHANGED <<table, beng, bclass, eclass>>
  BY <1>1 DEF tableVars
<1>7. /\ Known(ib) /\ cls = Classes(ib) /\ (AnyClass(cls) => clsIb = ClassIds(ib))
      /\ (Mixed \/ engIb = IF AnyOwn(ib) THEN OwnIds(ib) ELSE <<>>)
      /\ \A i \in Engines \ {k} : branchIds[i] = <<>> /\ sinkOf[i] = NoThread
  BY <1>2 DEF InRun, Progress
<1>8. PICK out : out = Scatter(r)
  OBVIOUS
<1>9. out \in Seq(Row) /\ (AnyClass(cls) => Len(out) = Len(ib))
  BY <1>1, <1>8, ScatterIs
<1> HIDE DEF r, k, cls, ib, j, s
<1>10. CASE NextEngines(t) = {}
  <2>1. /\ run' = [run EXCEPT ![t].out = out] /\ pc' = [pc EXCEPT ![t] = "tail"]
        /\ branchIds' = [branchIds EXCEPT ![k] = <<>>] /\ sinkOf' = [sinkOf EXCEPT ![k] = NoThread]
        /\ UNCHANGED <<flag, recording, call>>
    BY <1>1, <1>8, <1>10
  <2>2. /\ run' \in [Threads -> Runs] /\ run'[t].cls = cls
    BY <1>2, <1>3, <1>9, <2>1 DEF r, cls, Runs
  <2>3. branchIds' \in [Engines -> Seq(Nat)] /\ sinkOf' \in [Engines -> Threads \cup {NoThread}]
    <3>1. <<>> \in Seq(Nat)
      OBVIOUS
    <3> QED
      BY <1>3, <2>1, <3>1
  <2>4. pc' \in [Threads -> Places] /\ pc'[t] = "tail" /\ \A u \in Threads : u # t => pc'[u] = "idle"
    BY <1>3, <1>4, <2>1 DEF Places
  <2>5. CallTypes'
    BY <1>1, <1>2, <2>1, <2>2, <2>3, <2>4 DEF CallTypes
  <2>6. Held'
    BY <1>2, <1>4, <2>1, <2>4 DEF Held
  <2>7. Handed'
    BY <1>3, <1>7, <2>1 DEF Handed
  <2>8. InTail(t)'
    <3>1. ib' = ib
      BY <2>1 DEF ib
    <3>2. Known(ib)' /\ Classes(ib)' = Classes(ib)
      BY <1>6, <1>7, <3>1 DEF Known, Classes
    <3> QED
      BY <1>7, <2>2, <2>7, <3>1, <3>2 DEF InTail, ib
  <2>9. Phases'
    <3>1. InPhase(t)'
      BY <2>4, <2>8 DEF InPhase
    <3> QED
      BY <1>4, <2>1, <2>4, <3>1, OthersInPhase
  <2> QED
    BY <1>5, <2>5, <2>6, <2>9 DEF IInv
<1>11. CASE NextEngines(t) # {}
  <2>1. /\ Enter(t, j, cls, out)
        /\ branchIds' = [branchIds EXCEPT ![k] = <<>>, ![j] = ids]
        /\ sinkOf' = [sinkOf EXCEPT ![k] = NoThread, ![j] = t]
    BY <1>1, <1>8, <1>11
  <2>2. /\ j \in Engines /\ j # 0 /\ j # k /\ j \in (k + 1) .. Len(eclass)
        /\ AnyClass(cls)
    BY <1>1, <1>11, NextEngineIs DEF j, k, cls, r
  <2>3. /\ run' \in [Threads -> Runs] /\ pc' \in [Threads -> Places]
        /\ flag' = flag /\ recording' = recording /\ call' = call /\ flag = t
        /\ run'[t] = [engine |-> j, cls |-> cls, shots |-> s, pos |-> 0, sink |-> <<>>, out |-> out]
        /\ pc'[t] = "run" /\ \A u \in Threads : u # t => pc'[u] = "idle"
        /\ Held'
    BY <1>1, <1>2, <1>3, <1>9, <2>1, <2>2, EnterIs DEF s
  <2>4. s \in Seq(Nat) /\ \A x \in DOMAIN s : s[x] \in DOMAIN cls
    BY <1>3, ShotsAre DEF s
  <2>5. ids \in Seq(Nat)
    <3>1. clsIb \in Seq(Nat) /\ Len(clsIb) = Len(ib) /\ Len(cls) = Len(ib)
      BY <1>2, <1>3, <1>7, <2>2, ReadingsAre
    <3>2. \A x \in DOMAIN s : clsIb[s[x]] \in Nat
      BY <1>3, <2>4, <3>1
    <3>3. ids \in [1 .. Len(s) -> Nat] /\ Len(s) \in Nat
      BY <2>4, <3>2
    <3> QED
      BY <3>3
  <2> HIDE DEF ids
  <2>6. /\ branchIds' \in [Engines -> Seq(Nat)] /\ sinkOf' \in [Engines -> Threads \cup {NoThread}]
        /\ branchIds'[j] = ids /\ sinkOf'[j] = t
        /\ \A i \in Engines \ {j} : branchIds'[i] = <<>> /\ sinkOf'[i] = NoThread
    <3>1. <<>> \in Seq(Nat)
      OBVIOUS
    <3>2. branchIds' \in [Engines -> Seq(Nat)] /\ sinkOf' \in [Engines -> Threads \cup {NoThread}]
      BY <1>3, <2>1, <2>5, <3>1
    <3>3. branchIds'[j] = ids /\ sinkOf'[j] = t
      BY <1>3, <2>1, <2>2
    <3>4. ASSUME NEW i \in Engines \ {j} PROVE branchIds'[i] = <<>> /\ sinkOf'[i] = NoThread
      <4>1. CASE i = k
        BY <1>3, <2>1, <2>2, <4>1
      <4>2. CASE i # k
        BY <1>3, <1>7, <2>1, <2>2, <4>2
      <4> QED
        BY <4>1, <4>2
    <3> QED
      BY <3>2, <3>3, <3>4
  <2>7. CallTypes'
    BY <1>1, <1>2, <2>3, <2>6 DEF CallTypes
  <2>8. InRun(t)'
    <3>1. ib' = ib
      BY <2>3 DEF ib
    <3>2. /\ Known(ib)' /\ Classes(ib)' = Classes(ib) /\ (AnyOwn(ib)' <=> AnyOwn(ib))
          /\ OwnIds(ib)' = OwnIds(ib) /\ ClassIds(ib)' = ClassIds(ib)
      <4>1. Known(ib)' /\ (AnyOwn(ib)' <=> AnyOwn(ib))
        BY <1>6, <1>7, <3>1 DEF Known, AnyOwn
      <4>2. Classes(ib)' = Classes(ib)
        BY <1>6, <3>1 DEF Classes
      <4>3. OwnIds(ib)' = OwnIds(ib) /\ ClassIds(ib)' = ClassIds(ib)
        BY <1>6, <3>1, <4>2 DEF OwnIds, ClassIds, InEngine
      <4> QED
        BY <4>1, <4>2, <4>3
    <3>3. /\ run'[t].engine = j /\ run'[t].cls = cls /\ run'[t].shots = s /\ run'[t].pos = 0
          /\ run'[t].sink = <<>> /\ run'[t].out = out
      BY <2>3
    <3>4. call'[t].ib = ib
      BY <2>3 DEF ib
    <3>5. j \in 0 .. Len(eclass) /\ Len(s) \in Nat /\ Len(<<>>) = 0
      <4>1. k \in Nat /\ Len(eclass) \in Nat
        BY <1>2, <1>3, EnginesAre DEF Stored, StoredTypes
      <4> QED
        BY <2>2, <2>4, <4>1
    <3>6. s = ShotsOf(cls, j) /\ ids = [x \in DOMAIN s |-> clsIb'[s[x]]]
      BY <1>1 DEF s, ids
    <3>7. Mixed \/ engIb' = IF AnyOwn(ib)' THEN OwnIds(ib)' ELSE <<>>
      BY <1>1, <1>7, <3>2
    <3>8. clsIb' = ClassIds(ib)' /\ cls = Classes(ib)'
      BY <1>1, <1>7, <2>2, <3>2
    <3>9. Known(call[t].ib)' /\ (AnyOwn(call[t].ib)' <=> AnyOwn(ib)') /\ OwnIds(call[t].ib)' = OwnIds(ib)'
          /\ ClassIds(call[t].ib)' = ClassIds(ib)' /\ Classes(call[t].ib)' = Classes(ib)'
      BY <3>2 DEF ib
    <3>10. AnyClass(run[t].cls)'
      BY <2>2, <3>3
    <3>11. ShotsOf(run[t].cls, run[t].engine)' = s
      BY <3>3, <3>6
    <3>12. (run[t].pos <= Len(run[t].shots))'
      BY <3>3, <3>5
    <3>13. (run[t].engine \in 0 .. Len(eclass))'
      BY <1>6, <3>3, <3>5
    <3> QED
      BY <1>9, <2>2, <2>6, <3>3, <3>4, <3>5, <3>6, <3>7, <3>8, <3>9, <3>10, <3>11, <3>12, <3>13 DEF InRun, Progress
  <2>9. Phases'
    <3>1. InPhase(t)'
      BY <2>3, <2>8 DEF InPhase
    <3> QED
      BY <1>4, <2>3, <3>1, OthersInPhase
  <2> QED
    BY <1>5, <2>3, <2>7, <2>9 DEF IInv
<1> QED
  BY <1>10, <1>11

LEMMA NextKeeps == IInv /\ [Next]_vars => IInv'
<1> SUFFICES ASSUME IInv, [Next]_vars PROVE IInv'
  OBVIOUS
<1>1. CASE UNCHANGED vars
  <2>1. Stored'
    BY <1>1, StoredStays DEF IInv, Stored, StoredTypes, vars, payloadVars
  <2>2. CallTypes' /\ Held'
    BY <1>1 DEF IInv, CallTypes, Held, vars, objectVars, engineVars, callVars
  <2>3. Phases'
    BY <1>1, PhasesStay DEF IInv, vars, objectVars, callVars
  <2> QED
    BY <2>1, <2>2, <2>3 DEF IInv
<1>2. ASSUME NEW t \in Threads, Begins(t) PROVE IInv'
  BY <1>2, AskRunKeeps, AskAddKeeps, SetBudgetKeeps, TurnAwayKeeps DEF Begins
<1>3. ASSUME NEW t \in Threads, Goes(t) PROVE IInv'
  BY <1>3, BranchesKeeps, RunShotKeeps, EndRunKeeps, FinishKeeps, BuildHostKeeps, AddKeeps DEF Goes
<1>4. ASSUME NEW t \in Threads, Stops(t) PROVE IInv'
  BY <1>4, RunFailsKeeps, AddRefusedKeeps DEF Stops
<1> QED
  BY <1>1, <1>2, <1>3, <1>4 DEF Next

(* At every state the branch tables lead each number to its branch, every   *)
(* payload an engine holds is the one of its branch, the flag is held by    *)
(* the one thread that is in a call, and the engines hold what that call    *)
(* handed them and nothing else (family_sampler.hpp, BusyHold, btab_,       *)
(* IbReset).                                                                *)
THEOREM SamplerInvariance == Spec => []IInv
<1>1. Init => IInv
  BY InitRight
<1>2. IInv /\ [Next]_vars => IInv'
  BY NextKeeps
<1> QED
  BY <1>1, <1>2, PTL DEF Spec

(* A sampler nobody uses holds nothing of a call that has ended             *)
(* (IbReset, BusyHold), where no recorded call mixes the branches of its    *)
(* own engine with those of a per-E consumer: such a call is refused after  *)
(* eng_ib_ is assigned (family_sampler.hpp:1249-1258).                      *)
THEOREM NothingStaysBehind ==
    ASSUME Mixed = FALSE
    PROVE  Spec => []NothingLeftBehind
<1>1. IInv => NothingLeftBehind
  BY DEF IInv, Phases, Clean, Handed, NothingLeftBehind
<1> QED
  BY <1>1, SamplerInvariance, PTL

LEMMA StepsTouchWithin ==
    ASSUME IInv, Next, NEW j \in Engines, used'[j] # used[j]
    PROVE  TouchedWithinBudget(j)
<1>1. PICK t \in Threads : Begins(t) \/ Goes(t) \/ Stops(t)
  BY DEF Next
<1>2. RunShot(t)
  <2>1. used' # used
    OBVIOUS
  <2>2. ~Begins(t)
    BY <2>1 DEF Begins, AskRun, AskAdd, SetBudget, TurnAway, payloadVars
  <2>3. ~Stops(t)
    BY <2>1 DEF Stops, RunFails, AddRefused, payloadVars
  <2>4. ~Branches(t) /\ ~EndRun(t) /\ ~Finish(t) /\ ~BuildHost(t) /\ ~Add(t)
    BY <2>1 DEF Branches, EndRun, Finish, BuildHost, Add, payloadVars
  <2> QED
    BY <1>1, <2>2, <2>3, <2>4 DEF Goes
<1> DEFINE k == run[t].engine
<1>3. PICK n : k \in Engines /\ n \in Nat /\ n <= Len(branches[k]) /\ Touch(k, n)
  BY <1>2, ShotIs
<1> HIDE DEF k
<1>4. Stored /\ used \in [Engines -> Seq(Nat)] /\ branches[k] \in Seq(Handles)
  BY <1>3 DEF IInv, Stored, StoredTypes
<1>5. /\ n # 0 /\ used' = [used EXCEPT ![k] = NowUsed(k, n)]
      /\ payload' = [payload EXCEPT ![k] = Restrict(Supplied(k, n), Kept(k, n))]
  BY <1>3 DEF Touch
<1>6. j = k /\ n \in DOMAIN branches[k]
  BY <1>3, <1>4, <1>5
<1> QED
  BY <1>3, <1>4, <1>5, <1>6, TouchWithin

(* After a shot that touched the payloads of its engine they are within the *)
(* branch budget or the shot's branch is alone, it is there, nothing that   *)
(* stayed was used before what was evicted, and the last of that had to go  *)
(* (fam_branch_payload_).                                                   *)
THEOREM BudgetsAreKept == Spec => PayloadsWithinBudget
<1>1. IInv /\ [Next]_vars => [\A k \in Engines : used'[k] # used[k] => TouchedWithinBudget(k)]_vars
  BY StepsTouchWithin
<1> QED
  BY <1>1, SamplerInvariance, PTL DEF Spec, PayloadsWithinBudget

-----------------------------------------------------------------------------
(* The rows of a run.                                                       *)

(* The row of shot i as engine k runs it: another engine's shot runs as      *)
(* branch 0, for its row to be scattered over.                              *)
RowOf(handles, cls, ib, k, i) ==
    [branch |-> IF ib[i] = 0 \/ cls[i] # k THEN Ideal ELSE handles[ib[i]], reference |-> k]

RowsOf(handles, cls, ib, k, shots, p) == [x \in 1 .. p |-> RowOf(handles, cls, ib, k, shots[x])]
DueRows(handles, ib) ==
    [i \in DOMAIN ib |-> [branch |-> IF ib[i] = 0 THEN Ideal ELSE handles[ib[i]], reference |-> 0]]

PassingOf(rows) == Promise!Pick(rows, Promise!Passing(rows))
Masked(c, cls) == c.masked /\ ~AnyClass(cls)

GotSoFar(handles, c, r) ==
    LET rows == RowsOf(handles, r.cls, c.ib, r.engine, r.shots, r.pos)
    IN  /\ r.sink = IF Masked(c, r.cls) THEN PassingOf(rows) ELSE rows
        /\ r.engine # 0 =>
              \A i \in DOMAIN r.out : r.cls[i] < r.engine => r.out[i] = DueRows(handles, c.ib)[i]

GotAll(handles, c, r) ==
    r.out = IF Masked(c, r.cls) THEN PassingOf(DueRows(handles, c.ib)) ELSE DueRows(handles, c.ib)

RowsRight == \A t \in Threads :
    /\ pc[t] = "run" => GotSoFar(table, call[t], run[t])
    /\ pc[t] = "tail" => GotAll(table, call[t], run[t])

LEMMA DueRowsArePromised == \A c : Promise!AllRows(c) = DueRows(table, c.ib)
BY DEF Promise!AllRows, Promise!BranchOf, DueRows

LEMMA RowsAre ==
    ASSUME Stored, NEW ib \in Seq(Nat), Known(ib), NEW k \in Nat, NEW cls
    PROVE  \A i \in DOMAIN ib : RowOf(table, cls, ib, k, i) \in Row
<1>1. table \in Seq(Handles)
  BY DEF Stored, StoredTypes
<1>2. \A i \in DOMAIN ib : ib[i] # 0 => table[ib[i]] \in Handles
  BY <1>1, ReadingsAre
<1> QED
  BY <1>2 DEF RowOf, Row

LEMMA DueRowsAre ==
    ASSUME Stored, NEW ib \in Seq(Nat), Known(ib)
    PROVE  /\ DueRows(table, ib) \in Seq(Row) /\ Len(DueRows(table, ib)) = Len(ib)
           /\ \A i \in DOMAIN ib : DueRows(table, ib)[i] =
                 [branch |-> IF ib[i] = 0 THEN Ideal ELSE table[ib[i]], reference |-> 0]
<1> DEFINE rows == DueRows(table, ib)
<1>1. table \in Seq(Handles)
  BY DEF Stored, StoredTypes
<1>2. /\ rows = [i \in DOMAIN ib |-> rows[i]]
      /\ \A i \in DOMAIN ib : rows[i] = [branch |-> IF ib[i] = 0 THEN Ideal ELSE table[ib[i]], reference |-> 0]
  BY DEF DueRows
<1> HIDE DEF rows
<1>4. \A i \in DOMAIN ib : ib[i] # 0 => table[ib[i]] \in Handles
  BY <1>1, ReadingsAre
<1>5. \A i \in DOMAIN ib : rows[i] \in Row
  BY <1>2, <1>4 DEF Row
<1>6. DOMAIN ib = 1 .. Len(ib) /\ Len(ib) \in Nat
  OBVIOUS
<1>7. rows \in [1 .. Len(ib) -> Row]
  BY <1>2, <1>5, <1>6
<1> QED
  BY <1>2, <1>6, <1>7 DEF rows

(* A shot runs as the branch it asked for, or as branch 0 where another     *)
(* engine is to run it.                                                     *)
LEMMA ShotRow ==
    ASSUME IInv, Mixed = FALSE, NEW t \in Threads, pc[t] = "run", run[t].pos + 1 <= Len(run[t].shots),
           NEW n \in IdsAt(run[t].engine, run[t].pos + 1)
    PROVE  (IF n = 0 THEN Ideal ELSE branches[run[t].engine][n])
              = RowOf(table, run[t].cls, call[t].ib, run[t].engine, run[t].shots[run[t].pos + 1]).branch
<1> DEFINE r == run[t]
           k == r.engine
           ib == call[t].ib
           i == r.pos + 1
           e == r.shots[i]
<1>1. Stored /\ r \in Runs /\ call[t] \in RunCalls /\ Progress(t, ib, k, r.cls, r.shots)
  BY DEF IInv, CallTypes, Phases, InPhase, Held, InRun
<1>2. ib \in Seq(Nat) /\ r.cls \in Seq(Nat) /\ r.pos \in Nat /\ k \in Engines
  BY <1>1, CallKinds DEF Runs
<1>3. /\ Known(ib) /\ r.cls = Classes(ib) /\ r.shots = ShotsOf(r.cls, k)
      /\ engIb = IF AnyOwn(ib) THEN OwnIds(ib) ELSE <<>>
      /\ (k # 0 => AnyClass(r.cls)) /\ (AnyClass(r.cls) => clsIb = ClassIds(ib))
      /\ (k = 0 => branchIds[0] = engIb)
      /\ (k # 0 => branchIds[k] = [x \in DOMAIN r.shots |-> clsIb[r.shots[x]]])
  BY <1>1 DEF Progress
<1>4. i \in DOMAIN r.shots
  <2>1. r.shots \in Seq(Nat)
    BY <1>1 DEF Runs
  <2> QED
    BY <1>2, <2>1
<1>5. e \in DOMAIN r.cls /\ (k = 0 \/ r.cls[e] = k) /\ (k = 0 => e = i)
  <2> DEFINE cls == r.cls
             w == ShotsOf(cls, k)
  <2>1. cls \in Seq(Nat) /\ i \in DOMAIN w /\ e = w[i]
    BY <1>2, <1>3, <1>4
  <2> HIDE DEF r, k, ib, i, e, cls
  <2>2. \A x \in DOMAIN w : w[x] \in DOMAIN cls /\ (k = 0 \/ cls[w[x]] = k)
    BY <2>1, ShotsAre
  <2>3. k = 0 => w = [x \in DOMAIN cls |-> x]
    BY <2>1, ShotsAre
  <2> HIDE DEF w
  <2>4. k = 0 => w[i] = i
    BY <2>1, <2>3
  <2> QED
    BY <2>1, <2>2, <2>4 DEF cls
<1>6. /\ Len(Classes(ib)) = Len(ib) /\ Classes(ib) \in Seq(Nat)
      /\ Len(OwnIds(ib)) = Len(ib) /\ OwnIds(ib) \in Seq(Nat)
      /\ \A x \in DOMAIN ib : ib[x] # 0 => /\ ib[x] \in DOMAIN table
                                           /\ Classes(ib)[x] = bclass[ib[x]]
                                           /\ InEngine(ib)[x] = beng[ib[x]]
      /\ \A x \in DOMAIN ib : ib[x] = 0 => Classes(ib)[x] = 0 /\ InEngine(ib)[x] = 0
  BY <1>1, <1>2, <1>3, ReadingsAre
<1>7. e \in DOMAIN ib /\ DOMAIN OwnIds(ib) = DOMAIN ib
  BY <1>2, <1>3, <1>5, <1>6
<1>8. ib[e] # 0 => /\ beng[ib[e]] # 0 /\ branches[bclass[ib[e]]][beng[ib[e]]] = table[ib[e]]
  <2>1. \A b \in DOMAIN table : /\ bclass[b] \in 0 .. Len(eclass)
                                /\ beng[b] \in DOMAIN branches[bclass[b]]
                                /\ branches[bclass[b]][beng[b]] = table[b]
    BY <1>1 DEF Stored, Tables
  <2>2. 0 .. Len(eclass) \subseteq Engines
    <3>1. eclass \in Seq(Range(Emin) \ {NoRows}) /\ \A x, y \in DOMAIN eclass : eclass[x] = eclass[y] => x = y
      BY <1>1 DEF Stored, StoredTypes, Tables
    <3> QED
      BY <3>1, EngineForEach
  <2>3. \A x \in Engines : branches[x] \in Seq(Handles)
    BY <1>1 DEF Stored, StoredTypes
  <2>4. \A x \in Engines : 0 \notin DOMAIN branches[x]
    BY <2>3
  <2> QED
    BY <1>6, <1>7, <2>1, <2>2, <2>4
<1>9. RowOf(table, r.cls, ib, k, e).branch = IF ib[e] = 0 \/ Classes(ib)[e] # k THEN Ideal ELSE table[ib[e]]
  BY <1>3 DEF RowOf
<1>10. n \in IdsAt(k, i)
  OBVIOUS
<1> HIDE DEF r, k, ib, i, e
<1>11. CASE k = 0 /\ AnyOwn(ib)
  <2>1. branchIds[k] = OwnIds(ib) /\ i \in DOMAIN branchIds[k]
    BY <1>3, <1>5, <1>7, <1>11
  <2>2. branchIds[k] # <<>>
    BY <2>1
  <2>3. n = OwnIds(ib)[e]
    BY <1>5, <1>10, <1>11, <2>1, <2>2 DEF IdsAt
  <2>4. n = IF Classes(ib)[e] = 0 THEN InEngine(ib)[e] ELSE 0
    BY <1>7, <2>3 DEF OwnIds
  <2>5. CASE ib[e] = 0
    BY <1>6, <1>7, <1>9, <2>4, <2>5 DEF r, k, ib, i, e
  <2>6. CASE ib[e] # 0 /\ Classes(ib)[e] # 0
    BY <1>9, <1>11, <2>4, <2>6 DEF r, k, ib, i, e
  <2>7. CASE ib[e] # 0 /\ Classes(ib)[e] = 0
    <3>1. n = beng[ib[e]] /\ bclass[ib[e]] = 0
      BY <1>6, <1>7, <2>4, <2>7
    <3>2. (IF n = 0 THEN Ideal ELSE branches[k][n]) = table[ib[e]]
      BY <1>8, <1>11, <2>7, <3>1
    <3> QED
      BY <1>9, <1>11, <2>7, <3>2 DEF r, k, ib, i, e
  <2> QED
    BY <2>5, <2>6, <2>7
<1>12. CASE k = 0 /\ ~AnyOwn(ib)
  <2>1. n = 0
    BY <1>3, <1>10, <1>12 DEF IdsAt
  <2>2. ib[e] = 0 \/ Classes(ib)[e] # 0
    BY <1>6, <1>7, <1>12 DEF AnyOwn
  <2> QED
    BY <1>9, <1>12, <2>1, <2>2 DEF r, k, ib, i, e
<1>13. CASE k # 0
  <2>1. branchIds[k] = [x \in DOMAIN r.shots |-> clsIb[r.shots[x]]] /\ clsIb = ClassIds(ib)
    BY <1>3, <1>13
  <2>2. branchIds[k] # <<>> /\ i \in DOMAIN branchIds[k] /\ branchIds[k][i] = ClassIds(ib)[e]
    BY <1>4, <2>1 DEF e
  <2>3. n = ClassIds(ib)[e]
    BY <1>10, <2>2 DEF IdsAt
  <2>4. n = InEngine(ib)[e] /\ Classes(ib)[e] = k /\ ib[e] # 0
    BY <1>3, <1>5, <1>6, <1>7, <1>13, <2>3 DEF ClassIds
  <2>5. n = beng[ib[e]] /\ bclass[ib[e]] = k
    BY <1>6, <1>7, <2>4
  <2>6. (IF n = 0 THEN Ideal ELSE branches[k][n]) = table[ib[e]]
    BY <1>8, <2>4, <2>5
  <2> QED
    BY <1>9, <2>4, <2>6 DEF r, k, ib, i, e
<1> QED
  BY <1>11, <1>12, <1>13

(* One more row passes or does not.                                         *)
LEMMA PassingAppends ==
    ASSUME NEW rows \in Seq(Row), NEW row \in Row
    PROVE  PassingOf(Append(rows, row)) = IF row.branch \in Bad THEN PassingOf(rows)
                                          ELSE Append(PassingOf(rows), row)
<1> DEFINE I == Promise!Passing(rows)
           w == Append(rows, row)
           L == Len(rows)
<1>1. L \in Nat /\ Len(w) = L + 1 /\ DOMAIN w = 1 .. L + 1 /\ DOMAIN rows = 1 .. L
      /\ w[L + 1] = row /\ \A i \in 1 .. L : w[i] = rows[i]
  OBVIOUS
<1>2. I \in SUBSET (DOMAIN rows)
  BY DEF Promise!Passing
<1> HIDE DEF w, L
<1>3. Promise!Passing(w) = IF row.branch \in Bad THEN I ELSE I \cup {L + 1}
  <2>1. \A i \in DOMAIN w : i \in 1 .. L \/ i = L + 1
    BY <1>1
  <2>2. \A i \in 1 .. L : i \in DOMAIN w /\ i # L + 1
    BY <1>1
  <2>3. L + 1 \in DOMAIN w
    BY <1>1
  <2>4. \A i : i \in Promise!Passing(w) <=> i \in DOMAIN w /\ w[i].branch \notin Bad
    BY DEF Promise!Passing
  <2>5. \A i : i \in I <=> i \in 1 .. L /\ rows[i].branch \notin Bad
    BY <1>1 DEF Promise!Passing
  <2> HIDE DEF I
  <2>6. CASE row.branch \in Bad
    <3>1. \A i : i \in Promise!Passing(w) <=> i \in I
      BY <1>1, <2>1, <2>2, <2>4, <2>5, <2>6
    <3> QED
      BY <2>6, <3>1
  <2>7. CASE row.branch \notin Bad
    <3>1. \A i : i \in Promise!Passing(w) <=> i \in I \cup {L + 1}
      BY <1>1, <2>1, <2>2, <2>3, <2>4, <2>5, <2>7
    <3> QED
      BY <2>7, <3>1
  <2> QED
    BY <2>6, <2>7
<1> HIDE DEF I
<1>4. Promise!Pick(w, I) = Promise!Pick(rows, I) /\ Promise!Pick(w, I \cup {L + 1}) = Append(Promise!Pick(rows, I), row)
  BY <1>2, PickKeeps DEF w, L
<1> QED
  BY <1>3, <1>4 DEF PassingOf, w, I

LEMMA RowsOfNext ==
    ASSUME NEW tab, NEW cls, NEW ib, NEW k, NEW shots, NEW p \in Nat,
           \A x \in 1 .. p + 1 : RowOf(tab, cls, ib, k, shots[x]) \in Row
    PROVE  /\ RowsOf(tab, cls, ib, k, shots, p) \in Seq(Row)
           /\ RowsOf(tab, cls, ib, k, shots, p + 1) = Append(RowsOf(tab, cls, ib, k, shots, p), RowOf(tab, cls, ib, k, shots[p + 1]))
<1> DEFINE f(x) == RowOf(tab, cls, ib, k, shots[x])
           a == RowsOf(tab, cls, ib, k, shots, p)
           b == RowsOf(tab, cls, ib, k, shots, p + 1)
<1>1. a = [x \in 1 .. p |-> f(x)] /\ b = [x \in 1 .. p + 1 |-> f(x)]
  BY DEF RowsOf
<1>2. \A x \in 1 .. p + 1 : f(x) \in Row
  OBVIOUS
<1> HIDE DEF f, a, b
<1>3. a \in Seq(Row) /\ Len(a) = p /\ b \in Seq(Row) /\ Len(b) = p + 1
  <2>1. a \in [1 .. p -> Row]
    BY <1>1, <1>2
  <2>2. b \in [1 .. p + 1 -> Row]
    BY <1>1, <1>2
  <2>3. p + 1 \in Nat
    OBVIOUS
  <2> QED
    BY <2>1, <2>2, <2>3
<1>4. f(p + 1) \in Row
  BY <1>2
<1>5. Append(a, f(p + 1)) \in Seq(Row) /\ Len(Append(a, f(p + 1))) = p + 1
  BY <1>3, <1>4
<1>6. ASSUME NEW x \in 1 .. Len(b) PROVE b[x] = Append(a, f(p + 1))[x]
  <2>1. x \in 1 .. p \/ x = p + 1
    BY <1>3
  <2>2. CASE x \in 1 .. p
    BY <1>1, <1>3, <2>2
  <2>3. CASE x = p + 1
    BY <1>1, <1>3, <2>3
  <2> QED
    BY <2>1, <2>2, <2>3
<1>7. b = Append(a, f(p + 1))
  BY <1>3, <1>5, <1>6, SeqEqual
<1> QED
  BY <1>3, <1>7 DEF a, b, f

LEMMA NoRowsYet ==
    ASSUME NEW tab, NEW cls, NEW ib, NEW k, NEW shots
    PROVE  RowsOf(tab, cls, ib, k, shots, 0) = <<>> /\ PassingOf(<<>>) = <<>>
<1>1. RowsOf(tab, cls, ib, k, shots, 0) = <<>>
  BY DEF RowsOf
<1>2. PICK none : none = <<>>
  OBVIOUS
<1>3. none \in Seq(Row) /\ DOMAIN none = {} /\ {} \in SUBSET (DOMAIN none)
  BY <1>2
<1>4. Promise!Passing(none) = {}
  BY <1>3 DEF Promise!Passing
<1>5. Promise!Pick(none, {}) \in Seq(Row) /\ Len(Promise!Pick(none, {})) = 0
  BY <1>3, PickIs, FS_EmptySet
<1>6. Promise!Pick(none, {}) = <<>>
  BY <1>5
<1>7. PassingOf(none) = <<>>
  BY <1>4, <1>6 DEF PassingOf
<1> QED
  BY <1>1, <1>2, <1>7

LEMMA RunShotRows ==
    ASSUME IInv, RowsRight, Mixed = FALSE, NEW t \in Threads, RunShot(t)
    PROVE  RowsRight'
<1> DEFINE r == run[t]
           k == r.engine
           ib == call[t].ib
           p == r.pos
           row == RowOf(table, r.cls, ib, k, r.shots[p + 1])
<1>1. PICK n \in IdsAt(k, p + 1) :
         /\ pc[t] = "run" /\ p + 1 <= Len(r.shots) /\ k \in Engines
         /\ run' = [run EXCEPT ![t] =
               [r EXCEPT !.pos = @ + 1,
                         !.sink = IF EngineMasks(t) /\ (IF n = 0 THEN Ideal ELSE branches[k][n]) \in Bad THEN @
                                  ELSE Append(@, [branch |-> IF n = 0 THEN Ideal ELSE branches[k][n],
                                                  reference |-> k])]]
         /\ UNCHANGED <<objectVars, tableVars, engineVars, branches, budget, pc, call>>
  BY ShotIs
<1>2. (IF n = 0 THEN Ideal ELSE branches[k][n]) = row.branch
  BY <1>1, ShotRow
<1>3. row = [branch |-> row.branch, reference |-> k]
  BY DEF RowOf
<1>4. run \in [Threads -> Runs] /\ r \in Runs /\ Stored /\ Progress(t, ib, k, r.cls, r.shots) /\ call[t] \in RunCalls
  BY <1>1 DEF IInv, CallTypes, Phases, InPhase, InRun, Held
<1>5. ib \in Seq(Nat) /\ r.cls \in Seq(Nat) /\ p \in Nat /\ k \in Nat /\ r.shots \in Seq(Nat) /\ r.sink \in Seq(Row)
  BY <1>4, CallKinds, EnginesAre DEF Runs
<1>6. \A x \in 1 .. p + 1 : RowOf(table, r.cls, ib, k, r.shots[x]) \in Row
  <2>1. Known(ib) /\ r.cls = Classes(ib) /\ r.shots = ShotsOf(r.cls, k)
    BY <1>4 DEF Progress
  <2>2. Len(r.cls) = Len(ib)
    BY <1>4, <1>5, <2>1, ReadingsAre
  <2>3. DOMAIN r.cls = DOMAIN ib
    BY <1>5, <2>2
  <2>4. \A x \in DOMAIN r.shots : r.shots[x] \in DOMAIN ib
    BY <1>5, <2>1, <2>3, ShotsAre
  <2>5. \A x \in 1 .. p + 1 : x \in DOMAIN r.shots
    BY <1>1, <1>5
  <2>6. \A i \in DOMAIN ib : RowOf(table, r.cls, ib, k, i) \in Row
    BY <1>4, <1>5, <2>1, RowsAre
  <2> HIDE DEF r, k, ib, p
  <2> QED
    BY <2>4, <2>5, <2>6
<1> DEFINE rows == RowsOf(table, r.cls, ib, k, r.shots, p)
           r1 == run'[t]
<1>7. rows \in Seq(Row) /\ RowsOf(table, r.cls, ib, k, r.shots, p + 1) = Append(rows, row) /\ row \in Row
  <2> HIDE DEF r, k, ib, p
  <2>1. p + 1 \in 1 .. p + 1
    BY <1>5
  <2> QED
    BY <1>5, <1>6, <2>1, RowsOfNext
<1>8. /\ r1.engine = k /\ r1.cls = r.cls /\ r1.shots = r.shots /\ r1.pos = p + 1 /\ r1.out = r.out
      /\ r1.sink = IF EngineMasks(t) /\ row.branch \in Bad THEN r.sink ELSE Append(r.sink, row)
      /\ \A u \in Threads : u # t => run'[u] = run[u]
  <2> DEFINE r2 == [r EXCEPT !.pos = @ + 1,
                             !.sink = IF EngineMasks(t) /\ row.branch \in Bad THEN @ ELSE Append(@, row)]
  <2>1. run' = [run EXCEPT ![t] = r2]
    BY <1>1, <1>2, <1>3
  <2> HIDE DEF row
  <2>2. /\ r2.engine = k /\ r2.cls = r.cls /\ r2.shots = r.shots /\ r2.pos = p + 1 /\ r2.out = r.out
        /\ r2.sink = IF EngineMasks(t) /\ row.branch \in Bad THEN r.sink ELSE Append(r.sink, row)
    BY <1>4 DEF Runs
  <2> HIDE DEF r2
  <2> QED
    BY <1>4, <2>1, <2>2
<1>9. UNCHANGED <<table, call, pc>>
  BY <1>1 DEF tableVars
<1>10. GotSoFar(table, call[t], r)
  BY <1>1 DEF RowsRight
<1>11. \A u \in Threads : u # t => pc[u] = "idle"
  BY <1>1, Alone DEF IInv
<1>12. EngineMasks(t) <=> Masked(call[t], r.cls)
  BY DEF EngineMasks, Masked
<1> HIDE DEF r, k, ib, p, row, rows, r1
<1>13. r1.sink = IF Masked(call[t], r.cls) THEN PassingOf(Append(rows, row)) ELSE Append(rows, row)
  <2>1. r.sink = IF Masked(call[t], r.cls) THEN PassingOf(rows) ELSE rows
    BY <1>10 DEF GotSoFar, rows, k, p, ib
  <2> QED
    BY <1>7, <1>8, <1>12, <2>1, PassingAppends
<1>14. GotSoFar(table, call[t], r1)
  <2>1. RowsOf(table, r1.cls, call[t].ib, r1.engine, r1.shots, r1.pos) = Append(rows, row)
    BY <1>7, <1>8 DEF ib
  <2>2. r1.engine # 0 =>
           \A i \in DOMAIN r1.out : r1.cls[i] < r1.engine => r1.out[i] = DueRows(table, call[t].ib)[i]
    BY <1>8, <1>10 DEF GotSoFar, k
  <2> QED
    BY <1>8, <1>13, <2>1, <2>2 DEF GotSoFar
<1>15. GotSoFar(table, call[t], run[t])'
  BY <1>9, <1>14 DEF r1
<1> QED
  BY <1>1, <1>9, <1>11, <1>15 DEF RowsRight

LEMMA OneRuns ==
    ASSUME NEW t \in Threads, \A u \in Threads : u # t => pc'[u] = "idle",
           pc'[t] = "run" => GotSoFar(table, call[t], run[t])',
           pc'[t] = "tail" => GotAll(table, call[t], run[t])'
    PROVE  RowsRight'
BY DEF RowsRight

LEMMA NobodyRuns ==
    ASSUME \A u \in Threads : pc'[u] \notin {"run", "tail"}
    PROVE  RowsRight'
BY DEF RowsRight

LEMMA BranchesRows ==
    ASSUME IInv, NEW t \in Threads, Branches(t)
    PROVE  RowsRight'
<1> DEFINE cls == Classes(call[t].ib)
<1>1. pc[t] = "branches" /\ UNCHANGED table /\ (RefuseAsk(t) \/ Enter(t, 0, cls, <<>>))
  BY DEF Branches, tableVars
<1>2. \A u \in Threads : u # t => pc[u] = "idle"
  BY <1>1, Alone DEF IInv
<1>3. pc \in [Threads -> Places] /\ run \in [Threads -> Runs]
  BY DEF IInv, CallTypes
<1>4. CASE RefuseAsk(t)
  <2>1. pc' = [pc EXCEPT ![t] = "idle"]
    BY <1>4 DEF RefuseAsk, Leave
  <2>2. \A u \in Threads : pc'[u] = "idle"
    BY <1>2, <1>3, <2>1
  <2> QED
    BY <2>2, NobodyRuns
<1>5. CASE Enter(t, 0, cls, <<>>)
  <2> DEFINE r == [engine |-> 0, cls |-> cls, shots |-> ShotsOf(cls, 0), pos |-> 0, sink |-> <<>>, out |-> <<>>]
  <2>1. run' = [run EXCEPT ![t] = r] /\ pc' = [pc EXCEPT ![t] = "run"]
    BY <1>5 DEF Enter
  <2>2. run'[t] = r /\ pc'[t] = "run" /\ \A u \in Threads : u # t => pc'[u] = "idle"
    BY <1>2, <1>3, <2>1
  <2>3. r.engine = 0 /\ r.pos = 0 /\ r.sink = <<>>
    OBVIOUS
  <2> HIDE DEF r
  <2>4. GotSoFar(table', call'[t], r)
    BY <2>3, NoRowsYet DEF GotSoFar
  <2>5. GotSoFar(table, call[t], run[t])'
    BY <2>2, <2>4
  <2> QED
    BY <2>2, <2>5, OneRuns
<1> QED
  BY <1>1, <1>4, <1>5

LEMMA ShotsReach ==
    ASSUME NEW cls \in Seq(Nat), NEW i \in DOMAIN cls
    PROVE  \E x \in DOMAIN ShotsOf(cls, cls[i]) : ShotsOf(cls, cls[i])[x] = i
<1>1. PICK c : c = cls[i]
  OBVIOUS
<1>2. \E x \in DOMAIN ShotsOf(cls, c) : ShotsOf(cls, c)[x] = i
  BY <1>1, ShotsAre
<1> QED
  BY <1>1, <1>2

(* A shot whose engine has not run is what another engine runs for.         *)
LEMMA LaterEngines ==
    ASSUME IInv, NEW t \in Threads, pc[t] = "run", NEW i \in DOMAIN run[t].cls,
           ~(run[t].cls[i] <= run[t].engine)
    PROVE  run[t].cls[i] \in NextEngines(t)
<1> DEFINE cls == run[t].cls
           k == run[t].engine
           s == ShotsOf(cls, cls[i])
<1>1. run[t] \in Runs /\ Stored /\ InRun(t) /\ call[t] \in RunCalls
  BY DEF IInv, CallTypes, Phases, InPhase, Held
<1>2. k \in Nat /\ cls \in Seq(Nat) /\ call[t].ib \in Seq(Nat) /\ cls = Classes(call[t].ib) /\ Known(call[t].ib)
  BY <1>1, EnginesAre, CallKinds DEF Runs, InRun, Progress
<1>3. DOMAIN cls = DOMAIN call[t].ib
  <2>1. Len(cls) = Len(call[t].ib)
    BY <1>1, <1>2, ReadingsAre
  <2> QED
    BY <1>2, <2>1
<1>4. cls[i] \in 0 .. Len(eclass)
  BY <1>1, <1>2, <1>3, ReadingsAre
<1>5. Len(eclass) \in Nat
  BY <1>1 DEF Stored, StoredTypes
<1>6. cls[i] \in (k + 1) .. Len(eclass)
  BY <1>2, <1>4, <1>5
<1>7. \E x \in DOMAIN s : s[x] = i
  <2> HIDE DEF cls
  <2>1. i \in DOMAIN cls
    BY DEF cls
  <2> QED
    BY <1>2, <2>1, ShotsReach
<1>8. s # <<>>
  BY <1>7
<1> QED
  BY <1>6, <1>8 DEF NextEngines

(* When an engine has run, the rows of its shots and of those before it are *)
(* there; under a mask there was one engine.                                *)
LEMMA EngineRows ==
    ASSUME IInv, RowsRight, NEW t \in Threads, pc[t] = "run", run[t].pos = Len(run[t].shots),
           NEW s, s = Scatter(run[t])
    PROVE  /\ Masked(call[t], run[t].cls) => s = PassingOf(DueRows(table, call[t].ib))
           /\ ~Masked(call[t], run[t].cls) =>
                 /\ s \in Seq(Row) /\ Len(s) = Len(call[t].ib)
                 /\ \A i \in DOMAIN run[t].cls :
                       run[t].cls[i] <= run[t].engine => s[i] = DueRows(table, call[t].ib)[i]
<1> DEFINE r == run[t]
           k == r.engine
           cls == r.cls
           ib == call[t].ib
           due == DueRows(table, ib)
           rows == RowsOf(table, cls, ib, k, r.shots, r.pos)
<1>1. r \in Runs /\ Stored /\ InRun(t) /\ call[t] \in RunCalls
  BY DEF IInv, CallTypes, Phases, InPhase, Held
<1>2. /\ k \in Nat /\ cls \in Seq(Nat) /\ ib \in Seq(Nat) /\ cls = Classes(ib) /\ Known(ib)
      /\ r.shots = ShotsOf(cls, k) /\ r.shots \in Seq(Nat) /\ r.out \in Seq(Row)
      /\ (k # 0 => AnyClass(cls)) /\ (k # 0 => Len(r.out) = Len(ib))
  BY <1>1, EnginesAre, CallKinds DEF Runs, InRun, Progress
<1>3. Len(cls) = Len(ib) /\ DOMAIN cls = DOMAIN ib /\ Len(ib) \in Nat /\ DOMAIN ib = 1 .. Len(ib)
  <2>1. Len(cls) = Len(ib)
    BY <1>1, <1>2, ReadingsAre
  <2> QED
    BY <1>2, <2>1
<1>4. /\ \A x \in DOMAIN r.shots : r.shots[x] \in DOMAIN cls /\ (k = 0 \/ cls[r.shots[x]] = k)
      /\ \A i \in DOMAIN cls : k = 0 \/ cls[i] = k => \E x \in DOMAIN r.shots : r.shots[x] = i
      /\ k = 0 => r.shots = [x \in DOMAIN cls |-> x]
  <2> DEFINE w == ShotsOf(cls, k)
  <2> HIDE DEF cls, k, r
  <2>1. \A x \in DOMAIN w : w[x] \in DOMAIN cls /\ (k = 0 \/ cls[w[x]] = k)
    BY <1>2, ShotsAre
  <2>2. \A i \in DOMAIN cls : k = 0 \/ cls[i] = k => \E x \in DOMAIN w : w[x] = i
    BY <1>2, ShotsAre
  <2>3. k = 0 => w = [x \in DOMAIN cls |-> x]
    BY <1>2, ShotsAre
  <2> HIDE DEF w
  <2>4. r.shots = w
    BY <1>2 DEF w
  <2> QED
    BY <2>1, <2>2, <2>3, <2>4
<1>5. /\ due \in Seq(Row) /\ Len(due) = Len(ib)
      /\ \A i \in DOMAIN ib : due[i] = [branch |-> IF ib[i] = 0 THEN Ideal ELSE table[ib[i]], reference |-> 0]
  BY <1>1, <1>2, DueRowsAre
<1>6. /\ r.sink = IF Masked(call[t], cls) THEN PassingOf(rows) ELSE rows
      /\ k # 0 => \A i \in DOMAIN r.out : cls[i] < k => r.out[i] = due[i]
  BY DEF RowsRight, GotSoFar
<1>7. /\ s \in Seq(Row) /\ (k = 0 => s = r.sink) /\ (AnyClass(cls) => Len(s) = Len(ib))
      /\ k # 0 => \A x \in DOMAIN r.shots : s[r.shots[x]] = Relative(r.sink[x])
      /\ k # 0 => \A i \in DOMAIN r.out : cls[i] # k => s[i] = r.out[i]
  BY ScatterIs
<1>8. rows = [x \in 1 .. Len(r.shots) |-> RowOf(table, cls, ib, k, r.shots[x])] /\ DOMAIN r.shots = 1 .. Len(r.shots)
  BY <1>2 DEF RowsOf
<1>9. \A i \in DOMAIN ib : cls[i] = k => RowOf(table, cls, ib, k, i) = [branch |-> due[i].branch, reference |-> k]
  <2> HIDE DEF due, ib, cls, k
  <2>1. ASSUME NEW i \in DOMAIN ib, cls[i] = k PROVE RowOf(table, cls, ib, k, i) = [branch |-> due[i].branch, reference |-> k]
    <3>0. PICK b : b = IF ib[i] = 0 THEN Ideal ELSE table[ib[i]]
      OBVIOUS
    <3>d. due[i] = [branch |-> b, reference |-> 0]
      BY <1>5, <3>0
    <3>1. due[i].branch = IF ib[i] = 0 THEN Ideal ELSE table[ib[i]]
      BY <3>0, <3>d
    <3>2. RowOf(table, cls, ib, k, i) = [branch |-> IF ib[i] = 0 THEN Ideal ELSE table[ib[i]], reference |-> k]
      BY <2>1 DEF RowOf
    <3> QED
      BY <3>1, <3>2
  <2> QED
    BY <2>1
<1>10. Masked(call[t], cls) => ~AnyClass(cls)
  BY DEF Masked
<1> HIDE DEF r, k, cls, ib, due, rows
<1>11. CASE k = 0
  <2>1. Len(r.shots) = Len(ib)
    <3>1. DOMAIN r.shots = 1 .. Len(ib)
      BY <1>3, <1>4, <1>11
    <3> QED
      BY <1>2, <1>3, <3>1
  <2>2. \A i \in DOMAIN ib : rows[i] = RowOf(table, cls, ib, k, i)
    BY <1>3, <1>4, <1>8, <1>11, <2>1
  <2>3. ASSUME NEW i \in DOMAIN ib, cls[i] = 0 PROVE rows[i] = due[i]
    <3>1. rows[i] = [branch |-> due[i].branch, reference |-> 0]
      BY <1>9, <1>11, <2>2, <2>3
    <3>2. due[i] = [branch |-> IF ib[i] = 0 THEN Ideal ELSE table[ib[i]], reference |-> 0]
      BY <1>5
    <3> QED
      BY <3>1, <3>2
  <2>4. rows \in Seq(Row) /\ Len(rows) = Len(ib)
    <3>1. \A i \in DOMAIN ib : RowOf(table, cls, ib, k, i) \in Row
      BY <1>1, <1>2, RowsAre
    <3>2. rows \in [1 .. Len(ib) -> Row]
      BY <1>3, <1>8, <2>1, <2>2, <3>1
    <3> QED
      BY <1>3, <3>2
  <2>5. CASE Masked(call[t], cls)
    <3>1. \A i \in DOMAIN ib : cls[i] = 0
      BY <1>3, <1>10, <2>5 DEF AnyClass
    <3>2. rows = due
      BY <1>3, <1>5, <2>3, <2>4, <3>1, SeqEqual
    <3> QED
      BY <1>6, <1>7, <1>11, <2>5, <3>2 DEF r, cls, due, ib
  <2>6. CASE ~Masked(call[t], cls)
    <3>1. s = rows
      BY <1>6, <1>7, <1>11, <2>6
    <3>2. \A i \in DOMAIN cls : cls[i] <= k => s[i] = due[i]
      <4>1. \A i \in DOMAIN cls : cls[i] \in Nat
        BY <1>2
      <4> QED
        BY <1>3, <1>11, <2>3, <3>1, <4>1
    <3> QED
      BY <2>4, <2>6, <3>1, <3>2 DEF r, cls, due, ib, k
  <2> QED
    BY <2>5, <2>6
<1>12. CASE k # 0
  <2>1. AnyClass(cls) /\ ~Masked(call[t], cls) /\ r.sink = rows
    BY <1>2, <1>6, <1>10, <1>12
  <2>2. ASSUME NEW i \in DOMAIN cls, cls[i] <= k PROVE s[i] = due[i]
    <3>1. cls[i] \in Nat /\ i \in DOMAIN ib /\ DOMAIN r.out = DOMAIN ib
      BY <1>2, <1>3, <1>12
    <3>2. CASE cls[i] = k
      <4>1. PICK x \in DOMAIN r.shots : r.shots[x] = i
        BY <1>4, <3>2
      <4>2. s[i] = Relative(rows[x]) /\ rows[x] = RowOf(table, cls, ib, k, i)
        BY <1>7, <1>8, <1>12, <2>1, <4>1
      <4>3. rows[x] = [branch |-> due[i].branch, reference |-> k]
        BY <1>9, <3>1, <3>2, <4>2
      <4>4. due[i] = [branch |-> IF ib[i] = 0 THEN Ideal ELSE table[ib[i]], reference |-> 0]
        BY <1>5, <3>1
      <4> QED
        BY <4>2, <4>3, <4>4 DEF Relative
    <3>3. CASE cls[i] # k
      BY <1>2, <1>6, <1>7, <1>12, <2>2, <3>1, <3>3
    <3> QED
      BY <3>2, <3>3
  <2> QED
    BY <1>7, <2>1, <2>2 DEF r, cls, due, ib, k
<1> QED
  BY <1>11, <1>12

LEMMA EndRunRows ==
    ASSUME IInv, RowsRight, NEW t \in Threads, EndRun(t)
    PROVE  RowsRight'
<1> DEFINE r == run[t]
           k == r.engine
           cls == r.cls
           ib == call[t].ib
           due == DueRows(table, ib)
           j == Min(NextEngines(t))
<1>1. PICK s : s = Scatter(r)
  OBVIOUS
<1>2. /\ pc[t] = "run" /\ r.pos = Len(r.shots) /\ UNCHANGED <<table, call>>
      /\ IF NextEngines(t) = {}
         THEN run' = [run EXCEPT ![t].out = s] /\ pc' = [pc EXCEPT ![t] = "tail"]
         ELSE Enter(t, j, cls, s)
  BY <1>1 DEF EndRun, NextEngines, Enter, tableVars
<1>3. \A u \in Threads : u # t => pc[u] = "idle"
  BY <1>2, Alone DEF IInv
<1>4. pc \in [Threads -> Places] /\ run \in [Threads -> Runs] /\ r \in Runs /\ InRun(t) /\ Stored /\ call[t] \in RunCalls
  BY <1>2 DEF IInv, CallTypes, Phases, InPhase, Held
<1>5. /\ k \in Nat /\ cls \in Seq(Nat) /\ ib \in Seq(Nat) /\ cls = Classes(ib) /\ Known(ib)
  BY <1>4, EnginesAre, CallKinds DEF Runs, InRun, Progress
<1>6. Len(cls) = Len(ib) /\ DOMAIN cls = DOMAIN ib /\ Len(ib) \in Nat /\ DOMAIN ib = 1 .. Len(ib)
  <2>1. Len(cls) = Len(ib)
    BY <1>4, <1>5, ReadingsAre
  <2> QED
    BY <1>5, <2>1
<1>7. /\ Masked(call[t], cls) => s = PassingOf(due)
      /\ ~Masked(call[t], cls) =>
            /\ s \in Seq(Row) /\ Len(s) = Len(ib)
            /\ \A i \in DOMAIN cls : cls[i] <= k => s[i] = due[i]
  BY <1>1, <1>2, EngineRows
<1>8. \A i \in DOMAIN cls : ~(cls[i] <= k) => cls[i] \in NextEngines(t)
  BY <1>2, LaterEngines
<1>9. CASE NextEngines(t) = {}
  <2>1. /\ run'[t].cls = cls /\ run'[t].out = s /\ pc'[t] = "tail"
        /\ \A u \in Threads : u # t => pc'[u] = "idle"
    BY <1>2, <1>3, <1>4, <1>9 DEF Runs
  <2>2. s = IF Masked(call[t], cls) THEN PassingOf(due) ELSE due
    <3>1. CASE ~Masked(call[t], cls)
      <4>1. due \in Seq(Row) /\ Len(due) = Len(ib)
        BY <1>4, <1>5, DueRowsAre
      <4>2. \A i \in 1 .. Len(ib) : s[i] = due[i]
        BY <1>6, <1>7, <1>8, <1>9, <3>1
      <4> HIDE DEF due
      <4>3. s = due
        BY <1>7, <3>1, <4>1, <4>2, SeqEqual
      <4> QED
        BY <3>1, <4>3
    <3> QED
      BY <1>7, <3>1
  <2>3. GotAll(table, call[t], run[t])'
    BY <1>2, <2>1, <2>2 DEF GotAll
  <2> QED
    BY <2>1, <2>3, OneRuns
<1>10. CASE NextEngines(t) # {}
  <2> DEFINE r2 == [engine |-> j, cls |-> cls, shots |-> ShotsOf(cls, j), pos |-> 0, sink |-> <<>>, out |-> s]
  <2>1. run' = [run EXCEPT ![t] = r2] /\ pc' = [pc EXCEPT ![t] = "run"]
    BY <1>2, <1>10 DEF Enter
  <2>2. run'[t] = r2 /\ pc'[t] = "run" /\ \A u \in Threads : u # t => pc'[u] = "idle"
    BY <1>3, <1>4, <2>1
  <2>3. r2.engine = j /\ r2.cls = cls /\ r2.pos = 0 /\ r2.sink = <<>> /\ r2.out = s
    OBVIOUS
  <2>4. AnyClass(cls) /\ ~Masked(call[t], cls) /\ \A i \in (k + 1) .. Len(eclass) : i < j => ShotsOf(cls, i) = <<>>
    BY <1>2, <1>10, NextEngineIs DEF Masked
  <2>5. ASSUME NEW i \in DOMAIN s, cls[i] < j PROVE s[i] = due[i]
    <3>1. i \in DOMAIN cls
      BY <1>6, <1>7, <2>4
    <3>2. cls[i] <= k
      <4>1. SUFFICES ASSUME ~(cls[i] <= k) PROVE FALSE
        OBVIOUS
      <4>2. cls[i] \in NextEngines(t)
        BY <1>8, <3>1, <4>1
      <4> QED
        BY <2>4, <2>5, <4>2 DEF NextEngines
    <3> QED
      BY <1>7, <2>4, <3>1, <3>2
  <2> HIDE DEF r2, j, r, k, cls, ib
  <2>6. GotSoFar(table', call'[t], r2)
    BY <1>2, <2>3, <2>4, <2>5, NoRowsYet DEF GotSoFar, ib
  <2>7. GotSoFar(table, call[t], run[t])'
    BY <2>2, <2>6
  <2> QED
    BY <2>2, <2>7, OneRuns
<1> QED
  BY <1>9, <1>10

LEMMA RowsStay ==
    ASSUME RowsRight, UNCHANGED <<table, pc, call, run>>
    PROVE  RowsRight'
<1>1. table' = table /\ pc' = pc /\ call' = call /\ run' = run
  OBVIOUS
<1>2. ASSUME NEW u \in Threads PROVE /\ GotSoFar(table, call[u], run[u])' <=> GotSoFar(table, call[u], run[u])
                                    /\ GotAll(table, call[u], run[u])' <=> GotAll(table, call[u], run[u])
  BY <1>1
<1> QED
  BY <1>1, <1>2 DEF RowsRight

LEMMA LeavesNobody ==
    ASSUME IInv, NEW t \in Threads, pc[t] # "idle", NEW a, Leave(t, a)
    PROVE  /\ \A u \in Threads : pc'[u] = "idle" /\ (u # t => call[u] = NoCall)
           /\ RowsRight'
<1>1. pc' = [pc EXCEPT ![t] = "idle"] /\ pc \in [Threads -> Places]
  BY DEF Leave, IInv, CallTypes
<1>2. \A u \in Threads : u # t => pc[u] = "idle" /\ call[u] = NoCall
  <2>1. \A u \in Threads : u # t => pc[u] = "idle"
    BY Alone DEF IInv
  <2> QED
    BY <2>1 DEF IInv, Held
<1>3. \A u \in Threads : pc'[u] = "idle"
  BY <1>1, <1>2
<1> QED
  BY <1>2, <1>3, NobodyRuns

LEMMA TakesAlone ==
    ASSUME IInv, NEW t \in Threads, NEW c, NEW at \in {"branches", "add"}, Take(t, c, at)
    PROVE  RowsRight' /\ \A u \in Threads : call[u] = NoCall
<1>1. pc' = [pc EXCEPT ![t] = at] /\ flag = NoThread /\ pc \in [Threads -> Places]
  BY DEF Take, Free, IInv, CallTypes
<1>2. \A u \in Threads : pc[u] = "idle" /\ call[u] = NoCall
  BY <1>1, NobodyIn DEF IInv
<1>3. \A u \in Threads : pc'[u] \notin {"run", "tail"}
  BY <1>1, <1>2
<1> QED
  BY <1>2, <1>3, NobodyRuns

LEMMA NextRows ==
    ASSUME IInv, RowsRight, Mixed = FALSE, [Next]_vars
    PROVE  RowsRight'
<1>1. CASE UNCHANGED vars
  BY <1>1, RowsStay DEF vars, tableVars, callVars
<1>2. ASSUME NEW t \in Threads, Begins(t) PROVE RowsRight'
  <2>1. CASE AskRun(t)
    BY <2>1, TakesAlone DEF AskRun
  <2>2. CASE AskAdd(t)
    BY <2>2, TakesAlone DEF AskAdd
  <2>3. CASE SetBudget(t)
    BY <2>3, RowsStay DEF SetBudget, tableVars
  <2>4. CASE TurnAway(t)
    BY <2>4, RowsStay DEF TurnAway, tableVars
  <2> QED
    BY <1>2, <2>1, <2>2, <2>3, <2>4 DEF Begins
<1>3. ASSUME NEW t \in Threads, Goes(t) PROVE RowsRight'
  <2>1. CASE Branches(t)
    BY <2>1, BranchesRows
  <2>2. CASE RunShot(t)
    BY <2>2, RunShotRows
  <2>3. CASE EndRun(t)
    BY <2>3, EndRunRows
  <2>4. CASE Finish(t)
    BY <2>4, LeavesNobody DEF Finish
  <2>5. CASE BuildHost(t)
    <3>1. pc[t] = "add" /\ pc' = [pc EXCEPT ![t] = "host"]
      BY <2>5 DEF BuildHost
    <3>2. \A u \in Threads : u # t => pc[u] = "idle"
      BY <3>1, Alone DEF IInv
    <3>3. pc \in [Threads -> Places]
      BY DEF IInv, CallTypes
    <3>4. \A u \in Threads : pc'[u] \notin {"run", "tail"}
      BY <3>1, <3>2, <3>3
    <3> QED
      BY <3>4, NobodyRuns
  <2>6. CASE Add(t)
    <3>1. pc[t] # "idle" /\ \E a : Leave(t, a)
      BY <2>6 DEF Add, ReadyToAdd
    <3> QED
      BY <3>1, LeavesNobody
  <2> QED
    BY <1>3, <2>1, <2>2, <2>3, <2>4, <2>5, <2>6 DEF Goes
<1>4. ASSUME NEW t \in Threads, Stops(t) PROVE RowsRight'
  <2>1. CASE RunFails(t)
    BY <2>1, LeavesNobody DEF RunFails
  <2>2. CASE AddRefused(t)
    BY <2>2, LeavesNobody DEF AddRefused
  <2> QED
    BY <1>4, <2>1, <2>2 DEF Stops
<1> QED
  BY <1>1, <1>2, <1>3, <1>4 DEF Next

(* Where no recorded call mixes branches, every row an engine fills is the  *)
(* row of the shot it runs, a class's rows go back to the shots they belong *)
(* to, and a call that has run holds the row of every shot it asked for, or *)
(* those of them that pass (sample_held_, run_core_, scatter).              *)
THEOREM RowsInvariance ==
    ASSUME Mixed = FALSE
    PROVE  Spec => [](IInv /\ RowsRight)
<1>1. Init => IInv /\ RowsRight
  <2>1. Init => RowsRight
    BY DEF Init, RowsRight
  <2> QED
    BY <2>1, InitRight
<1>2. IInv /\ RowsRight /\ [Next]_vars => IInv' /\ RowsRight'
  BY NextKeeps, NextRows
<1> QED
  BY <1>1, <1>2, PTL DEF Spec

-----------------------------------------------------------------------------
(* The promise to the callers.                                              *)
LEMMA InACall ==
    ASSUME IInv, NEW t \in Threads, pc[t] # "idle"
    PROVE  call[t] \in Calls /\ call[t] # NoCall
<1>1. call[t] \in RunCalls \/ call[t] \in AddCalls
  BY DEF IInv, Held, CallTypes, Places
<1> QED
  BY <1>1, CallKinds

LEMMA TakeAsks ==
    ASSUME IInv, NEW t \in Threads, NEW c \in Calls, NEW at \in {"branches", "add"}, Take(t, c, at),
           UNCHANGED <<table, answer>>
    PROVE  Promise!Ask(t)
<1>1. Promise!NothingAsked
  BY TakesAlone DEF Promise!NothingAsked
<1>2. call' = [call EXCEPT ![t] = c]
  BY DEF Take
<1> QED
  BY <1>1, <1>2 DEF Promise!Ask

LEMMA TurnAwayTurnsAway ==
    ASSUME IInv, NEW t \in Threads, TurnAway(t)
    PROVE  Promise!TurnAway(t)
<1>1. /\ pc[t] = "idle" /\ flag # NoThread
      /\ answer' = [answer EXCEPT ![t] = [is |-> "busy"]] /\ UNCHANGED <<table, call>>
  BY DEF TurnAway, Free, tableVars
<1>2. call[t] = NoCall
  BY <1>1 DEF IInv, Held
<1>3. PICK u \in Threads : u = flag
  BY <1>1 DEF IInv, CallTypes
<1>4. pc[u] # "idle"
  BY <1>3 DEF IInv, Held
<1>5. ~Promise!NothingAsked
  BY <1>4, InACall DEF Promise!NothingAsked
<1> QED
  BY <1>1, <1>2, <1>5 DEF Promise!TurnAway

LEMMA FailsFail ==
    ASSUME IInv, NEW t \in Threads, pc[t] # "idle", Leave(t, Failed), UNCHANGED table
    PROVE  Promise!Settle(t)
<1>1. call[t] # NoCall
  BY InACall
<1> QED
  BY <1>1 DEF Leave, Failed, Promise!Settle, Promise!Fail, Promise!Answer

LEMMA FinishAnswers ==
    ASSUME IInv, RowsRight, NEW t \in Threads, Finish(t)
    PROVE  Promise!Settle(t)
<1> DEFINE c == call[t]
           out == run[t].out
           cls == run[t].cls
           due == DueRows(table, c.ib)
           late == c.masked /\ AnyClass(cls)
           given == IF late THEN PassingOf(out) ELSE out
<1>1. pc[t] = "tail" /\ Leave(t, [is |-> "rows", rows |-> given]) /\ UNCHANGED table
  BY DEF Finish, PassingOf, tableVars
<1>2. c \in RunCalls /\ Known(c.ib)
  BY <1>1 DEF IInv, Held, Phases, InPhase, InTail
<1>3. c # NoCall /\ c.kind = "run"
  BY <1>2, CallKinds
<1>4. \A i \in DOMAIN c.ib : c.ib[i] <= Len(table)
  BY <1>2 DEF Known
<1>5. given = Promise!Rows(c)
  <2>1. GotAll(table, c, run[t])
    BY <1>1 DEF RowsRight
  <2>2. out = IF Masked(c, cls) THEN PassingOf(due) ELSE due
    BY <2>1 DEF GotAll
  <2>3. Masked(c, cls) <=> c.masked /\ ~AnyClass(cls)
    BY DEF Masked
  <2>4. Promise!Rows(c) = IF c.masked THEN PassingOf(due) ELSE due
    BY DueRowsArePromised DEF Promise!Rows, PassingOf
  <2> HIDE DEF c, out, cls, due
  <2> QED
    BY <2>2, <2>3, <2>4
<1>6. call' = [call EXCEPT ![t] = NoCall] /\ answer' = [answer EXCEPT ![t] = [is |-> "rows", rows |-> Promise!Rows(c)]]
  BY <1>1, <1>5 DEF Leave
<1>7. Promise!AnswerRows(t)
  BY <1>1, <1>3, <1>4, <1>6 DEF Promise!AnswerRows, Promise!Answer
<1> QED
  BY <1>3, <1>7 DEF Promise!Settle

LEMMA AddRegisters ==
    ASSUME IInv, NEW t \in Threads, Add(t)
    PROVE  Promise!Settle(t)
<1> DEFINE h == call[t].handle
<1>1. /\ pc[t] \in {"add", "host"} /\ table' = TableWith(h)
      /\ Leave(t, [is |-> "number", number |-> NumberOf(h)])
  BY DEF Add, ReadyToAdd
<1>2. call[t] \in AddCalls
  BY <1>1 DEF IInv, Held
<1>3. call[t] # NoCall /\ call[t].kind = "add"
  BY <1>2, CallKinds
<1>4. TableWith(h) = IF Promise!Contains(table, h) THEN table ELSE Append(table, h)
  BY PlacesAgree DEF TableWith
<1>5. NumberOf(h) = PlaceOf(TableWith(h), h)
  BY DEF NumberOf, PlaceOf
<1>6. Promise!SelectInSeq(TableWith(h), LAMBDA x : x = h) = NumberOf(h)
  BY <1>5, PlacesAgree
<1>7. call' = [call EXCEPT ![t] = NoCall] /\ answer' = [answer EXCEPT ![t] = [is |-> "number", number |-> NumberOf(h)]]
  BY <1>1 DEF Leave
<1>8. Promise!Register(t)
  BY ONLY <1>1, <1>3, <1>4, <1>6, <1>7 DEF Promise!Register, Promise!Answer, h
<1> QED
  BY <1>3, <1>8 DEF Promise!Settle

LEMMA BranchesKeepsPromise ==
    ASSUME IInv, NEW t \in Threads, Branches(t)
    PROVE  Promise!Settle(t) \/ UNCHANGED Promise!vars
<1>1. pc[t] = "branches" /\ UNCHANGED table /\ (RefuseAsk(t) \/ Enter(t, 0, Classes(call[t].ib), <<>>))
  BY DEF Branches, tableVars
<1>2. CASE RefuseAsk(t)
  BY <1>1, <1>2, FailsFail DEF RefuseAsk
<1>3. CASE Enter(t, 0, Classes(call[t].ib), <<>>)
  BY <1>1, <1>3 DEF Enter, Promise!vars
<1> QED
  BY <1>1, <1>2, <1>3

LEMMA NextKeepsPromise ==
    ASSUME IInv, RowsRight, [Next]_vars
    PROVE  [Promise!Next]_(Promise!vars)
<1>0. UNCHANGED <<table, call, answer>> => UNCHANGED Promise!vars
  BY DEF Promise!vars
<1>1. CASE UNCHANGED vars
  BY <1>0, <1>1 DEF vars, tableVars, callVars
<1>2. ASSUME NEW t \in Threads, Begins(t)
      PROVE  Promise!Ask(t) \/ Promise!TurnAway(t) \/ UNCHANGED Promise!vars
  <2>1. CASE AskRun(t)
    <3>1. PICK c \in RunCalls : Take(t, c, "branches") /\ UNCHANGED <<table, answer>>
      BY <2>1 DEF AskRun, tableVars
    <3>2. c \in Calls
      BY CallKinds
    <3> QED
      BY <3>1, <3>2, TakeAsks
  <2>2. CASE AskAdd(t)
    <3>1. PICK c \in AddCalls : Take(t, c, "add") /\ UNCHANGED <<table, answer>>
      BY <2>2 DEF AskAdd, tableVars
    <3>2. c \in Calls
      BY CallKinds
    <3> QED
      BY <3>1, <3>2, TakeAsks
  <2>3. CASE SetBudget(t)
    BY <1>0, <2>3 DEF SetBudget, tableVars
  <2>4. CASE TurnAway(t)
    BY <2>4, TurnAwayTurnsAway
  <2> QED
    BY <1>2, <2>1, <2>2, <2>3, <2>4 DEF Begins
<1>3. ASSUME NEW t \in Threads, Goes(t)
      PROVE  Promise!Settle(t) \/ UNCHANGED Promise!vars
  <2>1. CASE Branches(t)
    BY <2>1, BranchesKeepsPromise
  <2>2. CASE RunShot(t)
    BY <1>0, <2>2 DEF RunShot, tableVars
  <2>3. CASE EndRun(t)
    BY <1>0, <2>3 DEF EndRun, Enter, tableVars
  <2>4. CASE Finish(t)
    BY <2>4, FinishAnswers
  <2>5. CASE BuildHost(t)
    BY <1>0, <2>5 DEF BuildHost, tableVars
  <2>6. CASE Add(t)
    BY <2>6, AddRegisters
  <2> QED
    BY <1>3, <2>1, <2>2, <2>3, <2>4, <2>5, <2>6 DEF Goes
<1>4. ASSUME NEW t \in Threads, Stops(t)
      PROVE  Promise!Settle(t)
  BY <1>4, FailsFail DEF Stops, RunFails, AddRefused, tableVars
<1> QED
  BY <1>1, <1>2, <1>3, <1>4 DEF Next, Promise!Next

(* The sampler keeps its promise, but for the promise that every call is    *)
(* answered: its numbers are in the order of registration, a call is        *)
(* answered with the rows of the branches its shots asked for, relative to  *)
(* this sampler's reference whichever engine ran them, with exactly those   *)
(* that pass under a mask, one call at a time, and a call that is refused   *)
(* or fails changes nothing (family_sampler.hpp, twirl_sampler_fam.cpp).    *)
THEOREM CallsArePromised ==
    ASSUME Mixed = FALSE
    PROVE  Spec => Promise!Init /\ [][Promise!Next]_(Promise!vars)
<1>1. Init => Promise!Init
  BY DEF Init, Promise!Init
<1>2. IInv /\ RowsRight /\ [Next]_vars => [Promise!Next]_(Promise!vars)
  BY NextKeepsPromise
<1> QED
  BY <1>1, <1>2, RowsInvariance, PTL DEF Spec

-----------------------------------------------------------------------------
(* The cache directory, for any threads and processes that use it, and any  *)
(* number of calls, runs, crashes and alterations.                          *)

-----------------------------------------------------------------------------
(* Reference entries. A text that has passed the digest is a compiled one:   *)
(* what is stored as a digest is the digest of a compiled text, or of none;  *)
(* and what is stored or about to be is of a name the entry was compiled for.*)
Texts == {"missing", "altered"} \cup Sources
Storing == {"store ref", "store sha", "store sig"}
Stages == {"idle", "compile", "compile only", "read", "check text", "check frame"} \cup Storing
Answers == {"nothing", "deduced", "raised"} \cup Sources

EntryOK ==
    /\ entry \in [{"ref", "sha", "sig"} -> Texts \cup {"no digest", "frame"}]
    /\ named \subseteq Sources
    /\ entry["ref"] \in {"missing", "altered"} \cup named
    /\ entry["sha"] \in {"missing", "no digest"} \cup named
    /\ entry["sig"] \in {"missing", "altered", "frame"}

CallOK(t) ==
    /\ stage[t] = "check text" => text[t] \in {"altered"} \cup named
    /\ stage[t] \in {"check frame"} \cup Storing => text[t] \in named

RInv ==
    /\ EntryOK
    /\ stage \in [Users -> Stages]
    /\ text \in [Users -> Texts]
    /\ took \in [Users -> Answers]
    /\ \A t \in Users : CallOK(t)

LEMMA ReferencesInit == References!Init => RInv
BY DEF References!Init, References!Parts, RInv, EntryOK, CallOK, Texts, Stages, Storing, Answers

LEMMA ReferencesStutter == RInv /\ UNCHANGED entryVars => RInv'
BY DEF entryVars, RInv, EntryOK, CallOK

LEMMA AfterReturn ==
    ASSUME RInv, NEW t \in Users, NEW a \in Answers, References!Return(t, a), UNCHANGED <<entry, named>>
    PROVE  RInv'
<1> USE DEF RInv, References!Return
<1>1. EntryOK' /\ took' \in [Users -> Answers]
  BY DEF EntryOK
<1>2. stage' \in [Users -> Stages] /\ text' \in [Users -> Texts]
  BY DEF Stages, Texts
<1>3. ASSUME NEW u \in Users PROVE CallOK(u)'
  BY DEF CallOK, Storing
<1> QED
  BY <1>1, <1>2, <1>3

LEMMA AfterAt ==
    ASSUME RInv, NEW t \in Users, NEW b \in Stages, NEW x \in Texts,
           stage' = [stage EXCEPT ![t] = b], text' = [text EXCEPT ![t] = x], UNCHANGED took, EntryOK',
           named \subseteq named',
           b = "check text" => x \in {"altered"} \cup named',
           b \in {"check frame"} \cup Storing => x \in named'
    PROVE  RInv'
<1> USE DEF RInv
<1>1. stage' \in [Users -> Stages] /\ text' \in [Users -> Texts] /\ took' \in [Users -> Answers]
  OBVIOUS
<1>2. ASSUME NEW u \in Users PROVE CallOK(u)'
  BY DEF CallOK
<1> QED
  BY <1>1, <1>2

LEMMA ReferencesStep == RInv /\ References!Next => RInv'
<1> SUFFICES ASSUME RInv, References!Next PROVE RInv'
  OBVIOUS
<1>t. \A t \in Users : text[t] \in Texts /\ text = [text EXCEPT ![t] = text[t]] /\ CallOK(t)
  BY DEF RInv
<1>e. EntryOK /\ (UNCHANGED <<entry, named>> => EntryOK') /\ named \subseteq Sources
  BY DEF RInv, EntryOK
<1>1. ASSUME NEW t \in Users, References!Look(t) PROVE RInv'
  <2>1. PICK b \in {"compile", "read", "compile only"} :
          stage' = [stage EXCEPT ![t] = b] /\ UNCHANGED <<entry, text, took, named>>
    BY <1>1 DEF References!Look, References!At
  <2> QED
    BY <1>t, <1>e, <2>1, AfterAt DEF Stages, Storing
<1>2. ASSUME NEW t \in Users, References!ReadText(t) PROVE RInv'
  <2>1. CASE entry["ref"] = "missing"
    BY <1>2, <2>1, AfterReturn DEF References!ReadText, References!Deduced, Answers
  <2>2. CASE entry["ref"] # "missing"
    <3>1. /\ stage' = [stage EXCEPT ![t] = "check text"] /\ text' = [text EXCEPT ![t] = entry["ref"]]
          /\ UNCHANGED <<entry, took, named>>
      BY <1>2, <2>2 DEF References!ReadText, References!At
    <3>2. entry["ref"] \in {"altered"} \cup named /\ entry["ref"] \in Texts
      BY <1>e, <2>2 DEF EntryOK, Texts
    <3> QED
      BY <1>e, <3>1, <3>2, AfterAt DEF Stages, Storing, Texts
  <2> QED
    BY <2>1, <2>2
<1>3. ASSUME NEW t \in Users, References!CheckText(t) PROVE RInv'
  <2>1. CASE ~References!Intact(t)
    BY <1>3, <2>1, AfterReturn DEF References!CheckText, References!Deduced, Answers
  <2>2. CASE References!Intact(t)
    <3>1. stage[t] = "check text" /\ stage' = [stage EXCEPT ![t] = "check frame"] /\ UNCHANGED <<entry, text, took, named>>
      BY <1>3, <2>2 DEF References!CheckText, References!At
    <3>2. text[t] \in named
      <4>1. text[t] \in {"altered"} \cup named /\ text[t] \in {"missing", "no digest"} \cup named
        BY <1>t, <1>e, <2>2, <3>1 DEF EntryOK, CallOK, References!Intact
      <4> QED
        BY <1>e, <4>1
    <3> QED
      BY <1>t, <1>e, <3>1, <3>2, AfterAt DEF Stages, Storing
  <2> QED
    BY <2>1, <2>2
<1>4. ASSUME NEW t \in Users, References!CheckFrame(t) PROVE RInv'
  <2>1. CASE References!Deduced(t)
    BY <2>1, AfterReturn DEF References!Deduced, Answers
  <2>2. CASE References!Return(t, text[t]) /\ UNCHANGED <<entry, named>>
    <3>1. text[t] \in Answers
      BY <1>t, <1>e, <1>4 DEF References!CheckFrame, CallOK, Answers
    <3> QED
      BY <2>2, <3>1, AfterReturn
  <2> QED
    BY <1>4, <2>1, <2>2 DEF References!CheckFrame
<1>5. ASSUME NEW t \in Users, References!Compile(t) PROVE RInv'
  <2>1. UNCHANGED entry
    BY <1>5 DEF References!Compile
  <2>2. ASSUME NEW name \in Sources, References!At(t, "compile", "store ref"),
               text' = [text EXCEPT ![t] = References!Text(t, name)], named' = named \cup {name}, UNCHANGED took
        PROVE  RInv'
    <3>1. EntryOK'
      BY <1>e, <2>1, <2>2 DEF EntryOK
    <3>2. stage' = [stage EXCEPT ![t] = "store ref"] /\ text' = [text EXCEPT ![t] = name] /\ name \in named'
      BY <2>2 DEF References!At, References!Text
    <3> QED
      BY <2>2, <3>1, <3>2, AfterAt DEF Stages, Storing, Texts
  <2>3. ASSUME NEW a \in Answers, References!Return(t, a), UNCHANGED named PROVE RInv'
    BY <2>1, <2>3, AfterReturn
  <2> QED
    BY <1>5, <2>2, <2>3 DEF References!Compile, References!Text, Answers
<1>6. ASSUME NEW t \in Users, References!Store(t) PROVE RInv'
  <2>1. stage[t] \in Storing
    BY <1>6 DEF References!Store, References!At, Storing
  <2>2. text[t] \in named /\ text[t] \in Sources /\ UNCHANGED named
    BY <1>t, <1>e, <1>6, <2>1 DEF CallOK, References!Store
  <2>3. EntryOK'
    BY <1>e, <1>6, <2>2 DEF References!Store, References!Rename, EntryOK, Texts
  <2>4. CASE UNCHANGED <<text, took>> /\ \E b \in Storing : stage' = [stage EXCEPT ![t] = b]
    BY <1>t, <2>2, <2>3, <2>4, AfterAt DEF Stages, Storing
  <2>5. CASE References!Return(t, text[t])
    <3>1. text' = [text EXCEPT ![t] = "missing"] /\ stage' = [stage EXCEPT ![t] = "idle"]
      BY <2>5 DEF References!Return
    <3>2. took' \in [Users -> Answers]
      BY <2>2, <2>5 DEF References!Return, RInv, Answers
    <3>3. stage' \in [Users -> Stages] /\ text' \in [Users -> Texts]
      BY <3>1 DEF RInv, Stages, Texts
    <3>4. ASSUME NEW u \in Users PROVE CallOK(u)'
      BY <1>t, <2>2, <3>1 DEF CallOK, Storing, RInv
    <3> QED
      BY <2>3, <3>2, <3>3, <3>4 DEF RInv
  <2> QED
    BY <1>6, <2>4, <2>5 DEF References!Store, References!At, Storing
<1>7. ASSUME NEW t \in Users, References!StoreFails(t) PROVE RInv'
  <2>1. text[t] \in Answers
    BY <1>t, <1>e, <1>7 DEF References!StoreFails, CallOK, Storing, Answers
  <2> QED
    BY <1>7, <2>1, AfterReturn DEF References!StoreFails
<1>8. ASSUME NEW p, References!Crash(p) PROVE RInv'
  <2>1. /\ stage' = [t \in Users |-> IF Process[t] = p THEN "idle" ELSE stage[t]]
        /\ text' = [t \in Users |-> IF Process[t] = p THEN "missing" ELSE text[t]]
        /\ UNCHANGED <<entry, took, named>>
    BY <1>8 DEF References!Crash
  <2>2. stage' \in [Users -> Stages] /\ text' \in [Users -> Texts]
    BY <2>1 DEF RInv, Stages, Texts
  <2>3. ASSUME NEW u \in Users PROVE CallOK(u)'
    BY <1>t, <2>1 DEF CallOK, Storing
  <2> QED
    BY <1>e, <2>1, <2>2, <2>3 DEF RInv
<1>9. CASE References!Alter
  <2>1. EntryOK'
    BY <1>e, <1>9 DEF References!Alter, References!Parts, References!Spoiled, References!Rename, EntryOK, Texts
  <2> QED
    BY <1>9, <2>1 DEF References!Alter, RInv, CallOK
<1> QED
  BY <1>1, <1>2, <1>3, <1>4, <1>5, <1>6, <1>7, <1>8, <1>9 DEF References!Next

LEMMA ReferencesServed == RInv => References!ServedIsCompiled
BY DEF RInv, Answers, References!ServedIsCompiled, References!Text

LEMMA ReferencesReason ==
    ASSUME RInv, NEW t \in Users, References!TurnsDown(t)
    PROVE  References!Broken \/ text[t] = "altered" \/ References!TwoNames
<1> USE DEF References!TurnsDown, References!Broken, References!Parts, References!Spoiled, RInv, EntryOK, CallOK
<1>1. CASE References!ReadText(t)
  BY <1>1 DEF References!ReadText, References!At
<1>2. CASE References!CheckText(t)
  <2> SUFFICES ASSUME ~References!Broken, text[t] # "altered" PROVE References!TwoNames
    OBVIOUS
  <2>1. stage[t] = "check text" /\ ~References!Intact(t)
    BY <1>2 DEF References!CheckText, References!At
  <2>2. text[t] \in named /\ entry["sha"] \in named
    BY <2>1
  <2>3. text[t] # entry["sha"]
    BY <2>1 DEF References!Intact
  <2> QED
    BY <2>2, <2>3 DEF References!TwoNames
<1>3. CASE References!CheckFrame(t)
  BY <1>3, CacheAssumption DEF References!CheckFrame, References!Return, CacheAssumption
<1> QED
  BY <1>1, <1>2, <1>3

-----------------------------------------------------------------------------
(* Plan files. Every piece that was ever written is of a blob of some law,   *)
(* with keys of that law.                                                    *)
Blobs == {Plans!NoBlob} \cup UNION {[law : {LawOf[t]}, keys : SUBSET Keys[LawOf[t]]] : t \in Users}

PInv ==
    /\ DOMAIN headers = Users
    /\ \A t \in Users : headers[t] \subseteq Keys[LawOf[t]]
    /\ blob \in [Users -> Blobs]
    /\ pos \in [Users -> Nat]
    /\ content \in Seq(Seq(Blobs \X Nat))
    /\ fd \in [Users -> 0 .. Len(content)]
    /\ \A t \in Users : saving[t] = "write" => fd[t] # 0
    /\ saving \in [Users -> {"none", "ready", "open", "write"}]
    /\ tmp \in [Plans!Processes -> 0 .. Len(content)]
    /\ path \in 0 .. Len(content)

LEMMA BlobKeys ==
    ASSUME NEW b \in Blobs, NEW t \in Users, Plans!Accepts(t, b)
    PROVE  b.keys \subseteq Keys[LawOf[t]]
<1>1. CASE b = Plans!NoBlob
  BY <1>1 DEF Plans!NoBlob
<1>2. CASE b # Plans!NoBlob
  <2>1. PICK u \in Users : b \in [law : {LawOf[u]}, keys : SUBSET Keys[LawOf[u]]]
    BY <1>2 DEF Blobs
  <2>2. b.law = LawOf[u]
    BY <2>1
  <2>3. LawOf[u] = LawOf[t]
    BY <2>2, CacheAssumption DEF Plans!Accepts
  <2> QED
    BY <2>1, <2>3
<1> QED
  BY <1>1, <1>2

LEMMA NoBlobIsBlob == Plans!NoBlob \in Blobs
BY DEF Blobs

LEMMA BlobSize ==
    ASSUME NEW b \in Blobs
    PROVE  Size[b.keys] \in Nat
<1>1. CASE b = Plans!NoBlob
  BY <1>1, CacheAssumption DEF Plans!NoBlob
<1>2. CASE b # Plans!NoBlob
  <2>1. PICK u \in Users : b \in [law : {LawOf[u]}, keys : SUBSET Keys[LawOf[u]]]
    BY <1>2 DEF Blobs
  <2> QED
    BY <2>1, CacheAssumption
<1> QED
  BY <1>1, <1>2

LEMMA PieceOfBlob ==
    ASSUME NEW b \in Blobs, NEW i \in Nat, i + 1 <= Len(Plans!Pieces(b))
    PROVE  Plans!Pieces(b)[i + 1] \in Blobs \X Nat
<1>1. Size[b.keys] \in Nat
  BY BlobSize
<1>2. Len(Plans!Pieces(b)) = Size[b.keys]
  BY <1>1 DEF Plans!Pieces
<1> QED
  BY <1>1, <1>2 DEF Plans!Pieces

LEMMA PutIsSeq ==
    ASSUME NEW S, NEW file \in Seq(S), NEW i \in Nat \ {0}, NEW x \in S, <<Plans!NoBlob, 0>> \in S
    PROVE  Plans!Put(file, i, x) \in Seq(S)
<1> DEFINE n == IF i > Len(file) THEN i ELSE Len(file)
<1>1. n \in Nat
  OBVIOUS
<1>2. \A j \in 1 .. n : (IF j = i THEN x ELSE IF j <= Len(file) THEN file[j] ELSE <<Plans!NoBlob, 0>>) \in S
  OBVIOUS
<1> DEFINE put == [j \in 1 .. n |-> IF j = i THEN x ELSE IF j <= Len(file) THEN file[j] ELSE <<Plans!NoBlob, 0>>]
<1>3. put \in [1 .. n -> S]
  BY <1>2
<1>4. put = Plans!Put(file, i, x)
  BY DEF Plans!Put
<1> HIDE DEF n, put
<1> QED
  BY <1>1, <1>3, <1>4

LEMMA PlansInit == Plans!Init => PInv
<1> SUFFICES ASSUME Plans!Init PROVE PInv
  OBVIOUS
<1>1. content = <<>> /\ content \in Seq(Seq(Blobs \X Nat)) /\ Len(content) = 0
  BY DEF Plans!Init
<1> QED
  BY <1>1, NoBlobIsBlob DEF Plans!Init, PInv

LEMMA PlansStutter == PInv /\ UNCHANGED fileVars => PInv'
BY DEF fileVars, PInv

LEMMA EndOfSave ==
    ASSUME PInv, NEW t \in Users, Plans!SaveEnds(t)
    PROVE  /\ saving' \in [Users -> {"none", "ready", "open", "write"}]
           /\ blob' \in [Users -> Blobs]
           /\ pos' \in [Users -> Nat]
           /\ fd' \in [Users -> 0 .. Len(content)]
           /\ \A u \in Users : saving'[u] = "write" => fd'[u] # 0
BY NoBlobIsBlob DEF PInv, Plans!SaveEnds

LEMMA PlansStep ==
    ASSUME PInv, Plans!Next
    PROVE  PInv'
<1>a. \A t \in Users : Process[t] \in Plans!Processes
  BY DEF Plans!Processes
<1>b. Len(content) \in Nat /\ <<Plans!NoBlob, 0>> \in Blobs \X Nat
  BY NoBlobIsBlob DEF PInv
<1>1. ASSUME NEW t \in Users, Plans!Construct(t) PROVE PInv'
  <2>1. Plans!Loaded(t) \subseteq Keys[LawOf[t]]
    <3> DEFINE file == content[path]
    <3>1. SUFFICES ASSUME path # 0, Plans!Opens(file), Plans!Accepts(t, file[1][1])
                   PROVE  file[1][1].keys \subseteq Keys[LawOf[t]]
      BY DEF Plans!Loaded
    <3>2. file \in Seq(Blobs \X Nat)
      BY <3>1 DEF PInv
    <3>3. file[1] \in Blobs \X Nat
      BY <3>1, <3>2 DEF Plans!Opens
    <3> QED
      BY <3>1, <3>3, BlobKeys
  <2>2. headers' = [headers EXCEPT ![t] = Plans!Loaded(t)]
    BY <1>1 DEF Plans!Construct
  <2> QED
    BY <1>1, <2>1, <2>2 DEF Plans!Construct, PInv
<1>2. ASSUME NEW t \in Users, Plans!Run(t) PROVE PInv'
  <2>1. PICK met \in SUBSET Keys[LawOf[t]] :
           /\ headers' = [headers EXCEPT ![t] = @ \cup met]
           /\ blob' = [blob EXCEPT ![t] = [law |-> LawOf[t], keys |-> headers'[t]]]
    BY <1>2 DEF Plans!Run
  <2>2. headers'[t] \subseteq Keys[LawOf[t]]
    BY <2>1 DEF PInv
  <2>3. [law |-> LawOf[t], keys |-> headers'[t]] \in Blobs
    BY <2>2 DEF Blobs
  <2> QED
    BY <1>2, <2>1, <2>2, <2>3 DEF Plans!Run, PInv
<1>3. ASSUME NEW t \in Users, Plans!Open(t) PROVE PInv'
  <2> DEFINE p == Process[t]
             file == IF tmp[p] = 0 THEN Len(content) + 1 ELSE tmp[p]
  <2>1. <<>> \in Seq(Blobs \X Nat)
    OBVIOUS
  <2>2. /\ content' \in Seq(Seq(Blobs \X Nat))
        /\ Len(content') \in Nat /\ Len(content') >= Len(content)
        /\ file \in 1 .. Len(content')
    <3>1. CASE tmp[p] = 0
      BY <1>b, <1>3, <2>1, <3>1 DEF Plans!Open, PInv
    <3>2. CASE tmp[p] # 0
      BY <1>a, <1>b, <1>3, <2>1, <3>2 DEF Plans!Open, PInv
    <3> QED
      BY <3>1, <3>2
  <2>3. /\ fd' = [fd EXCEPT ![t] = file] /\ tmp' = [tmp EXCEPT ![p] = file]
        /\ saving' = [saving EXCEPT ![t] = "write"]
        /\ UNCHANGED <<headers, blob, pos, path, runs, damages>>
    BY <1>3 DEF Plans!Open
  <2> HIDE DEF file
  <2>4. tmp' \in [Plans!Processes -> 0 .. Len(content')]
    BY <1>a, <1>b, <2>2, <2>3 DEF PInv
  <2>5. /\ fd' \in [Users -> 0 .. Len(content')]
        /\ \A u \in Users : saving'[u] = "write" => fd'[u] # 0
    BY <1>b, <2>2, <2>3 DEF PInv
  <2>6. path' \in 0 .. Len(content') /\ saving' \in [Users -> {"none", "ready", "open", "write"}]
    BY <1>b, <2>2, <2>3 DEF PInv
  <2> QED
    BY <2>2, <2>3, <2>4, <2>5, <2>6 DEF PInv
<1>4. ASSUME NEW t \in Users, Plans!OpenFails(t) PROVE PInv'
  BY <1>4, EndOfSave DEF Plans!OpenFails, PInv
<1>5. ASSUME NEW t \in Users, Plans!Write(t) PROVE PInv'
  <2> DEFINE i == pos[t] + 1
             piece == Plans!Pieces(blob[t])[i]
             file == content[fd[t]]
  <2>1. piece \in Blobs \X Nat
    BY <1>5, PieceOfBlob DEF Plans!Write, PInv
  <2>2. fd[t] \in 1 .. Len(content) /\ file \in Seq(Blobs \X Nat)
    BY <1>5 DEF Plans!Write, PInv
  <2>3. i \in Nat \ {0}
    BY DEF PInv
  <2>4. Plans!Put(file, i, piece) \in Seq(Blobs \X Nat)
    BY <1>b, <2>1, <2>2, <2>3, PutIsSeq
  <2>5. content' = [content EXCEPT ![fd[t]] = Plans!Put(file, i, piece)] /\ pos' = [pos EXCEPT ![t] = i]
    BY <1>5 DEF Plans!Write
  <2> HIDE DEF i, piece, file
  <2>6. content' \in Seq(Seq(Blobs \X Nat)) /\ Len(content') = Len(content)
    BY <2>2, <2>4, <2>5 DEF PInv
  <2> QED
    BY <1>5, <2>3, <2>5, <2>6 DEF Plans!Write, PInv
<1>6. ASSUME NEW t \in Users, Plans!WriteFails(t) PROVE PInv'
  BY <1>a, <1>b, <1>6, EndOfSave DEF Plans!WriteFails, PInv
<1>7. ASSUME NEW t \in Users, Plans!Rename(t) PROVE PInv'
  BY <1>a, <1>b, <1>7, EndOfSave DEF Plans!Rename, PInv
<1>8. ASSUME NEW p, Plans!Crash(p) PROVE PInv'
  BY <1>b, <1>8, NoBlobIsBlob DEF Plans!Crash, PInv
<1>9. CASE Plans!Damage
  <2>1. content[path] \in Seq(Blobs \X Nat) /\ path \in 1 .. Len(content)
    BY <1>9 DEF Plans!Damage, PInv
  <2>2. SubSeq(content[path], 1, Len(content[path]) - 1) \in Seq(Blobs \X Nat)
    BY <1>9, <2>1 DEF Plans!Damage
  <2>3. content' \in Seq(Seq(Blobs \X Nat)) /\ Len(content') = Len(content)
    BY <1>9, <2>1, <2>2 DEF Plans!Damage, PInv
  <2> QED
    BY <1>9, <2>3 DEF Plans!Damage, PInv
<1> QED
  BY <1>1, <1>2, <1>3, <1>4, <1>5, <1>6, <1>7, <1>8, <1>9 DEF Plans!Next

LEMMA PlansLoaded == PInv => Plans!LoadedIsOwn
BY DEF PInv, Plans!LoadedIsOwn

-----------------------------------------------------------------------------
LEMMA DirectoryInvariant == DirectorySpec => [](RInv /\ PInv)
<1>1. DirectoryInit => RInv /\ PInv
  BY ReferencesInit, PlansInit DEF DirectoryInit
<1>2. RInv /\ PInv /\ [DirectoryNext]_directoryVars => (RInv /\ PInv)'
  BY ReferencesStep, ReferencesStutter, PlansStep, PlansStutter DEF DirectoryNext, directoryVars
<1> QED
  BY <1>1, <1>2, PTL DEF DirectorySpec

(* What a process takes from the cache directory is what it would have built *)
(* itself, whatever was altered, cut or left behind there.                   *)
THEOREM WhatIsServedIsOwn == DirectorySpec => []ServedIsOwn
<1>1. RInv /\ PInv => ServedIsOwn
  BY ReferencesServed, PlansLoaded DEF ServedIsOwn
<1> QED
  BY <1>1, DirectoryInvariant, PTL

(* However the writers of one reference entry race, crash or fail, a reader *)
(* turns it down only if a file of it is missing or altered or if it was    *)
(* compiled for circuits of two file names: the text holds the name, the    *)
(* key does not (ref_io.cpp:291, reference.py:161-166).                     *)
THEOREM NothingTurnedDownInVain == DirectorySpec => TurnedDownForAReason
<1> DEFINE A == \A t \in Users : References!TurnsDown(t) =>
                   References!Broken \/ text[t] = "altered" \/ References!TwoNames
<1>1. RInv /\ PInv /\ [DirectoryNext]_directoryVars => [A]_(References!vars)
  BY ReferencesReason DEF References!vars
<1> QED
  BY <1>1, DirectoryInvariant, PTL DEF DirectorySpec, TurnedDownForAReason, References!TurnedDownForAReason

=============================================================================
