-------------------------- MODULE PlanBudgetProofs --------------------------
(***************************************************************************)
(* Proofs about PlanBudget, for all contents, sizes, budgets and bounds.   *)
(***************************************************************************)
EXTENDS PlanBudget, TLAPS

-----------------------------------------------------------------------------
(* A number is the sum of a queue: there are numbers left after each element *)
(* is taken, from it down to 0.  Said so, sums follow a queue without        *)
(* induction over it, and no element is more than the sum.                   *)
Left(f, w, n) ==
    /\ f \in [0..n -> Nat]
    /\ f[n] = 0
    /\ \A i \in 1..n : f[i - 1] = w[i] + f[i]

AddsUp(w, t) == \E f : Left(f, w, Len(w)) /\ f[0] = t

LEMMA EmptyAdds == AddsUp(<<>>, 0)
<1> DEFINE f == [i \in 0..0 |-> 0]
<1>1. Len(<<>>) = 0
  OBVIOUS
<1>2. Left(f, <<>>, 0) /\ f[0] = 0
  BY DEF Left
<1> QED
  BY <1>1, <1>2 DEF AddsUp

LEMMA NothingAdds ==
    ASSUME NEW t, AddsUp(<<>>, t)
    PROVE  t = 0
BY DEF AddsUp, Left

LEMMA TakeLeft ==
    ASSUME NEW w, NEW t, AddsUp(w, t)
    PROVE  \E f : Left(f, w, Len(w)) /\ f[0] = t
BY DEF AddsUp

LEMMA GiveLeft ==
    ASSUME NEW w, NEW f, Left(f, w, Len(w))
    PROVE  AddsUp(w, f[0])
BY DEF AddsUp

LEMMA AppendAdds ==
    ASSUME NEW w \in Seq(Nat), NEW t, AddsUp(w, t), NEW b \in Nat
    PROVE  AddsUp(Append(w, b), t + b)
<1> DEFINE n == Len(w)
           v == Append(w, b)
<1>1. n \in Nat /\ Len(v) = n + 1 /\ v[n + 1] = b /\ \A i \in 1..n : v[i] = w[i] /\ w[i] \in Nat
  OBVIOUS
<1>2. PICK f : Left(f, w, n) /\ f[0] = t
  BY TakeLeft
<1> DEFINE g == [i \in 0..(n + 1) |-> IF i = n + 1 THEN 0 ELSE f[i] + b]
<1> HIDE DEF n, v
<1>3. \A i \in 0..n : f[i] \in Nat
  BY <1>1, <1>2 DEF Left
<1>4. g \in [0..(n + 1) -> Nat]
  BY <1>1, <1>3
<1>5. g[n + 1] = 0 /\ \A i \in 0..n : g[i] = f[i] + b
  BY <1>1
<1> HIDE DEF g
<1>6. \A i \in 1..(n + 1) : g[i - 1] = v[i] + g[i]
  <2> TAKE i \in 1..(n + 1)
  <2>1. CASE i \in 1..n
    <3>1. i \in 0..n /\ i - 1 \in 0..n
      BY <2>1, <1>1
    <3>2. f[i - 1] = w[i] + f[i]
      BY <2>1, <1>2 DEF Left
    <3>3. g[i - 1] = f[i - 1] + b /\ g[i] = f[i] + b /\ f[i] \in Nat
      BY <3>1, <1>3, <1>5
    <3> QED
      BY <3>2, <3>3, <2>1, <1>1
  <2>2. CASE i = n + 1
    <3>1. i - 1 = n /\ n \in 0..n /\ g[n] = f[n] + b /\ f[n] = 0
      BY <2>2, <1>1, <1>2, <1>5 DEF Left
    <3> QED
      BY <3>1, <2>2, <1>1, <1>5
  <2> QED
    BY <2>1, <2>2, <1>1
<1>7. Left(g, v, n + 1)
  BY <1>4, <1>5, <1>6 DEF Left
<1>8. AddsUp(v, g[0])
  BY <1>1, <1>7, GiveLeft
<1> QED
  BY <1>1, <1>2, <1>5, <1>8 DEF v

LEMMA TailAdds ==
    ASSUME NEW w \in Seq(Nat), w # <<>>, NEW t, AddsUp(w, t)
    PROVE  AddsUp(Tail(w), t - Head(w)) /\ Head(w) <= t
<1> DEFINE n == Len(w)
           v == Tail(w)
           a == Head(w)
<1>1. /\ n \in Nat /\ n >= 1 /\ Len(v) = n - 1 /\ a = w[1] /\ a \in Nat
      /\ \A i \in 1..(n - 1) : v[i] = w[i + 1]
  OBVIOUS
<1>2. PICK f : Left(f, w, n) /\ f[0] = t
  BY TakeLeft
<1> DEFINE g == [i \in 0..(n - 1) |-> f[i + 1]]
<1> HIDE DEF n, v, a
<1>3. \A i \in 0..n : f[i] \in Nat
  BY <1>1, <1>2 DEF Left
<1>4. g \in [0..(n - 1) -> Nat]
  BY <1>1, <1>3
<1>5. \A i \in 0..(n - 1) : g[i] = f[i + 1]
  BY <1>1
<1> HIDE DEF g
<1>6. \A i \in 1..(n - 1) : g[i - 1] = v[i] + g[i]
  <2> TAKE i \in 1..(n - 1)
  <2>1. /\ i \in 0..(n - 1) /\ i - 1 \in 0..(n - 1) /\ i + 1 \in 1..n
        /\ (i + 1) - 1 = i /\ (i - 1) + 1 = i
    BY <1>1
  <2>2. f[(i + 1) - 1] = w[i + 1] + f[i + 1]
    BY <2>1, <1>2 DEF Left
  <2>3. g[i - 1] = f[(i - 1) + 1] /\ g[i] = f[i + 1]
    BY <2>1, <1>5
  <2> QED
    BY <2>1, <2>2, <2>3, <1>1
<1>7. g[n - 1] = 0
  BY <1>1, <1>2, <1>5 DEF Left
<1>8. Left(g, v, n - 1)
  BY <1>4, <1>6, <1>7 DEF Left
<1>9. AddsUp(v, g[0])
  BY <1>1, <1>8, GiveLeft
<1>10. g[0] = f[1] /\ f[1] \in Nat
  BY <1>1, <1>3, <1>5
<1>11. t = a + f[1]
  <2>1. 1 \in 1..n
    BY <1>1
  <2>2. f[1 - 1] = w[1] + f[1]
    BY <2>1, <1>2 DEF Left
  <2> QED
    BY <2>2, <1>1, <1>2
<1>12. t - a = f[1] /\ a <= t
  BY <1>1, <1>10, <1>11
<1> QED
  BY <1>9, <1>10, <1>12 DEF v, a

LEMMA GrowType ==
    ASSUME NEW w \in Seq(Nat), NEW k \in DOMAIN w, NEW b \in Nat
    PROVE  [w EXCEPT ![k] = @ + b] \in Seq(Nat)
<1> DEFINE v == [w EXCEPT ![k] = @ + b]
<1>1. w \in [1..Len(w) -> Nat] /\ Len(w) \in Nat /\ w[k] + b \in Nat
  OBVIOUS
<1>2. v \in [1..Len(w) -> Nat]
  BY <1>1
<1> QED
  BY <1>1, <1>2

LEMMA GrowAdds ==
    ASSUME NEW w \in Seq(Nat), NEW t, AddsUp(w, t), NEW k \in DOMAIN w, NEW b \in Nat
    PROVE  AddsUp([w EXCEPT ![k] = @ + b], t + b)
<1> DEFINE n == Len(w)
           v == [w EXCEPT ![k] = @ + b]
<1>1. /\ n \in Nat /\ k \in 1..n /\ Len(v) = n /\ v[k] = w[k] + b
      /\ \A i \in 1..n : w[i] \in Nat /\ (i # k => v[i] = w[i])
  OBVIOUS
<1>2. PICK f : Left(f, w, n) /\ f[0] = t
  BY TakeLeft
<1> DEFINE g == [i \in 0..n |-> IF i < k THEN f[i] + b ELSE f[i]]
<1> HIDE DEF n, v
<1>3. \A i \in 0..n : f[i] \in Nat
  BY <1>1, <1>2 DEF Left
<1>4. g \in [0..n -> Nat]
  BY <1>1, <1>3
<1>5. \A i \in 0..n : g[i] = IF i < k THEN f[i] + b ELSE f[i]
  BY <1>1
<1> HIDE DEF g
<1>6. \A i \in 1..n : g[i - 1] = v[i] + g[i]
  <2> TAKE i \in 1..n
  <2>1. i \in 0..n /\ i - 1 \in 0..n
    BY <1>1
  <2>2. f[i - 1] = w[i] + f[i]
    BY <1>2 DEF Left
  <2>3. f[i] \in Nat /\ f[i - 1] \in Nat /\ w[i] \in Nat
    BY <2>1, <1>1, <1>3
  <2>4. g[i] = (IF i < k THEN f[i] + b ELSE f[i])
        /\ g[i - 1] = IF i - 1 < k THEN f[i - 1] + b ELSE f[i - 1]
    BY <2>1, <1>5
  <2>5. CASE i < k
    <3>1. g[i] = f[i] + b /\ g[i - 1] = f[i - 1] + b /\ v[i] = w[i]
      BY <2>4, <2>5, <1>1
    <3> QED
      BY <3>1, <2>2, <2>3
  <2>6. CASE i = k
    <3>1. g[i] = f[i] /\ g[i - 1] = f[i - 1] + b /\ v[i] = w[i] + b
      BY <2>4, <2>6, <1>1
    <3> QED
      BY <3>1, <2>2, <2>3
  <2>7. CASE i > k
    <3>1. g[i] = f[i] /\ g[i - 1] = f[i - 1] /\ v[i] = w[i]
      BY <2>4, <2>7, <1>1
    <3> QED
      BY <3>1, <2>2
  <2> QED
    BY <2>5, <2>6, <2>7, <1>1
<1>7. g[n] = 0
  <2>1. n \in 0..n /\ ~(n < k)
    BY <1>1
  <2>2. g[n] = f[n]
    BY <2>1, <1>5
  <2> QED
    BY <2>2, <1>2 DEF Left
<1>8. g[0] = f[0] + b
  BY <1>1, <1>5
<1>9. Left(g, v, n)
  BY <1>4, <1>6, <1>7 DEF Left
<1>10. AddsUp(v, g[0])
  BY <1>1, <1>9, GiveLeft
<1> QED
  BY <1>2, <1>8, <1>10 DEF v

(* Sequence v is w with its element at k moved to the end. *)
IsMoved(v, w, k) ==
    /\ Len(v) = Len(w)
    /\ \A j \in 1..Len(w) :
          v[j] = IF j < k THEN w[j] ELSE IF j < Len(w) THEN w[j + 1] ELSE w[k]

LEMMA MoveAdds ==
    ASSUME NEW w \in Seq(Nat), NEW t, AddsUp(w, t), NEW k \in DOMAIN w,
           NEW v, IsMoved(v, w, k)
    PROVE  AddsUp(v, t)
<1> DEFINE n == Len(w)
<1>1. /\ n \in Nat /\ k \in 1..n /\ Len(v) = n
      /\ \A i \in 1..n : v[i] = IF i < k THEN w[i] ELSE IF i < n THEN w[i + 1] ELSE w[k]
  BY DEF IsMoved
<1>2. PICK f : Left(f, w, n) /\ f[0] = t
  BY TakeLeft
<1>3. w[k] \in Nat /\ \A i \in 1..n : w[i] \in Nat
  OBVIOUS
<1> DEFINE g == [i \in 0..n |-> IF i < k \/ i = n THEN f[i] ELSE f[i + 1] + w[k]]
<1> HIDE DEF n
<1>4. \A i \in 0..n : f[i] \in Nat
  BY <1>1, <1>2 DEF Left
<1>5. \A i \in 0..n : ~(i < k \/ i = n) => f[i + 1] + w[k] \in Nat
  BY <1>1, <1>3, <1>4
<1>6. g \in [0..n -> Nat]
  BY <1>1, <1>4, <1>5
<1>7. \A i \in 0..n : g[i] = IF i < k \/ i = n THEN f[i] ELSE f[i + 1] + w[k]
  BY <1>1
<1>8. f[n] = 0 /\ f[k - 1] = w[k] + f[k]
  BY <1>1, <1>2 DEF Left
<1> HIDE DEF g
<1>9. \A i \in 1..n : g[i - 1] = v[i] + g[i]
  <2> TAKE i \in 1..n
  <2>1. i \in 0..n /\ i - 1 \in 0..n /\ (i - 1) + 1 = i
    BY <1>1
  <2>2. f[i - 1] = w[i] + f[i]
    BY <1>2 DEF Left
  <2>3. f[i] \in Nat /\ w[i] \in Nat
    BY <2>1, <1>3, <1>4
  <2>4. g[i] = (IF i < k \/ i = n THEN f[i] ELSE f[i + 1] + w[k])
        /\ g[i - 1] = IF i - 1 < k \/ i - 1 = n THEN f[i - 1] ELSE f[i] + w[k]
    BY <2>1, <1>7
  <2>5. v[i] = IF i < k THEN w[i] ELSE IF i < n THEN w[i + 1] ELSE w[k]
    BY <1>1
  <2>6. CASE i < k
    <3>1. g[i] = f[i] /\ g[i - 1] = f[i - 1] /\ v[i] = w[i]
      BY <2>4, <2>5, <2>6, <1>1
    <3> QED
      BY <3>1, <2>2
  <2>7. CASE i >= k /\ i < n
    <3>1. i + 1 \in 1..n /\ i + 1 \in 0..n /\ (i + 1) - 1 = i
      BY <2>7, <1>1
    <3>2. f[(i + 1) - 1] = w[i + 1] + f[i + 1]
      BY <3>1, <1>2 DEF Left
    <3>3. w[i + 1] \in Nat /\ f[i + 1] \in Nat
      BY <3>1, <1>3, <1>4
    <3>4. g[i] = f[i + 1] + w[k] /\ v[i] = w[i + 1]
      BY <2>4, <2>5, <2>7, <1>1
    <3>5. g[i - 1] = f[i] + w[k]
      <4>1. CASE i = k
        <5>1. g[i - 1] = f[k - 1]
          BY <4>1, <2>4, <1>1
        <5>2. f[k] \in Nat
          BY <4>1, <2>3
        <5> QED
          BY <4>1, <5>1, <5>2, <1>3, <1>8
      <4>2. CASE i > k
        BY <4>2, <2>4, <2>7, <1>1
      <4> QED
        BY <4>1, <4>2, <2>7, <1>1
    <3>6. f[i] = w[i + 1] + f[i + 1]
      BY <3>1, <3>2
    <3> QED
      BY <3>3, <3>4, <3>5, <3>6, <1>3
  <2>8. CASE i = n
    <3>1. g[i] = 0 /\ v[i] = w[k] /\ f[i] = 0
      BY <2>4, <2>5, <2>8, <1>1, <1>8
    <3>2. CASE k = n
      <4>1. g[i - 1] = f[i - 1]
        BY <3>2, <2>4, <2>8, <1>1
      <4> QED
        BY <4>1, <3>1, <3>2, <2>2, <2>8
    <3>3. CASE k < n
      <4>1. g[i - 1] = f[i] + w[k]
        BY <3>3, <2>4, <2>8, <1>1
      <4> QED
        BY <4>1, <3>1, <1>3
    <3> QED
      BY <3>2, <3>3, <1>1
  <2> QED
    BY <2>6, <2>7, <2>8, <1>1
<1>10. g[n] = 0
  BY <1>1, <1>7, <1>8
<1>11. g[0] = f[0]
  BY <1>1, <1>7
<1>12. Left(g, v, n)
  BY <1>6, <1>9, <1>10 DEF Left
<1>13. AddsUp(v, g[0])
  BY <1>1, <1>12, GiveLeft
<1> QED
  BY <1>2, <1>11, <1>13

-----------------------------------------------------------------------------
(* The bytes of the tables of s, and what becomes of them. *)
Weights(s) == [i \in DOMAIN s |-> TableBytes[s[i]]]

LEMMA WeightsType ==
    ASSUME NEW s \in Seq(Contents)
    PROVE  Weights(s) \in Seq(Nat) /\ Len(Weights(s)) = Len(s)
<1>1. \A i \in 1..Len(s) : TableBytes[s[i]] \in Nat
  BY ConstantsAssumption
<1> QED
  BY <1>1 DEF Weights

LEMMA WeightsAppend ==
    ASSUME NEW s \in Seq(Contents), NEW c \in Contents
    PROVE  Weights(Append(s, c)) = Append(Weights(s), TableBytes[c])
<1>1. Weights(s) \in Seq(Nat) /\ Len(Weights(s)) = Len(s) /\ TableBytes[c] \in Nat
  BY WeightsType, ConstantsAssumption
<1> QED
  BY <1>1 DEF Weights

LEMMA WeightsTail ==
    ASSUME NEW s \in Seq(Contents), s # <<>>
    PROVE  /\ Weights(Tail(s)) = Tail(Weights(s))
           /\ Head(Weights(s)) = TableBytes[Head(s)]
           /\ Weights(s) # <<>>
           /\ Head(s) \in Contents
<1>1. Weights(s) \in Seq(Nat) /\ Len(Weights(s)) = Len(s) /\ Len(s) \in Nat \ {0}
  BY WeightsType
<1>2. Head(s) = s[1] /\ Head(s) \in Contents /\ Weights(s) # <<>> /\ 1 \in DOMAIN s
  BY <1>1
<1>3. Head(Weights(s)) = Weights(s)[1]
  BY <1>1, <1>2
<1>4. Head(Weights(s)) = TableBytes[Head(s)]
  BY <1>2, <1>3 DEF Weights
<1>5. Weights(Tail(s)) = Tail(Weights(s))
  BY <1>1 DEF Weights
<1> QED
  BY <1>2, <1>4, <1>5

LEMMA UsedLastType ==
    ASSUME tables \in Seq(Contents), NEW i \in DOMAIN tables
    PROVE  /\ UsedLast(i) \in Seq(Contents)
           /\ Len(UsedLast(i)) = Len(tables)
           /\ IsMoved(Weights(UsedLast(i)), Weights(tables), i)
<1> DEFINE n == Len(tables)
           u == UsedLast(i)
<1>1. n \in Nat /\ i \in 1..n /\ \A j \in 1..n : tables[j] \in Contents
  OBVIOUS
<1>2. \A j \in 1..n : j < n => j + 1 \in 1..n
  BY <1>1
<1>3. u = [j \in 1..n |-> IF j < i THEN tables[j] ELSE IF j < n THEN tables[j + 1] ELSE tables[i]]
  BY DEF UsedLast
<1> HIDE DEF n, u
<1>4. u \in [1..n -> Contents]
  BY <1>1, <1>2, <1>3
<1>5. u \in Seq(Contents) /\ Len(u) = n /\ DOMAIN u = 1..n
  BY <1>1, <1>4
<1>6. /\ Weights(u) \in Seq(Nat) /\ Len(Weights(u)) = n
      /\ Weights(tables) \in Seq(Nat) /\ Len(Weights(tables)) = n
  BY <1>5, WeightsType DEF n
<1>7. /\ \A j \in 1..n : Weights(u)[j] = TableBytes[u[j]]
      /\ \A j \in 1..n : Weights(tables)[j] = TableBytes[tables[j]]
  BY <1>5 DEF Weights, n
<1>8. \A j \in 1..n : Weights(u)[j] =
        IF j < i THEN Weights(tables)[j]
        ELSE IF j < n THEN Weights(tables)[j + 1] ELSE Weights(tables)[i]
  <2> TAKE j \in 1..n
  <2>1. CASE j < i
    BY <2>1, <1>1, <1>3, <1>7
  <2>2. CASE ~(j < i) /\ j < n
    BY <2>2, <1>1, <1>2, <1>3, <1>7
  <2>3. CASE ~(j < i) /\ ~(j < n)
    BY <2>3, <1>1, <1>3, <1>7
  <2> QED
    BY <2>1, <2>2, <2>3
<1> QED
  BY <1>5, <1>6, <1>8 DEF IsMoved, n, u

-----------------------------------------------------------------------------
(* The inductive invariant.  The counters are sums (the readers' tables are *)
(* at most the readers' bytes), roots of branches need branches, each phase *)
(* of a boundary has met what the phases before it were for, a mark was     *)
(* taken when all was met, and the number published is the sampler's from   *)
(* the end of a call that met its budget to the next one.                   *)
Adds ==
    /\ AddsUp(fifo, resident)
    /\ \E t \in Nat : AddsUp(Weights(tables), t) /\ t <= readerBytes

BranchRootsNeedBranches == branches \/ branchRoots = 0

InBoundary ==
    /\ pc \in {"trim", "roots", "evict", "leave"} => budget # 0 /\ peak >= resident
    /\ pc \in {"trim", "roots", "leave"} => pub = resident
    /\ pc \in {"roots", "evict", "leave"} => tables = <<>> \/ resident + readerBytes <= budget
    /\ pc \in {"evict", "leave"} => AllRoots = 0 \/ resident + AllRoots <= budget
    /\ pc = "leave" => resident <= budget
    /\ pc \in {"trim", "roots", "evict", "leave"} /\ ~last => shots < MaxShots

AtMark ==
    pc \in {"top", "shot"} /\ budget # 0 /\ mark[1] # -1 =>
        /\ mark[1] <= budget
        /\ tables = <<>> \/ mark[1] + mark[2] <= budget
        /\ mark[3] = 0 \/ mark[1] + mark[3] <= budget
        /\ pub = mark[1]
        /\ peak >= mark[1]

InRead == pc = "read" => tables # <<>>

AtEnd ==
    /\ ended = "met" => pub = resident
    /\ pc \notin {"idle", "read"} => ended = "cut"

IInv == TypeOK /\ Adds /\ BranchRootsNeedBranches /\ PeakIsTrue
        /\ InBoundary /\ AtMark /\ InRead /\ AtEnd

LEMMA InitHolds == Init => IInv
<1> SUFFICES ASSUME Init PROVE IInv
  OBVIOUS
<1> USE ConstantsAssumption
<1>1. TypeOK
  <2>1. mark \in (Nat \cup {-1}) \X Nat \X Nat
    BY DEF Init, NoMark
  <2>2. 0 \in 0..MaxContents /\ 0 \in 0..RootCap /\ 0 \in 0..MaxShots
    OBVIOUS
  <2>3. fifo \in Seq(Nat) /\ tables \in Seq(Contents)
    BY DEF Init
  <2> QED
    BY <2>1, <2>2, <2>3 DEF Init, TypeOK
<1>2. Adds
  <2>1. Weights(<<>>) = <<>>
    BY DEF Weights
  <2> QED
    BY <2>1, EmptyAdds DEF Init, Adds
<1>3. BranchRootsNeedBranches /\ PeakIsTrue /\ InBoundary /\ AtMark /\ InRead /\ AtEnd
  BY DEF Init, BranchRootsNeedBranches, PeakIsTrue, MaxOf, InBoundary, AtMark, InRead, AtEnd
<1> QED
  BY <1>1, <1>2, <1>3 DEF IInv

(* What the sums say of the next element to go. *)
LEMMA HeadFits ==
    ASSUME TypeOK, Adds
    PROVE  /\ fifo = <<>> => resident = 0
           /\ fifo # <<>> =>
                  /\ Head(fifo) \in Nat /\ Head(fifo) <= resident
                  /\ Tail(fifo) \in Seq(Nat)
                  /\ AddsUp(Tail(fifo), resident - Head(fifo))
           /\ tables # <<>> =>
                  /\ TableBytes[Head(tables)] \in Nat \ {0}
                  /\ TableBytes[Head(tables)] <= readerBytes
                  /\ Tail(tables) \in Seq(Contents)
                  /\ \E t \in Nat : AddsUp(Weights(Tail(tables)), t)
                                   /\ t <= readerBytes - TableBytes[Head(tables)]
<1>1. /\ fifo \in Seq(Nat) /\ resident \in Nat /\ tables \in Seq(Contents) /\ readerBytes \in Nat
      /\ AddsUp(fifo, resident)
  BY DEF TypeOK, Adds
<1>2. PICK t \in Nat : AddsUp(Weights(tables), t) /\ t <= readerBytes
  BY DEF Adds
<1>3. fifo = <<>> => resident = 0
  BY <1>1, NothingAdds
<1>4. ASSUME fifo # <<>>
      PROVE  /\ Head(fifo) \in Nat /\ Head(fifo) <= resident
             /\ Tail(fifo) \in Seq(Nat)
             /\ AddsUp(Tail(fifo), resident - Head(fifo))
  BY <1>1, <1>4, TailAdds
<1>5. ASSUME tables # <<>>
      PROVE  /\ TableBytes[Head(tables)] \in Nat \ {0}
             /\ TableBytes[Head(tables)] <= readerBytes
             /\ Tail(tables) \in Seq(Contents)
             /\ \E u \in Nat : AddsUp(Weights(Tail(tables)), u)
                              /\ u <= readerBytes - TableBytes[Head(tables)]
  <2> DEFINE a == TableBytes[Head(tables)]
             w == Weights(tables)
  <2>1. /\ w \in Seq(Nat) /\ w # <<>> /\ Head(w) = a
        /\ Weights(Tail(tables)) = Tail(w) /\ Head(tables) \in Contents
    BY <1>1, <1>5, WeightsType, WeightsTail
  <2>2. a \in Nat \ {0} /\ Tail(tables) \in Seq(Contents)
    BY <2>1, <1>1, <1>5, ConstantsAssumption
  <2> HIDE DEF a, w
  <2>3. AddsUp(Tail(w), t - a) /\ a <= t
    <3>1. AddsUp(w, t)
      BY <1>2 DEF w
    <3> QED
      BY <3>1, <2>1, TailAdds
  <2>4. t - a \in Nat /\ t - a <= readerBytes - a /\ a <= readerBytes
    BY <2>2, <2>3, <1>1, <1>2
  <2> QED
    BY <2>1, <2>2, <2>3, <2>4 DEF a
<1> QED
  BY <1>3, <1>4, <1>5

-----------------------------------------------------------------------------
(* Every step keeps the types. *)
LEMMA TypeStep ==
    ASSUME IInv, [Next]_vars
    PROVE  TypeOK'
<1> USE ConstantsAssumption
<1>1. TypeOK /\ Adds /\ InBoundary
  BY DEF IInv
<1>2. /\ fifo \in Seq(Nat) /\ resident \in Nat /\ tables \in Seq(Contents)
      /\ readerBytes \in Nat /\ roots \in 0..RootCap /\ branchRoots \in 0..RootCap
      /\ pub \in Nat /\ peak \in Nat /\ highest \in Nat
  BY <1>1 DEF TypeOK
<1>3. MaxOf(peak, resident) \in Nat
  BY <1>2 DEF MaxOf
<1>4. \A n \in 0..RootCap : Remembered(n) \in 0..RootCap
  BY DEF Remembered
<1>5. NoMark \in (Nat \cup {-1}) \X Nat \X Nat
  BY DEF NoMark
<1>6. Triple \in (Nat \cup {-1}) \X Nat \X Nat
  BY <1>2 DEF Triple
<1>7. CASE \E b \in Budgets : SetBudget(b)
  BY <1>1, <1>7 DEF TypeOK, SetBudget, bytes, loop
<1>8. CASE AddBranch
  BY <1>1, <1>8 DEF TypeOK, AddBranch, bytes, loop
<1>9. CASE Call
  BY <1>1, <1>5, <1>9 DEF TypeOK, Call, bytes, setup
<1>10. CASE \E c \in Contents : ReadHit(c)
  <2>1. PICK i \in DOMAIN tables : tables' = UsedLast(i)
    BY <1>10 DEF ReadHit
  <2>2. tables' \in Seq(Contents)
    BY <2>1, <1>2, UsedLastType
  <2> QED
    BY <2>2, <1>1, <1>10 DEF TypeOK, ReadHit, setup, loop
<1>11. CASE \E c \in Contents : ReadMiss(c)
  <2>1. PICK c \in Contents : ReadMiss(c)
    BY <1>11
  <2>2. tables' \in Seq(Contents) /\ readerBytes' \in Nat
    BY <2>1, <1>2 DEF ReadMiss
  <2> QED
    BY <2>1, <2>2, <1>1 DEF TypeOK, ReadMiss, setup, loop
<1>12. CASE StartBoundary
  BY <1>1, <1>2, <1>3, <1>12 DEF TypeOK, StartBoundary, Publish, bytes, setup, loop
<1>13. CASE SkipBoundary
  BY <1>1, <1>13 DEF TypeOK, SkipBoundary, bytes, setup
<1>14. CASE EndOfShots
  BY <1>1, <1>2, <1>3, <1>14 DEF TypeOK, EndOfShots, Publish, bytes, setup
<1>15. ASSUME DropOldest, tables # <<>>
       PROVE  tables' \in Seq(Contents) /\ readerBytes' \in Nat
  BY <1>1, <1>2, <1>15, HeadFits DEF DropOldest
<1>16. CASE TrimTable
  <2>1. tables' \in Seq(Contents) /\ readerBytes' \in Nat
    BY <1>15, <1>16 DEF TrimTable, TablesOver
  <2> QED
    BY <2>1, <1>1, <1>16 DEF TypeOK, TrimTable, DropOldest, setup, loop
<1>17. CASE TrimDone
  BY <1>1, <1>17 DEF TypeOK, TrimDone, bytes, setup, loop
<1>18. CASE ClearRoots
  BY <1>1, <1>18 DEF TypeOK, ClearRoots, setup, loop
<1>19. CASE Evict
  <2>1. fifo' \in Seq(Nat) /\ resident' \in Nat
    BY <1>1, <1>2, <1>19, HeadFits DEF Evict, PayloadsOver
  <2> QED
    BY <2>1, <1>1, <1>19 DEF TypeOK, Evict, setup, loop
<1>20. CASE EvictDone
  BY <1>1, <1>2, <1>20 DEF TypeOK, EvictDone, Republish, bytes, setup, loop
<1>21. CASE BoundaryDone
  <2>1. shots' \in 0..MaxShots
    <3>1. CASE last
      BY <3>1, <1>1, <1>21 DEF TypeOK, BoundaryDone
    <3>2. CASE ~last
      <4>1. shots' = shots + 1 /\ shots < MaxShots /\ shots \in 0..MaxShots
        BY <3>2, <1>1, <1>21 DEF TypeOK, BoundaryDone, InBoundary
      <4> QED
        BY <4>1
    <3> QED
      BY <3>1, <3>2
  <2> QED
    BY <2>1, <1>1, <1>6, <1>21 DEF TypeOK, BoundaryDone, bytes, setup
<1>22. CASE \E b \in Sizes : Install(b)
  <2>1. PICK b \in Sizes : Install(b)
    BY <1>22
  <2>2. fifo' \in Seq(Nat) /\ resident' \in Nat
    BY <2>1, <1>2 DEF Install
  <2>3. highest' \in Nat
    BY <2>1, <2>2, <1>2 DEF Install, MaxOf
  <2> QED
    BY <2>1, <2>2, <2>3, <1>1 DEF TypeOK, Install, setup, loop
<1>23. CASE \E i \in DOMAIN fifo, b \in Sizes : Grow(i, b)
  <2>1. PICK i \in DOMAIN fifo, b \in Sizes : Grow(i, b)
    BY <1>23
  <2>2. fifo' \in Seq(Nat) /\ resident' \in Nat
    <3>1. fifo' = [fifo EXCEPT ![i] = @ + b]
      BY <2>1 DEF Grow
    <3>2. resident' = resident + b /\ b \in Nat
      BY <2>1 DEF Grow
    <3>3. fifo' \in Seq(Nat)
      BY <3>1, <3>2, <2>1, <1>2, GrowType
    <3>4. resident' \in Nat
      BY <3>2, <1>2
    <3> QED
      BY <3>3, <3>4
  <2>3. highest' \in Nat
    <3>1. highest' = MaxOf(highest, resident')
      BY <2>1 DEF Grow
    <3> QED
      BY <3>1, <2>2, <1>2 DEF MaxOf
  <2> QED
    BY <2>1, <2>2, <2>3, <1>1 DEF TypeOK, Grow, setup, loop
<1>24. CASE RememberRoot
  <2>1. roots' \in 0..RootCap /\ branchRoots' \in 0..RootCap
    BY <1>2, <1>4, <1>24 DEF RememberRoot
  <2> QED
    BY <2>1, <1>1, <1>24 DEF TypeOK, RememberRoot, setup, loop
<1>25. CASE DropBranch
  BY <1>1, <1>25 DEF TypeOK, DropBranch, setup, loop
<1>26. CASE Intern
  <2>1. interned' \in 0..MaxContents /\ readerBytes' \in Nat
    BY <1>1, <1>2, <1>26 DEF TypeOK, Intern
  <2> QED
    BY <2>1, <1>1, <1>26 DEF TypeOK, Intern, setup, loop
<1>27. CASE EndShot \/ Cut
  BY <1>1, <1>27 DEF TypeOK, EndShot, Cut, bytes, setup, loop
<1>28. CASE ReadTrim
  <2>1. tables' \in Seq(Contents) /\ readerBytes' \in Nat
    BY <1>15, <1>28 DEF ReadTrim, ReadOver, TablesOver
  <2> QED
    BY <2>1, <1>1, <1>28 DEF TypeOK, ReadTrim, DropOldest, setup, loop
<1>29. CASE ReadDone
  BY <1>1, <1>29 DEF TypeOK, ReadDone, bytes, setup, loop
<1>30. CASE UNCHANGED vars
  BY <1>1, <1>30 DEF TypeOK, vars
<1> QED
  BY <1>7, <1>8, <1>9, <1>10, <1>11, <1>12, <1>13, <1>14, <1>16, <1>17, <1>18, <1>19, <1>20,
     <1>21, <1>22, <1>23, <1>24, <1>25, <1>26, <1>27, <1>28, <1>29, <1>30
  DEF Next, Caller, Boundary, Shot

(* Every step keeps the sums. *)
LEMMA AddsStep ==
    ASSUME IInv, [Next]_vars
    PROVE  Adds'
<1> USE ConstantsAssumption
<1>1. TypeOK /\ Adds
  BY DEF IInv
<1>2. /\ fifo \in Seq(Nat) /\ resident \in Nat /\ tables \in Seq(Contents)
      /\ readerBytes \in Nat /\ AddsUp(fifo, resident)
  BY <1>1 DEF TypeOK, Adds
<1>3. PICK t \in Nat : AddsUp(Weights(tables), t) /\ t <= readerBytes
  BY <1>1 DEF Adds
<1>4. Weights(tables) \in Seq(Nat) /\ Len(Weights(tables)) = Len(tables)
  BY <1>2, WeightsType
<1>5. CASE UNCHANGED <<fifo, resident, tables, readerBytes>>
  BY <1>1, <1>5 DEF Adds, Weights
<1>6. CASE \E c \in Contents : ReadHit(c)
  <2>1. PICK i \in DOMAIN tables : tables' = UsedLast(i)
    BY <1>6 DEF ReadHit
  <2>2. IsMoved(Weights(tables'), Weights(tables), i) /\ i \in DOMAIN Weights(tables)
    BY <2>1, <1>2, UsedLastType DEF Weights
  <2>3. AddsUp(Weights(tables'), t)
    BY <2>2, <1>3, <1>4, MoveAdds
  <2>4. UNCHANGED <<fifo, resident, readerBytes>>
    BY <1>6 DEF ReadHit
  <2> QED
    BY <2>3, <2>4, <1>2, <1>3 DEF Adds, Weights
<1>7. CASE \E c \in Contents : ReadMiss(c)
  <2>1. PICK c \in Contents : ReadMiss(c)
    BY <1>7
  <2>2. TableBytes[c] \in Nat /\ tables' = Append(tables, c) /\ readerBytes' = readerBytes + TableBytes[c]
        /\ UNCHANGED <<fifo, resident>>
    BY <2>1 DEF ReadMiss
  <2>3. AddsUp(Weights(tables'), t + TableBytes[c])
    BY <2>2, <1>2, <1>3, <1>4, WeightsAppend, AppendAdds
  <2>4. t + TableBytes[c] \in Nat /\ t + TableBytes[c] <= readerBytes'
    BY <2>2, <1>2, <1>3
  <2> QED
    BY <2>2, <2>3, <2>4, <1>2 DEF Adds, Weights
<1>8. CASE DropOldest /\ tables # <<>>
  <2>1. /\ tables' = Tail(tables) /\ readerBytes' = readerBytes - TableBytes[Head(tables)]
        /\ UNCHANGED <<fifo, resident>>
    BY <1>8 DEF DropOldest
  <2>2. \E u \in Nat : AddsUp(Weights(tables'), u) /\ u <= readerBytes'
    BY <2>1, <1>1, <1>8, HeadFits
  <2> QED
    BY <2>1, <2>2, <1>2 DEF Adds, Weights
<1>9. CASE Evict
  <2>1. /\ fifo' = Tail(fifo) /\ resident' = resident - Head(fifo) /\ fifo # <<>>
        /\ UNCHANGED <<tables, readerBytes>>
    BY <1>9 DEF Evict, PayloadsOver
  <2>2. AddsUp(fifo', resident')
    BY <2>1, <1>1, HeadFits
  <2> QED
    BY <2>1, <2>2, <1>3 DEF Adds, Weights
<1>10. CASE \E b \in Sizes : Install(b)
  <2>1. PICK b \in Sizes : Install(b)
    BY <1>10
  <2>2. fifo' = Append(fifo, b) /\ resident' = resident + b /\ UNCHANGED <<tables, readerBytes>> /\ b \in Nat
    BY <2>1 DEF Install
  <2>3. AddsUp(fifo', resident')
    BY <2>2, <1>2, AppendAdds
  <2> QED
    BY <2>2, <2>3, <1>3 DEF Adds, Weights
<1>11. CASE \E i \in DOMAIN fifo, b \in Sizes : Grow(i, b)
  <2>1. PICK i \in DOMAIN fifo, b \in Sizes : Grow(i, b)
    BY <1>11
  <2>2. /\ fifo' = [fifo EXCEPT ![i] = @ + b] /\ resident' = resident + b
        /\ UNCHANGED <<tables, readerBytes>> /\ b \in Nat
    BY <2>1 DEF Grow
  <2>3. AddsUp(fifo', resident')
    BY <2>2, <1>2, GrowAdds
  <2> QED
    BY <2>2, <2>3, <1>3 DEF Adds, Weights
<1>12. CASE Intern
  <2>1. UNCHANGED <<fifo, resident, tables>> /\ readerBytes' = readerBytes + HeaderBytes
    BY <1>12 DEF Intern
  <2>2. t <= readerBytes'
    BY <2>1, <1>2, <1>3
  <2> QED
    BY <2>1, <2>2, <1>2, <1>3 DEF Adds, Weights
<1>13. CASE TrimTable \/ ReadTrim
  BY <1>8, <1>13 DEF TrimTable, ReadTrim, ReadOver, TablesOver
<1>14. CASE Caller
  BY <1>5, <1>6, <1>7, <1>14 DEF Caller, SetBudget, AddBranch, Call, bytes
<1>15. CASE Boundary
  BY <1>5, <1>9, <1>13, <1>15 DEF Boundary, StartBoundary, SkipBoundary, EndOfShots, TrimDone,
     ClearRoots, EvictDone, BoundaryDone, bytes
<1>16. CASE Shot
  BY <1>5, <1>10, <1>11, <1>12, <1>16 DEF Shot, RememberRoot, DropBranch, EndShot, Cut, bytes
<1>17. CASE ReadDone \/ UNCHANGED vars
  BY <1>5, <1>17 DEF ReadDone, vars, bytes
<1> QED
  BY <1>13, <1>14, <1>15, <1>16, <1>17 DEF Next

(* Every step keeps the rest of the invariant. *)
Rest == BranchRootsNeedBranches /\ PeakIsTrue /\ InBoundary /\ AtMark /\ InRead /\ AtEnd

LEMMA RestStep ==
    ASSUME IInv, [Next]_vars
    PROVE  Rest'
<1> USE ConstantsAssumption
<1>1. TypeOK /\ Adds /\ Rest
  BY DEF IInv, Rest
<1>2. /\ resident \in Nat /\ readerBytes \in Nat /\ roots \in Nat /\ branchRoots \in Nat
      /\ tables \in Seq(Contents) /\ pub \in Nat /\ peak \in Nat /\ highest \in Nat
      /\ budget \in Nat /\ shots \in Nat
      /\ last \in BOOLEAN /\ branches \in BOOLEAN
      /\ mark[1] \in Nat \cup {-1} /\ mark[2] \in Nat /\ mark[3] \in Nat
  BY <1>1 DEF TypeOK
<1>3. /\ BranchRootsNeedBranches /\ PeakIsTrue /\ InBoundary /\ AtMark /\ InRead /\ AtEnd
  BY <1>1 DEF Rest
<1> USE DEF Rest, BranchRootsNeedBranches, PeakIsTrue, InBoundary, AtMark, InRead, AtEnd,
            AllRoots
<1>4. CASE \E b \in Budgets : SetBudget(b)
  BY <1>2, <1>3, <1>4 DEF SetBudget, bytes, loop
<1>5. CASE AddBranch
  BY <1>2, <1>3, <1>5 DEF AddBranch, bytes, loop
<1>6. CASE Call
  BY <1>2, <1>3, <1>6 DEF Call, bytes, setup, NoMark
<1>7. CASE \E c \in Contents : ReadHit(c)
  BY <1>2, <1>3, <1>7 DEF ReadHit, setup, loop
<1>8. CASE \E c \in Contents : ReadMiss(c)
  <2>1. tables' # <<>>
    <3>1. PICK c \in Contents : tables' = Append(tables, c)
      BY <1>8 DEF ReadMiss
    <3> QED
      BY <3>1, <1>2
  <2> QED
    BY <2>1, <1>2, <1>3, <1>8 DEF ReadMiss, setup, loop
<1>9. CASE StartBoundary
  BY <1>2, <1>3, <1>9 DEF StartBoundary, Publish, MaxOf, bytes, setup, loop
<1>10. CASE SkipBoundary
  BY <1>2, <1>3, <1>10 DEF SkipBoundary, bytes, setup
<1>11. CASE EndOfShots
  BY <1>2, <1>3, <1>11 DEF EndOfShots, Publish, MaxOf, bytes, setup
<1>12. CASE TrimTable
  BY <1>2, <1>3, <1>12 DEF TrimTable, DropOldest, setup, loop
<1>13. CASE TrimDone
  BY <1>2, <1>3, <1>13 DEF TrimDone, TablesOver, bytes, setup, loop
<1>14. CASE ClearRoots
  BY <1>2, <1>3, <1>14 DEF ClearRoots, RootsOver, setup, loop
<1>15. CASE Evict
  <2>1. resident' \in Nat /\ resident' <= resident /\ resident > budget
    <3>1. resident' = resident - Head(fifo) /\ fifo # <<>> /\ resident > budget
      BY <1>15 DEF Evict, PayloadsOver
    <3>2. Head(fifo) \in Nat /\ Head(fifo) <= resident
      BY <3>1, <1>1, HeadFits
    <3> QED
      BY <3>1, <3>2, <1>2
  <2> QED
    BY <2>1, <1>2, <1>3, <1>15 DEF Evict, MaxOf, setup, loop
<1>16. CASE EvictDone
  <2>1. resident <= budget
    BY <1>1, <1>2, <1>16, HeadFits DEF EvictDone, PayloadsOver
  <2> QED
    BY <2>1, <1>2, <1>3, <1>16 DEF EvictDone, Republish, bytes, setup, loop
<1>17. CASE BoundaryDone
  <2>1. CASE last
    BY <2>1, <1>2, <1>3, <1>17 DEF BoundaryDone, bytes, setup
  <2>2. CASE ~last
    BY <2>2, <1>2, <1>3, <1>17 DEF BoundaryDone, Triple, bytes, setup
  <2> QED
    BY <2>1, <2>2
<1>18. CASE \E b \in Sizes : Install(b)
  BY <1>2, <1>3, <1>18 DEF Install, MaxOf, setup, loop
<1>19. CASE \E i \in DOMAIN fifo, b \in Sizes : Grow(i, b)
  <2>1. PICK b \in Nat : /\ pc = "shot" /\ resident' = resident + b
                         /\ highest' = MaxOf(highest, resident')
    BY <1>19 DEF Grow
  <2>2. UNCHANGED <<tables, interned, readerBytes, roots, branchRoots, setup, pub, peak,
                    loop, pc, ended>>
    BY <1>19 DEF Grow
  <2> QED
    BY <2>1, <2>2, <1>2, <1>3 DEF MaxOf, setup, loop
<1>20. CASE RememberRoot
  BY <1>2, <1>3, <1>20 DEF RememberRoot, setup, loop
<1>21. CASE DropBranch
  BY <1>2, <1>3, <1>21 DEF DropBranch, setup, loop
<1>22. CASE Intern
  BY <1>2, <1>3, <1>22 DEF Intern, setup, loop
<1>23. CASE EndShot \/ Cut
  BY <1>2, <1>3, <1>23 DEF EndShot, Cut, bytes, setup, loop
<1>24. CASE ReadTrim
  <2>1. tables' # <<>>
    <3>1. tables' = Tail(tables) /\ Len(tables) > 1 /\ tables \in Seq(Contents)
      BY <1>2, <1>24 DEF ReadTrim, ReadOver, DropOldest
    <3>2. tables' \in Seq(Contents) /\ Len(tables') = Len(tables) - 1 /\ Len(tables') > 0
      BY <3>1
    <3> QED
      BY <3>2
  <2> QED
    BY <2>1, <1>2, <1>3, <1>24 DEF ReadTrim, DropOldest, setup, loop
<1>25. CASE ReadDone
  BY <1>2, <1>3, <1>25 DEF ReadDone, bytes, setup, loop
<1>26. CASE UNCHANGED vars
  BY <1>2, <1>3, <1>26 DEF vars
<1> QED
  BY <1>4, <1>5, <1>6, <1>7, <1>8, <1>9, <1>10, <1>11, <1>12, <1>13, <1>14, <1>15, <1>16, <1>17,
     <1>18, <1>19, <1>20, <1>21, <1>22, <1>23, <1>24, <1>25, <1>26
  DEF Next, Caller, Boundary, Shot

LEMMA StepHolds == IInv /\ [Next]_vars => IInv'
BY TypeStep, AddsStep, RestStep DEF IInv, Rest

(* Types hold. *)
THEOREM TypesHold == Spec => []TypeOK
<1>1. IInv => TypeOK
  BY DEF IInv
<1> QED
  BY <1>1, InitHolds, StepHolds, PTL DEF Spec

(* A boundary the shot loop skips would have done nothing (pb_res, pb_rdr,  *)
(* pb_mem of run_w).                                                        *)
LEMMA SkipIsExactHere == IInv => SkipIsExact
<1> SUFFICES ASSUME IInv, pc = "top", budget # 0, ~Moved
             PROVE  /\ ~TablesOver(resident) /\ ~RootsOver /\ ~PayloadsOver
                    /\ pub = resident /\ peak >= resident
  BY DEF SkipIsExact
<1> USE ConstantsAssumption
<1>1. /\ resident \in Nat /\ readerBytes \in Nat /\ roots \in Nat /\ branchRoots \in Nat
      /\ budget \in Nat
  BY DEF IInv, TypeOK
<1>2. mark[1] = resident /\ mark[2] = readerBytes /\ mark[3] = roots /\ ~branches
  BY DEF Moved, Triple
<1>3. branchRoots = 0 /\ AllRoots = roots
  BY <1>1, <1>2 DEF IInv, BranchRootsNeedBranches, AllRoots
<1>4. /\ resident <= budget /\ pub = resident /\ peak >= resident
      /\ tables = <<>> \/ resident + readerBytes <= budget
      /\ roots = 0 \/ resident + roots <= budget
  BY <1>1, <1>2 DEF IInv, AtMark
<1> QED
  BY <1>1, <1>3, <1>4 DEF TablesOver, RootsOver, PayloadsOver

THEOREM SkipsAreExact == Spec => []SkipIsExact
BY SkipIsExactHere, InitHolds, StepHolds, PTL DEF Spec

(* payload_peak_ and the resident bytes give the true peak, though the peak *)
(* is followed at boundaries only and not at all of them.                   *)
THEOREM PeakStaysTrue == Spec => []PeakIsTrue
<1>1. IInv => PeakIsTrue
  BY DEF IInv
<1> QED
  BY <1>1, InitHolds, StepHolds, PTL DEF Spec

-----------------------------------------------------------------------------
(* A reader's insert after a call that met its budget: sampler_resident_pub_ *)
(* is then the sampler's bytes, and reader_trim_locked_ does what it is for. *)
LEMMA InsertFitsHere == IInv /\ [Next]_vars => [InsertFits]_vars
<1> SUFFICES ASSUME IInv, [Next]_vars,
                    pc = "read", pc' = "idle", ended = "met", budget # 0
             PROVE  Len(tables) = 1 \/ resident + readerBytes <= budget
  BY DEF InsertFits
<1> USE ConstantsAssumption
<1>1. /\ tables \in Seq(Contents) /\ tables # <<>> /\ pub = resident
      /\ resident \in Nat /\ readerBytes \in Nat /\ budget \in Nat
  BY DEF IInv, TypeOK, InRead, AtEnd
<1>2. ReadDone
  BY DEF Next, Caller, Boundary, Shot, SetBudget, AddBranch, Call, ReadHit, ReadMiss, StartBoundary,
     SkipBoundary, EndOfShots, TrimTable, TrimDone, ClearRoots, Evict, EvictDone, BoundaryDone,
     Install, Grow, RememberRoot, DropBranch, Intern, EndShot, Cut, ReadTrim, vars
<1>3. ~(Len(tables) > 1) \/ ~(resident + readerBytes > budget)
  BY <1>1, <1>2 DEF ReadDone, ReadOver, TablesOver
<1>4. Len(tables) \in Nat /\ Len(tables) # 0
  BY <1>1
<1>5. CASE ~(Len(tables) > 1)
  <2> DEFINE n == Len(tables)
  <2>1. n \in Nat /\ n # 0 /\ ~(n > 1)
    BY <1>4, <1>5
  <2> HIDE DEF n
  <2>2. n = 1
    BY <2>1
  <2> QED
    BY <2>2 DEF n
<1>6. CASE ~(resident + readerBytes > budget)
  BY <1>1, <1>6
<1> QED
  BY <1>3, <1>5, <1>6

THEOREM ReaderInsertsFit == Spec => ReaderInsertFits
BY InsertFitsHere, InitHolds, StepHolds, PTL DEF Spec, ReaderInsertFits

-----------------------------------------------------------------------------
(* PlanBudget implements PayloadQuota. *)
LEMMA QuotaInitHolds == Init => Quota!QuotaInit
<1> SUFFICES ASSUME Init PROVE Quota!QuotaInit
  OBVIOUS
<1>1. budget \in Nat
  BY ConstantsAssumption DEF Init
<1> QED
  BY <1>1 DEF Init, Quota!QuotaInit, AllRoots

LEMMA QuotaStepHolds == IInv /\ [Next]_vars => [Quota!QuotaNext]_(Quota!quotaVars)
<1> SUFFICES ASSUME IInv, [Next]_vars PROVE [Quota!QuotaNext]_(Quota!quotaVars)
  OBVIOUS
<1> USE ConstantsAssumption
<1>1. /\ resident \in Nat /\ readerBytes \in Nat /\ roots \in Nat /\ branchRoots \in Nat
      /\ budget \in Nat
  BY DEF IInv, TypeOK
<1>2. TypeOK /\ Adds /\ InBoundary /\ SkipIsExact
  BY SkipIsExactHere DEF IInv
<1> USE DEF Quota!quotaVars, AllRoots
(* Steps of no phase that touch nothing the quota is about. *)
<1>3. CASE AddBranch \/ StartBoundary \/ TrimDone \/ EvictDone \/ UNCHANGED vars
  BY <1>3 DEF AddBranch, StartBoundary, Publish, TrimDone, EvictDone, Republish, vars, bytes, setup
<1>4. CASE \E b \in Budgets : SetBudget(b)
  <2>1. Quota!Configure
    BY <1>4 DEF SetBudget, bytes, Quota!Configure
  <2> QED
    BY <2>1 DEF Quota!QuotaNext
<1>5. CASE Call
  <2>1. Quota!Call /\ Quota!Move
    BY <1>5 DEF Call, bytes, setup, Quota!Call, Quota!Move
  <2> QED
    BY <2>1 DEF Quota!QuotaNext
<1>6. CASE (\E c \in Contents : ReadHit(c) \/ ReadMiss(c)) \/ ReadTrim \/ ReadDone
  <2>1. Quota!Read
    BY <1>6 DEF ReadHit, ReadMiss, ReadTrim, ReadDone, DropOldest, bytes, setup, Quota!Read
  <2> QED
    BY <2>1 DEF Quota!QuotaNext
<1>7. CASE SkipBoundary
  <2>1. Quota!TablesMet /\ Quota!RootsMet /\ Quota!PayloadsMet
    <3>1. CASE budget = 0
      BY <3>1 DEF Quota!TablesMet, Quota!RootsMet, Quota!PayloadsMet
    <3>2. CASE budget # 0
      <4>1. ~TablesOver(resident) /\ ~RootsOver /\ ~PayloadsOver
        BY <3>2, <1>2, <1>7 DEF SkipBoundary, SkipIsExact
      <4>2. resident <= budget
        BY <4>1, <1>1, <1>2, HeadFits DEF PayloadsOver
      <4> QED
        BY <4>1, <4>2, <3>2, <1>1
        DEF TablesOver, RootsOver, Quota!TablesMet, Quota!RootsMet, Quota!PayloadsMet
    <3> QED
      BY <3>1, <3>2
  <2>2. Quota!StartShot /\ Quota!Move
    BY <2>1, <1>7 DEF SkipBoundary, bytes, setup, Quota!StartShot, Quota!Move
  <2> QED
    BY <2>2 DEF Quota!QuotaNext
<1>8. CASE EndOfShots
  <2>1. CASE budget = 0
    <3>1. Quota!EndCall /\ Quota!Move
      BY <2>1, <1>8 DEF EndOfShots, bytes, setup, Quota!EndCall, Quota!Move, Quota!TablesMet,
         Quota!RootsMet, Quota!PayloadsMet
    <3> QED
      BY <3>1 DEF Quota!QuotaNext
  <2>2. CASE budget # 0
    BY <2>2, <1>8 DEF EndOfShots, bytes, setup
  <2> QED
    BY <2>1, <2>2
<1>9. CASE TrimTable
  <2>1. TableBytes[Head(tables)] \in Nat \ {0}
    BY <1>2, <1>9, HeadFits DEF TrimTable, TablesOver
  <2>2. readerBytes' < readerBytes /\ tables' = Tail(tables)
    BY <2>1, <1>1, <1>9 DEF TrimTable, DropOldest
  <2>3. ~Quota!TablesMet
    BY <1>1, <1>9 DEF TrimTable, TablesOver, Quota!TablesMet
  <2>4. Quota!DropTable
    BY <2>2, <2>3, <1>9 DEF TrimTable, DropOldest, setup, Quota!DropTable
  <2> QED
    BY <2>4 DEF Quota!QuotaNext
<1>10. CASE ClearRoots
  <2>1. CASE RootsOver
    <3>1. Quota!TablesMet /\ ~Quota!RootsMet
      BY <2>1, <1>1, <1>2, <1>10 DEF ClearRoots, RootsOver, InBoundary, Quota!TablesMet, Quota!RootsMet
    <3>2. Quota!DropRoots
      BY <2>1, <3>1, <1>10 DEF ClearRoots, setup, Quota!DropRoots
    <3> QED
      BY <3>2 DEF Quota!QuotaNext
  <2>2. CASE ~RootsOver
    BY <2>2, <1>10 DEF ClearRoots, setup
  <2> QED
    BY <2>1, <2>2
<1>11. CASE Evict
  <2>1. ~Quota!PayloadsMet /\ tables = <<>> /\ roots + branchRoots = 0
    BY <1>1, <1>2, <1>11 DEF Evict, PayloadsOver, InBoundary, Quota!PayloadsMet
  <2>2. Quota!DropPayload
    BY <2>1, <1>11 DEF Evict, setup, Quota!DropPayload
  <2> QED
    BY <2>2 DEF Quota!QuotaNext
<1>12. CASE BoundaryDone
  <2>1. Quota!TablesMet /\ Quota!RootsMet /\ Quota!PayloadsMet
    BY <1>1, <1>2, <1>12 DEF BoundaryDone, InBoundary, Quota!TablesMet, Quota!RootsMet, Quota!PayloadsMet
  <2>2. (Quota!StartShot \/ Quota!EndCall) /\ Quota!Move
    BY <2>1, <1>12 DEF BoundaryDone, bytes, setup, Quota!StartShot, Quota!EndCall, Quota!Move
  <2> QED
    BY <2>2 DEF Quota!QuotaNext
<1>13. CASE (\E b \in Sizes : Install(b)) \/ (\E i \in DOMAIN fifo, b \in Sizes : Grow(i, b))
  <2>1. PICK b \in Nat : resident' = resident + b
    BY <1>13 DEF Install, Grow
  <2>2. Quota!Use
    BY <2>1, <1>1, <1>13 DEF Install, Grow, setup, Quota!Use
  <2> QED
    BY <2>2 DEF Quota!QuotaNext
<1>14. CASE RememberRoot \/ DropBranch \/ Intern
  <2>1. Quota!Use
    BY <1>1, <1>14 DEF RememberRoot, DropBranch, Intern, setup, Quota!Use
  <2> QED
    BY <2>1 DEF Quota!QuotaNext
<1>15. CASE EndShot \/ Cut
  <2>1. (Quota!EndShot \/ Quota!CutCall) /\ Quota!Move
    BY <1>15 DEF EndShot, Cut, bytes, setup, Quota!EndShot, Quota!CutCall, Quota!Move
  <2> QED
    BY <2>1 DEF Quota!QuotaNext
<1> QED
  BY <1>3, <1>4, <1>5, <1>6, <1>7, <1>8, <1>9, <1>10, <1>11, <1>12, <1>13, <1>14, <1>15
  DEF Next, Caller, Boundary, Shot

THEOREM QuotaImplemented == Spec => ImplementsQuota
BY InitHolds, StepHolds, QuotaInitHolds, QuotaStepHolds, PTL
DEF Spec, ImplementsQuota, Quota!QuotaSpec

=============================================================================
