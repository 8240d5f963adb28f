------------------------- MODULE BareStateMemoProofs -------------------------
(***************************************************************************)
(* Proofs about BareStateMemo, for every number of threads, keys, sizes,   *)
(* caps and bounds: the index never dangles, every caller sees a pure      *)
(* function, the caps hold, and what is evicted was least recently used.   *)
(***************************************************************************)
EXTENDS BareStateMemo, SumLemmas, FiniteSetTheorems, TLAPS

Busy == {"restore", "verify", "admit", "capture", "store"}

(* The types the argument needs. *)
Types ==
    /\ lru \in Seq(Entry)
    /\ nodes \in Nat
    /\ DOMAIN index \subseteq Keys
    /\ pc \in [Threads -> {"idle", "bypass", "lookup", "build"} \cup Busy]
    /\ want \in [Threads -> Keys \cup {NoKey}]
    /\ held \in [Threads -> Keys \cup {NoKey}]
    /\ answer \in [Threads -> Keys \cup {NoKey, Thrown}]

(* Nodes have ids of their own, and hold the state of their key. *)
NodesDiffer ==
    /\ \A i \in DOMAIN lru : lru[i].id < nodes /\ lru[i].val = lru[i].key
    /\ \A i, j \in DOMAIN lru : lru[i].id = lru[j].id => i = j

(* A thread that holds a state holds that of the key it was asked for. *)
HoldsItsOwn ==
    \A t \in Threads :
        /\ pc[t] = "idle" <=> want[t] = NoKey
        /\ pc[t] \in Busy => held[t] = want[t]

IInv == Types /\ NodesDiffer /\ IndexIsLive /\ HoldsItsOwn

-----------------------------------------------------------------------------
(* An entry kept at the front of the list keeps its place. *)
LEMMA KeepFront ==
    ASSUME NEW s \in Seq(Entry), NEW n \in 0..Len(s)
    PROVE  /\ SubSeq(s, 1, n) \in Seq(Entry)
           /\ DOMAIN SubSeq(s, 1, n) = 1..n
           /\ \A i \in 1..n : SubSeq(s, 1, n)[i] = s[i]
  OBVIOUS

LEMMA IdsAreNat ==
    ASSUME NEW s \in Seq(Entry), NEW i \in DOMAIN s
    PROVE  s[i].id \in Nat
<1>1. s[i] \in Entry
  OBVIOUS
<1> QED
  BY <1>1 DEF Entry

(* A new node in front moves those that are kept by one. *)
LEMMA PutInFront ==
    ASSUME NEW s \in Seq(Entry), NEW n \in 0..Len(s), NEW e \in Entry
    PROVE  LET r == <<e>> \o SubSeq(s, 1, n)
           IN  /\ r \in Seq(Entry)
               /\ DOMAIN r = 1..(n + 1)
               /\ r[1] = e
               /\ \A i \in 1..n : r[i + 1] = s[i]
               /\ \A i \in 2..(n + 1) : r[i] = s[i - 1] /\ i - 1 \in 1..n
  OBVIOUS

(* Splicing entry i to the front: the same entries, each once. *)
LEMMA SpliceToFront ==
    ASSUME NEW s \in Seq(Entry), NEW i \in DOMAIN s
    PROVE  LET r == <<s[i]>> \o RemoveAt(s, i)
           IN  /\ r \in Seq(Entry)
               /\ DOMAIN r = DOMAIN s
               /\ r[1] = s[i]
               /\ \A j \in 1..(i - 1) : r[j + 1] = s[j]
               /\ \A j \in (i + 1)..Len(s) : r[j] = s[j]
<1> DEFINE front == SubSeq(s, 1, i - 1)
           back == SubSeq(s, i + 1, Len(s))
           r == <<s[i]>> \o (front \o back)
<1>1. /\ front \in Seq(Entry) /\ Len(front) = i - 1
      /\ \A j \in 1..(i - 1) : front[j] = s[j]
  OBVIOUS
<1>2. /\ back \in Seq(Entry) /\ Len(back) = Len(s) - i
      /\ \A j \in 1..(Len(s) - i) : back[j] = s[j + i]
  OBVIOUS
<1>3. s[i] \in Entry /\ i \in 1..Len(s) /\ Len(s) \in Nat
  OBVIOUS
<1> HIDE DEF front, back
<1>4. /\ r \in Seq(Entry) /\ Len(r) = Len(s) /\ r[1] = s[i]
      /\ \A j \in 1..(i - 1) : r[j + 1] = front[j]
      /\ \A j \in 1..(Len(s) - i) : r[j + i] = back[j]
  <2> DEFINE rest == front \o back
  <2>1. rest \in Seq(Entry) /\ Len(rest) = Len(s) - 1
    BY <1>1, <1>2, <1>3
  <2>2. \A j \in 1..(i - 1) : rest[j] = front[j] /\ j \in 1..(Len(s) - 1)
    BY <1>1, <1>2, <1>3
  <2>3. \A j \in 1..(Len(s) - i) : rest[j + (i - 1)] = back[j]
    BY <1>1, <1>2, <1>3
  <2>4. \A j \in 1..(Len(s) - i) : j + (i - 1) \in 1..(Len(s) - 1)
    BY <1>3
  <2> HIDE DEF rest
  <2>5. r = <<s[i]>> \o rest
    BY DEF rest
  <2> HIDE DEF r
  <2>6. r \in Seq(Entry) /\ Len(r) = Len(s) /\ r[1] = s[i]
    BY <1>3, <2>1, <2>5
  <2>7. \A j \in 1..(Len(s) - 1) : r[j + 1] = rest[j]
    BY <1>3, <2>1, <2>5
  <2>8. \A j \in 1..(Len(s) - i) : (j + (i - 1)) + 1 = j + i
    BY <1>3
  <2>9. \A j \in 1..(Len(s) - i) : r[j + i] = back[j]
    BY <2>3, <2>4, <2>7, <2>8
  <2> QED
    BY <2>2, <2>6, <2>7, <2>9
<1>5. \A j \in (i + 1)..Len(s) : r[j] = s[j]
  <2> SUFFICES ASSUME NEW j \in (i + 1)..Len(s)
               PROVE  r[j] = s[j]
    OBVIOUS
  <2>1. j - i \in 1..(Len(s) - i) /\ (j - i) + i = j
    BY <1>3
  <2> HIDE DEF r
  <2> QED
    BY <1>2, <1>4, <2>1
<1>6. <<s[i]>> \o RemoveAt(s, i) = r
  BY DEF RemoveAt, front, back
<1>7. DOMAIN r = DOMAIN s
  BY <1>4
<1>8. \A j \in 1..(i - 1) : r[j + 1] = s[j]
  BY <1>1, <1>4
<1> HIDE DEF r
<1> QED
  BY <1>4, <1>5, <1>6, <1>7, <1>8

-----------------------------------------------------------------------------
LEMMA InitIInv == Init => IInv
<1> SUFFICES ASSUME Init PROVE IInv
  OBVIOUS
<1>1. Types
  BY DEF Init, Types
<1>2. NodesDiffer /\ IndexIsLive
  BY DEF Init, NodesDiffer, IndexIsLive
<1>3. HoldsItsOwn
  BY DEF Init, HoldsItsOwn, Busy
<1> QED
  BY <1>1, <1>2, <1>3 DEF IInv

(* Dropping entries from the back, and their keys from the index. *)
LEMMA DropKeeps ==
    ASSUME IInv, NEW n \in 0..Len(lru)
    PROVE  LET kept == SubSeq(lru, 1, n)
               ix == Indexed(lru, n)
           IN  /\ kept \in Seq(Entry)
               /\ DOMAIN kept = 1..n
               /\ \A i \in 1..n : kept[i] = lru[i] /\ i \in DOMAIN lru
               /\ DOMAIN ix \subseteq DOMAIN index
               /\ \A k \in DOMAIN ix : /\ ix[k] = index[k]
                                       /\ \E i \in 1..n : /\ lru[i].id = ix[k]
                                                          /\ lru[i].key = k
                                                          /\ lru[i].val = k
<1> DEFINE gone == {lru[i].key : i \in (n + 1)..Len(lru)}
<1>1. lru \in Seq(Entry)
  BY DEF IInv, Types
<1>2. Indexed(lru, n) = [k \in DOMAIN index \ gone |-> index[k]]
  BY DEF Indexed
<1>3. ASSUME NEW k \in DOMAIN index \ gone
      PROVE  \E i \in 1..n : lru[i].id = index[k] /\ lru[i].key = k /\ lru[i].val = k
  <2>1. PICK i \in DOMAIN lru : lru[i].id = index[k] /\ lru[i].key = k /\ lru[i].val = k
    BY DEF IInv, IndexIsLive
  <2>2. i \notin (n + 1)..Len(lru)
    BY <2>1
  <2>3. i \in 1..n
    BY <1>1, <2>2
  <2> QED
    BY <2>1, <2>3
<1> HIDE DEF gone
<1>4. /\ DOMAIN Indexed(lru, n) = DOMAIN index \ gone
      /\ \A k \in DOMAIN index \ gone : Indexed(lru, n)[k] = index[k]
  BY <1>2
<1>5. \A k \in DOMAIN Indexed(lru, n) :
         \E i \in 1..n : /\ lru[i].id = Indexed(lru, n)[k]
                         /\ lru[i].key = k /\ lru[i].val = k
  BY <1>3, <1>4
<1>6. \A i \in 1..n : i \in DOMAIN lru
  BY <1>1
<1> QED
  BY <1>1, <1>4, <1>5, <1>6, KeepFront

(* The three facts about the list and the index, when nothing but the drop  *)
(* of entries from the back happens to them.                                *)
LEMMA DropInv ==
    ASSUME IInv, NEW n \in 0..Len(lru),
           lru' = SubSeq(lru, 1, n), index' = Indexed(lru, n), nodes' = nodes
    PROVE  /\ lru' \in Seq(Entry) /\ nodes' \in Nat /\ DOMAIN index' \subseteq Keys
           /\ NodesDiffer' /\ IndexIsLive'
<1>1. nodes \in Nat /\ DOMAIN index \subseteq Keys /\ NodesDiffer
  BY DEF IInv, Types
<1>2. /\ lru' \in Seq(Entry)
      /\ DOMAIN lru' = 1..n
      /\ \A i \in 1..n : lru'[i] = lru[i] /\ i \in DOMAIN lru
      /\ DOMAIN index' \subseteq DOMAIN index
      /\ \A k \in DOMAIN index' :
            \E i \in 1..n : lru[i].id = index'[k] /\ lru[i].key = k /\ lru[i].val = k
  BY DropKeeps
<1>3. NodesDiffer'
  BY <1>1, <1>2 DEF NodesDiffer
<1>4. IndexIsLive'
  <2> SUFFICES ASSUME NEW k \in DOMAIN index'
               PROVE  \E i \in DOMAIN lru' : /\ lru'[i].id = index'[k]
                                             /\ lru'[i].key = k /\ lru'[i].val = k
    BY DEF IndexIsLive
  <2>1. PICK i \in 1..n : lru[i].id = index'[k] /\ lru[i].key = k /\ lru[i].val = k
    BY <1>2
  <2>2. i \in DOMAIN lru' /\ lru'[i] = lru[i]
    BY <1>2
  <2> QED
    BY <2>1, <2>2
<1> QED
  BY <1>1, <1>2, <1>3, <1>4

(* The same with a new node for k in front, indexed or not. *)
LEMMA StoreInv ==
    ASSUME IInv, NEW n \in 0..Len(lru), NEW k \in Keys,
           lru' = InFront(k, n, k), nodes' = nodes + 1,
           \/ index' = PointedAt(Indexed(lru, n), k)
           \/ index' = Indexed(lru, n)
    PROVE  /\ lru' \in Seq(Entry) /\ nodes' \in Nat /\ DOMAIN index' \subseteq Keys
           /\ NodesDiffer' /\ IndexIsLive'
<1> DEFINE e == [id |-> nodes, key |-> k, val |-> k]
           ix == Indexed(lru, n)
<1>1. /\ lru \in Seq(Entry) /\ nodes \in Nat /\ DOMAIN index \subseteq Keys
      /\ NodesDiffer
  BY DEF IInv, Types
<1>2. e \in Entry /\ e.id = nodes /\ e.key = k /\ e.val = k
  BY <1>1 DEF Entry
<1>3. /\ lru' \in Seq(Entry)
      /\ DOMAIN lru' = 1..(n + 1)
      /\ lru'[1] = e
      /\ \A i \in 1..n : lru'[i + 1] = lru[i]
      /\ \A i \in 2..(n + 1) : lru'[i] = lru[i - 1] /\ i - 1 \in 1..n
  <2> HIDE DEF e
  <2>1. lru' = <<e>> \o SubSeq(lru, 1, n)
    BY DEF InFront, e
  <2> QED
    BY <1>1, <1>2, <2>1, PutInFront
<1> HIDE DEF e
<1>4. /\ \A i \in 1..n : i \in DOMAIN lru
      /\ DOMAIN ix \subseteq DOMAIN index
      /\ \A x \in DOMAIN ix :
            \E i \in 1..n : lru[i].id = ix[x] /\ lru[i].key = x /\ lru[i].val = x
  BY DropKeeps
<1> HIDE DEF ix
<1>5. \A i \in 1..n : i + 1 \in DOMAIN lru'
  BY <1>3
<1>6. \A i \in DOMAIN lru' : i = 1 \/ i \in 2..(n + 1)
  BY <1>3
<1>7. NodesDiffer'
  <2>1. \A i \in 2..(n + 1) : i - 1 \in DOMAIN lru /\ lru'[i] = lru[i - 1]
    BY <1>3, <1>4
  <2>2. \A i \in DOMAIN lru' : lru'[i].id < nodes' /\ lru'[i].val = lru'[i].key
    <3>1. \A i \in 2..(n + 1) : lru'[i].id < nodes + 1 /\ lru'[i].val = lru'[i].key
      <4>1. \A i \in DOMAIN lru : lru[i].id \in Nat
        BY <1>1, IdsAreNat
      <4> QED
        BY <1>1, <2>1, <4>1 DEF NodesDiffer
    <3> QED
      BY <1>1, <1>2, <1>3, <1>6, <3>1
  <2>3. ASSUME NEW i \in DOMAIN lru', NEW j \in DOMAIN lru', lru'[i].id = lru'[j].id
        PROVE  i = j
    <3>1. \A l \in 2..(n + 1) : lru'[l].id # nodes
      <4>1. \A l \in DOMAIN lru : lru[l].id \in Nat
        BY <1>1, IdsAreNat
      <4> QED
        BY <1>1, <2>1, <4>1 DEF NodesDiffer
    <3>2. CASE i = 1 \/ j = 1
      BY <1>2, <1>3, <1>6, <2>3, <3>1, <3>2
    <3>3. CASE i \in 2..(n + 1) /\ j \in 2..(n + 1)
      <4>1. i - 1 = j - 1
        BY <1>1, <2>1, <2>3, <3>3 DEF NodesDiffer
      <4> QED
        BY <3>3, <4>1
    <3> QED
      BY <1>6, <3>2, <3>3
  <2> QED
    BY <2>2, <2>3 DEF NodesDiffer
<1>8. ASSUME NEW x \in DOMAIN ix
      PROVE  \E i \in DOMAIN lru' : /\ lru'[i].id = ix[x]
                                    /\ lru'[i].key = x /\ lru'[i].val = x
  <2>1. PICK i \in 1..n : lru[i].id = ix[x] /\ lru[i].key = x /\ lru[i].val = x
    BY <1>4
  <2>2. i + 1 \in DOMAIN lru' /\ lru'[i + 1] = lru[i]
    BY <1>3, <1>5
  <2> QED
    BY <2>1, <2>2
<1>9. \/ index' = ix
      \/ /\ DOMAIN index' = DOMAIN ix \cup {k}
         /\ index'[k] = nodes
         /\ \A x \in DOMAIN ix \ {k} : index'[x] = ix[x]
  BY DEF ix, PointedAt
<1>10. IndexIsLive'
  <2>1. 1 \in DOMAIN lru' /\ lru'[1].id = nodes /\ lru'[1].key = k /\ lru'[1].val = k
    BY <1>2, <1>3
  <2> QED
    BY <1>8, <1>9, <2>1 DEF IndexIsLive
<1>11. DOMAIN index' \subseteq Keys
  BY <1>1, <1>4, <1>9
<1> QED
  BY <1>1, <1>3, <1>7, <1>10, <1>11

(* Where the entry at place p of the list came from, when entry i was       *)
(* spliced to the front.                                                    *)
From(i, p) == IF p = 1 THEN i ELSE IF p <= i THEN p - 1 ELSE p

(* The node a hit on k finds is that of k, and the list is a permutation.   *)
LEMMA TouchedIs ==
    ASSUME IInv, NEW k \in DOMAIN index, NEW i, i = Position(index[k])
    PROVE  /\ i \in DOMAIN lru /\ lru[i].id = index[k] /\ lru[i].key = k /\ lru[i].val = k
           /\ Touched(k) \in Seq(Entry)
           /\ DOMAIN Touched(k) = DOMAIN lru
           /\ \A p \in DOMAIN lru : From(i, p) \in DOMAIN lru /\ Touched(k)[p] = lru[From(i, p)]
           /\ \A p, q \in DOMAIN lru : From(i, p) = From(i, q) => p = q
           /\ \A j \in DOMAIN lru : \E p \in DOMAIN lru : From(i, p) = j
<1>1. lru \in Seq(Entry) /\ NodesDiffer /\ IndexIsLive
  BY DEF IInv, Types
<1>2. i \in DOMAIN lru /\ lru[i].id = index[k] /\ lru[i].key = k /\ lru[i].val = k
  <2>1. PICK j \in DOMAIN lru : lru[j].id = index[k] /\ lru[j].key = k /\ lru[j].val = k
    BY <1>1 DEF IndexIsLive
  <2>2. i \in DOMAIN lru /\ lru[i].id = index[k]
    BY <2>1 DEF Position
  <2>3. i = j
    BY <1>1, <2>1, <2>2 DEF NodesDiffer
  <2> QED
    BY <2>1, <2>3
<1> DEFINE r == <<lru[i]>> \o RemoveAt(lru, i)
<1>3. Touched(k) = r
  BY DEF Touched
<1>4. /\ r \in Seq(Entry)
      /\ DOMAIN r = DOMAIN lru
      /\ r[1] = lru[i]
      /\ \A j \in 1..(i - 1) : r[j + 1] = lru[j]
      /\ \A j \in (i + 1)..Len(lru) : r[j] = lru[j]
  BY <1>1, <1>2, SpliceToFront
<1> HIDE DEF r
<1>5. DOMAIN lru = 1..Len(lru) /\ Len(lru) \in Nat /\ i \in 1..Len(lru)
  BY <1>1, <1>2
<1>6. ASSUME NEW p \in DOMAIN lru
      PROVE  From(i, p) \in DOMAIN lru /\ r[p] = lru[From(i, p)]
  <2>1. CASE p = 1
    BY <1>2, <1>4, <2>1 DEF From
  <2>2. CASE p # 1 /\ p <= i
    <3>1. p - 1 \in 1..(i - 1) /\ (p - 1) + 1 = p /\ p - 1 \in DOMAIN lru
      BY <1>5, <2>2
    <3>2. r[p] = lru[p - 1]
      BY <1>4, <3>1
    <3> QED
      BY <2>2, <3>1, <3>2 DEF From
  <2>3. CASE p # 1 /\ ~(p <= i)
    <3>1. p \in (i + 1)..Len(lru)
      BY <1>5, <2>3
    <3> QED
      BY <1>4, <2>3, <3>1 DEF From
  <2> QED
    BY <2>1, <2>2, <2>3
<1>7. \A p, q \in DOMAIN lru : From(i, p) = From(i, q) => p = q
  BY <1>5 DEF From
<1>8. ASSUME NEW j \in DOMAIN lru
      PROVE  \E p \in DOMAIN lru : From(i, p) = j
  <2>1. CASE j = i
    BY <1>5, <2>1 DEF From
  <2>2. CASE j < i
    <3>1. j + 1 \in DOMAIN lru /\ From(i, j + 1) = j
      BY <1>5, <2>2 DEF From
    <3> QED
      BY <3>1
  <2>3. CASE j > i
    BY <1>5, <2>3 DEF From
  <2> QED
    BY <1>5, <2>1, <2>2, <2>3
<1> QED
  BY <1>2, <1>3, <1>4, <1>6, <1>7, <1>8

(* A hit serves the state of its key, and reorders the list only. *)
LEMMA HitInv ==
    ASSUME IInv, NEW k \in DOMAIN index,
           lru' = Touched(k), index' = index, nodes' = nodes
    PROVE  /\ lru' \in Seq(Entry) /\ nodes' \in Nat /\ DOMAIN index' \subseteq Keys
           /\ NodesDiffer' /\ IndexIsLive'
           /\ Served(k) = k
<1> DEFINE i == Position(index[k])
<1>1. nodes \in Nat /\ DOMAIN index \subseteq Keys /\ NodesDiffer /\ IndexIsLive
  BY DEF IInv, Types
<1>2. /\ i \in DOMAIN lru /\ lru[i].val = k
      /\ lru' \in Seq(Entry) /\ DOMAIN lru' = DOMAIN lru
      /\ \A p \in DOMAIN lru : From(i, p) \in DOMAIN lru /\ lru'[p] = lru[From(i, p)]
      /\ \A p, q \in DOMAIN lru : From(i, p) = From(i, q) => p = q
      /\ \A j \in DOMAIN lru : \E p \in DOMAIN lru : From(i, p) = j
  BY TouchedIs
<1>3. Served(k) = k
  BY <1>2 DEF Served
<1> HIDE DEF i
<1>4. NodesDiffer'
  <2>1. \A p \in DOMAIN lru' : lru'[p].id < nodes' /\ lru'[p].val = lru'[p].key
    BY <1>1, <1>2 DEF NodesDiffer
  <2>2. ASSUME NEW p \in DOMAIN lru', NEW q \in DOMAIN lru', lru'[p].id = lru'[q].id
        PROVE  p = q
    <3>1. /\ From(i, p) \in DOMAIN lru /\ From(i, q) \in DOMAIN lru
          /\ lru[From(i, p)].id = lru[From(i, q)].id
      BY <1>2, <2>2
    <3>2. From(i, p) = From(i, q)
      BY <1>1, <3>1 DEF NodesDiffer
    <3> QED
      BY <1>2, <3>2
  <2> QED
    BY <2>1, <2>2 DEF NodesDiffer
<1>5. \A j \in DOMAIN lru : \E p \in DOMAIN lru' : lru'[p] = lru[j]
  BY <1>2
<1>6. IndexIsLive'
  <2> SUFFICES ASSUME NEW x \in DOMAIN index
               PROVE  \E p \in DOMAIN lru' : /\ lru'[p].id = index[x]
                                             /\ lru'[p].key = x /\ lru'[p].val = x
    BY DEF IndexIsLive
  <2>1. PICK j \in DOMAIN lru : lru[j].id = index[x] /\ lru[j].key = x /\ lru[j].val = x
    BY <1>1 DEF IndexIsLive
  <2>2. PICK p \in DOMAIN lru' : lru'[p] = lru[j]
    BY <1>5
  <2> QED
    BY <2>1, <2>2
<1> QED
  BY <1>1, <1>2, <1>3, <1>4, <1>6

-----------------------------------------------------------------------------
(* What a step may do to the memo itself, and what to the callers. *)
MemoKept ==
    /\ lru' \in Seq(Entry) /\ nodes' \in Nat /\ DOMAIN index' \subseteq Keys
    /\ NodesDiffer' /\ IndexIsLive'

CallersKept ==
    /\ pc' \in [Threads -> {"idle", "bypass", "lookup", "build"} \cup Busy]
    /\ want' \in [Threads -> Keys \cup {NoKey}]
    /\ held' \in [Threads -> Keys \cup {NoKey}]
    /\ answer' \in [Threads -> Keys \cup {NoKey, Thrown}]
    /\ HoldsItsOwn'
    /\ [Pure!PureNext]_(Pure!pureVars)

LEMMA MemoUnchanged ==
    ASSUME IInv, lru' = lru, index' = index, nodes' = nodes
    PROVE  MemoKept
  BY DEF IInv, Types, MemoKept, NodesDiffer, IndexIsLive

LEMMA CallersUnchanged ==
    ASSUME IInv, UNCHANGED callVars
    PROVE  CallersKept
  BY DEF IInv, Types, CallersKept, HoldsItsOwn, callVars, Pure!pureVars

(* A return answers the call, with its own key or an exception. *)
LEMMA ReturnKeeps ==
    ASSUME IInv, NEW t \in Threads, pc[t] # "idle",
           NEW result \in {want[t], Thrown}, Return(t, result)
    PROVE  CallersKept
<1>1. /\ pc \in [Threads -> {"idle", "bypass", "lookup", "build"} \cup Busy]
      /\ want \in [Threads -> Keys \cup {NoKey}]
      /\ held \in [Threads -> Keys \cup {NoKey}]
      /\ answer \in [Threads -> Keys \cup {NoKey, Thrown}]
      /\ HoldsItsOwn
  BY DEF IInv, Types
<1>2. want[t] # NoKey
  BY <1>1 DEF HoldsItsOwn
<1>3. /\ pc' \in [Threads -> {"idle", "bypass", "lookup", "build"} \cup Busy]
      /\ want' \in [Threads -> Keys \cup {NoKey}]
      /\ held' \in [Threads -> Keys \cup {NoKey}]
      /\ answer' \in [Threads -> Keys \cup {NoKey, Thrown}]
  BY <1>1 DEF Return
<1>4. HoldsItsOwn'
  BY <1>1 DEF HoldsItsOwn, Return, Busy
<1>5. Pure!Reply(t)
  BY <1>2 DEF Pure!Reply, Return
<1> QED
  BY <1>3, <1>4, <1>5 DEF CallersKept, Pure!PureNext

(* Within a call only the place changes and what is held is its own. *)
LEMMA MovesOn ==
    ASSUME IInv, NEW t \in Threads, pc[t] # "idle",
           NEW label \in {"build"} \cup Busy,
           pc' = [pc EXCEPT ![t] = label],
           \/ held' = held /\ (label = "build" \/ pc[t] \in Busy)
           \/ held' = [held EXCEPT ![t] = want[t]],
           UNCHANGED <<want, answer>>
    PROVE  CallersKept
<1>1. /\ pc \in [Threads -> {"idle", "bypass", "lookup", "build"} \cup Busy]
      /\ want \in [Threads -> Keys \cup {NoKey}]
      /\ held \in [Threads -> Keys \cup {NoKey}]
      /\ answer \in [Threads -> Keys \cup {NoKey, Thrown}]
      /\ HoldsItsOwn
  BY DEF IInv, Types
<1>2. held' \in [Threads -> Keys \cup {NoKey}]
  BY <1>1
<1>3. HoldsItsOwn'
  BY <1>1 DEF HoldsItsOwn, Busy
<1> QED
  BY <1>1, <1>2, <1>3 DEF CallersKept, Pure!pureVars

LEMMA CallKeeps ==
    ASSUME IInv, NEW t \in Threads, NEW k \in Keys, Call(t, k)
    PROVE  MemoKept /\ CallersKept
<1>1. /\ pc \in [Threads -> {"idle", "bypass", "lookup", "build"} \cup Busy]
      /\ want \in [Threads -> Keys \cup {NoKey}]
      /\ held \in [Threads -> Keys \cup {NoKey}]
      /\ answer \in [Threads -> Keys \cup {NoKey, Thrown}]
      /\ HoldsItsOwn
  BY DEF IInv, Types
<1>2. want[t] = NoKey /\ k # NoKey
  BY <1>1, ConstantsAssumption DEF HoldsItsOwn, Call
<1>3. /\ pc' \in [Threads -> {"idle", "bypass", "lookup", "build"} \cup Busy]
      /\ want' \in [Threads -> Keys \cup {NoKey}]
      /\ held' = held /\ answer' = answer
  BY <1>1 DEF Call
<1>4. HoldsItsOwn'
  BY <1>1, <1>2 DEF HoldsItsOwn, Call, Busy
<1>5. Pure!Ask(t, k)
  BY <1>2 DEF Pure!Ask, Call
<1>6. CallersKept
  BY <1>1, <1>3, <1>4, <1>5 DEF CallersKept, Pure!PureNext
<1>7. MemoKept
  BY MemoUnchanged DEF Call, memoVars
<1> QED
  BY <1>6, <1>7

LEMMA RunKeeps ==
    ASSUME IInv, NEW t \in Threads, Run(t)
    PROVE  MemoKept /\ CallersKept
<1>1. /\ want \in [Threads -> Keys \cup {NoKey}]
      /\ pc[t] # "idle" => want[t] \in Keys
      /\ pc[t] \in Busy => held[t] = want[t]
  BY DEF IInv, Types, HoldsItsOwn
<1>2. CASE Bypass(t)
  BY <1>2, MemoUnchanged, ReturnKeeps DEF Bypass, memoVars
<1>3. CASE Hit(t)
  <2>1. MemoKept /\ Served(want[t]) = want[t]
    BY <1>3, HitInv DEF Hit, MemoKept
  <2>2. CallersKept
    BY <1>3, <2>1, MovesOn DEF Hit, Busy
  <2> QED
    BY <2>1, <2>2
<1>4. CASE Miss(t)
  BY <1>4, MemoUnchanged, MovesOn DEF Miss, GoTo, memoVars
<1>5. CASE Restore(t)
  <2>1. MemoKept
    BY <1>5, MemoUnchanged DEF Restore, memoVars
  <2>2. pc[t] \in Busy /\ pc[t] # "idle"
    BY <1>5 DEF Restore, Busy
  <2>3. CASE Return(t, Thrown)
    BY <2>1, <2>2, <2>3, ReturnKeeps
  <2>4. CASE Return(t, held[t])
    BY <1>1, <2>1, <2>2, <2>4, ReturnKeeps
  <2>5. CASE GoTo(t, "verify")
    BY <2>1, <2>2, <2>5, MovesOn DEF GoTo, Busy
  <2> QED
    BY <1>5, <2>3, <2>4, <2>5 DEF Restore
<1>6. CASE VerifyHit(t)
  <2>1. MemoKept
    BY <1>6, MemoUnchanged DEF VerifyHit, memoVars
  <2>2. pc[t] # "idle" /\ held[t] = want[t]
    BY <1>1, <1>6 DEF VerifyHit, Busy
  <2>3. Return(t, Thrown) \/ Return(t, want[t])
    BY <1>6, <2>2 DEF VerifyHit
  <2> QED
    BY <2>1, <2>2, <2>3, ReturnKeeps
<1>7. CASE Build(t)
  <2>1. MemoKept
    BY <1>7, MemoUnchanged DEF Build, memoVars
  <2>2. pc[t] # "idle"
    BY <1>7 DEF Build
  <2>3. CASE Return(t, Thrown) \/ Return(t, want[t])
    BY <2>1, <2>2, <2>3, ReturnKeeps
  <2>4. CASE /\ held' = [held EXCEPT ![t] = want[t]]
             /\ pc' = [pc EXCEPT ![t] = "admit"]
             /\ UNCHANGED <<want, answer>>
    BY <2>1, <2>2, <2>4, MovesOn DEF Busy
  <2> QED
    BY <1>7, <2>3, <2>4 DEF Build
<1>8. CASE Admit(t)
  <2>1. MemoKept
    BY <1>8, MemoUnchanged DEF Admit, memoVars
  <2>2. pc[t] \in Busy /\ pc[t] # "idle"
    BY <1>8 DEF Admit, Busy
  <2>3. CASE Return(t, held[t])
    BY <1>1, <2>1, <2>2, <2>3, ReturnKeeps
  <2>4. CASE GoTo(t, "capture")
    BY <2>1, <2>2, <2>4, MovesOn DEF GoTo, Busy
  <2> QED
    BY <1>8, <2>3, <2>4 DEF Admit
<1>9. CASE Capture(t)
  <2>1. MemoKept
    BY <1>9, MemoUnchanged DEF Capture, memoVars
  <2>2. pc[t] \in Busy /\ pc[t] # "idle"
    BY <1>9 DEF Capture, Busy
  <2>3. CASE Return(t, Thrown)
    BY <2>1, <2>2, <2>3, ReturnKeeps
  <2>4. CASE GoTo(t, "store")
    BY <2>1, <2>2, <2>4, MovesOn DEF GoTo, Busy
  <2> QED
    BY <1>9, <2>3, <2>4 DEF Capture
<1>10. CASE StoreSkips(t)
  <2>1. MemoKept
    BY <1>10, MemoUnchanged DEF StoreSkips, memoVars
  <2>2. pc[t] # "idle" /\ held[t] = want[t] /\ Return(t, held[t])
    BY <1>1, <1>10 DEF StoreSkips, Busy
  <2> QED
    BY <2>1, <2>2, ReturnKeeps
<1>11. CASE Store(t)
  <2>1. PICK n \in 0..Len(lru) :
           /\ StoresNow(t, n)
           /\ lru' = InFront(want[t], n, held[t])
           /\ index' = PointedAt(Indexed(lru, n), want[t])
           /\ nodes' = nodes + 1
           /\ Return(t, held[t])
    BY <1>11 DEF Store
  <2>2. pc[t] # "idle" /\ held[t] = want[t] /\ want[t] \in Keys
    BY <1>1, <2>1 DEF StoresNow, Busy
  <2>3. MemoKept
    BY <2>1, <2>2, StoreInv DEF MemoKept
  <2> QED
    BY <2>1, <2>2, <2>3, ReturnKeeps
<1>12. CASE StoreNoNode(t)
  <2>1. PICK n \in 0..Len(lru) :
           /\ StoresNow(t, n)
           /\ lru' = SubSeq(lru, 1, n)
           /\ index' = Indexed(lru, n)
           /\ nodes' = nodes
           /\ Return(t, Thrown)
    BY <1>12 DEF StoreNoNode
  <2>2. pc[t] # "idle"
    BY <2>1 DEF StoresNow
  <2>3. MemoKept
    BY <2>1, DropInv DEF MemoKept
  <2> QED
    BY <2>1, <2>2, <2>3, ReturnKeeps
<1>13. CASE StoreNoIndex(t)
  <2>1. PICK n \in 0..Len(lru) :
           /\ StoresNow(t, n)
           /\ lru' = InFront(want[t], n, held[t])
           /\ index' = Indexed(lru, n)
           /\ nodes' = nodes + 1
           /\ Return(t, Thrown)
    BY <1>13 DEF StoreNoIndex
  <2>2. pc[t] # "idle" /\ held[t] = want[t] /\ want[t] \in Keys
    BY <1>1, <2>1 DEF StoresNow, Busy
  <2>3. MemoKept
    BY <2>1, <2>2, StoreInv DEF MemoKept
  <2> QED
    BY <2>1, <2>2, <2>3, ReturnKeeps
<1> QED
  BY <1>2, <1>3, <1>4, <1>5, <1>6, <1>7, <1>8, <1>9, <1>10, <1>11, <1>12, <1>13 DEF Run

LEMMA SetCapsKeeps ==
    ASSUME IInv, NEW entries, NEW total, SetCaps(entries, total)
    PROVE  MemoKept /\ CallersKept
<1>1. PICK n \in 0..Len(lru) : lru' = SubSeq(lru, 1, n) /\ index' = Indexed(lru, n)
  BY DEF SetCaps
<1>2. nodes' = nodes /\ UNCHANGED callVars
  BY DEF SetCaps
<1>3. MemoKept
  BY <1>1, <1>2, DropInv DEF MemoKept
<1> QED
  BY <1>2, <1>3, CallersUnchanged

LEMMA ClearKeeps ==
    ASSUME IInv, Clear
    PROVE  MemoKept /\ CallersKept
<1>1. lru' = <<>> /\ index' = <<>> /\ nodes' = nodes /\ UNCHANGED callVars
  BY DEF Clear
<1>2. MemoKept
  BY <1>1 DEF MemoKept, NodesDiffer, IndexIsLive, IInv, Types
<1> QED
  BY <1>1, <1>2, CallersUnchanged

LEMMA NextKeeps == IInv /\ [Next]_vars => MemoKept /\ CallersKept
<1> SUFFICES ASSUME IInv, [Next]_vars
             PROVE  MemoKept /\ CallersKept
  OBVIOUS
<1>1. CASE \E t \in Threads : Run(t) \/ \E k \in Keys : Call(t, k)
  BY <1>1, RunKeeps, CallKeeps
<1>2. CASE \E c \in CapChoices : SetCaps(c[1], c[2])
  BY <1>2, SetCapsKeeps
<1>3. CASE \E c \in EntryCaps : SetEntryCap(c)
  BY <1>3, MemoUnchanged, CallersUnchanged DEF SetEntryCap
<1>4. CASE Clear
  BY <1>4, ClearKeeps
<1>5. CASE UNCHANGED vars
  BY <1>5, MemoUnchanged, CallersUnchanged DEF vars, memoVars
<1> QED
  BY <1>1, <1>2, <1>3, <1>4, <1>5 DEF Next

LEMMA IInvAlways == Spec => []IInv
<1>1. IInv /\ [Next]_vars => IInv'
  BY NextKeeps DEF MemoKept, CallersKept, IInv, Types
<1> QED
  BY InitIInv, <1>1, PTL DEF Spec

(* The index never dangles: store, the eviction before it, a cap change and *)
(* the two allocation failures inside store never leave a key that points   *)
(* outside the list or to another key's state.                              *)
THEOREM IndexNeverDangles == Spec => []IndexIsLive
<1>1. IInv => IndexIsLive
  BY DEF IInv
<1> QED
  BY IInvAlways, <1>1, PTL

(* The memo is invisible: whatever other threads store, drop or clear       *)
(* meanwhile, a call of build_bare_state_framed is answered with the state  *)
(* of its own key or by an exception.                                       *)
THEOREM MemoIsInvisible == Spec => Pure!PureInit /\ [][Pure!PureNext]_(Pure!pureVars)
<1>1. Init => Pure!PureInit
  BY DEF Init, Pure!PureInit
<1>2. IInv /\ [Next]_vars => [Pure!PureNext]_(Pure!pureVars)
  BY NextKeeps DEF CallersKept
<1> QED
  BY IInvAlways, <1>1, <1>2, PTL DEF Spec

-----------------------------------------------------------------------------
(* The bytes of a list of entries. *)
Weights(list) == [i \in DOMAIN list |-> EntryBytes[list[i].val]]

LEMMA HeldIs ==
    ASSUME NEW s \in Seq(Entry)
    PROVE  /\ IsFiniteSet(DOMAIN s) /\ DOMAIN s = 1..Len(s) /\ Len(s) \in Nat
           /\ \A i \in DOMAIN s : Weights(s)[i] = EntryBytes[s[i].val]
           /\ \A i \in DOMAIN s : Weights(s)[i] \in Nat
           /\ Held(s) = SumFunctionOnSet(Weights(s), DOMAIN s)
           /\ Held(s) \in Nat
<1>1. DOMAIN s = 1..Len(s) /\ Len(s) \in Nat
  OBVIOUS
<1>2. IsFiniteSet(DOMAIN s)
  BY <1>1, FS_Interval
<1>3. ASSUME NEW i \in DOMAIN s PROVE EntryBytes[s[i].val] \in Nat
  <2>1. s[i] \in Entry
    OBVIOUS
  <2> QED
    BY <2>1, ConstantsAssumption DEF Entry
<1>4. \A i \in DOMAIN s : /\ Weights(s)[i] = EntryBytes[s[i].val]
                          /\ Weights(s)[i] \in Nat
  BY <1>3 DEF Weights
<1>5. Held(s) = SumFunctionOnSet(Weights(s), DOMAIN s)
  BY DEF Held, SumFunction, Weights
<1>6. Held(s) \in Nat
  BY <1>2, <1>4, <1>5, SumNat
<1> QED
  BY <1>1, <1>2, <1>4, <1>5, <1>6

(* Entries of one list found at other places of another. *)
Renames(p, r, s, T) ==
    /\ T \subseteq DOMAIN s
    /\ \A x \in DOMAIN r : p[x] \in T /\ r[x] = s[p[x]]
    /\ \A x, y \in DOMAIN r : p[x] = p[y] => x = y
    /\ \A y \in T : \E x \in DOMAIN r : p[x] = y

LEMMA HeldRenamed ==
    ASSUME NEW r \in Seq(Entry), NEW s \in Seq(Entry), NEW p, NEW T, Renames(p, r, s, T)
    PROVE  SumFunctionOnSet(Weights(s), T) = Held(r)
<1> USE DEF Renames
<1>1. IsFiniteSet(DOMAIN r) /\ Held(r) = SumFunctionOnSet(Weights(r), DOMAIN r)
  BY HeldIs
<1>2. \A x \in DOMAIN r : Weights(r)[x] \in Int /\ Weights(s)[p[x]] = Weights(r)[x]
  <2>1. \A x \in DOMAIN r : Weights(r)[x] = EntryBytes[r[x].val] /\ Weights(r)[x] \in Nat
    BY HeldIs
  <2>2. \A x \in DOMAIN s : Weights(s)[x] = EntryBytes[s[x].val]
    BY HeldIs
  <2> QED
    BY <2>1, <2>2
<1>3. SumFunctionOnSet(Weights(s), {p[x] : x \in DOMAIN r})
        = SumFunctionOnSet(Weights(r), DOMAIN r)
  BY <1>1, <1>2, SumRenamed
<1>4. {p[x] : x \in DOMAIN r} = T
  OBVIOUS
<1> QED
  BY <1>1, <1>3, <1>4

(* The entries kept and the entries dropped hold what all hold. *)
LEMMA HeldSplits ==
    ASSUME NEW s \in Seq(Entry), NEW n \in 0..Len(s)
    PROVE  Held(s) = Held(SubSeq(s, 1, n)) + Held(SubSeq(s, n + 1, Len(s)))
<1> DEFINE kept == SubSeq(s, 1, n)
           rest == SubSeq(s, n + 1, Len(s))
           A == 1..n
           B == (n + 1)..Len(s)
           p == [x \in DOMAIN rest |-> x + n]
           w == Weights(s)
<1>1. /\ kept \in Seq(Entry) /\ DOMAIN kept = A /\ \A x \in A : kept[x] = s[x]
      /\ Len(s) \in Nat /\ DOMAIN s = 1..Len(s) /\ A \subseteq DOMAIN s /\ B \subseteq DOMAIN s
  BY KeepFront
<1>2. /\ rest \in Seq(Entry) /\ DOMAIN rest = 1..(Len(s) - n)
      /\ \A x \in DOMAIN rest : rest[x] = s[x + n]
  OBVIOUS
<1>3. SumFunctionOnSet(w, A) = Held(kept)
  <2> DEFINE q == [x \in A |-> x]
  <2>1. Renames(q, kept, s, A)
    BY <1>1 DEF Renames
  <2> HIDE DEF q, kept, A
  <2> QED
    BY <1>1, <2>1, HeldRenamed
<1>4. SumFunctionOnSet(w, B) = Held(rest)
  <2>1. /\ \A x \in DOMAIN rest : p[x] \in B /\ rest[x] = s[p[x]]
        /\ \A x, y \in DOMAIN rest : p[x] = p[y] => x = y
    BY <1>1, <1>2
  <2>2. \A y \in B : \E x \in DOMAIN rest : p[x] = y
    <3>1. \A y \in B : y - n \in DOMAIN rest /\ p[y - n] = y
      BY <1>1, <1>2
    <3> QED
      BY <3>1
  <2> HIDE DEF p, B, rest
  <2>3. Renames(p, rest, s, B)
    BY <1>1, <2>1, <2>2 DEF Renames
  <2> QED
    BY <1>2, <2>3, HeldRenamed
<1>5. A \cup B = DOMAIN s /\ A \cap B = {}
  BY <1>1
<1>6. IsFiniteSet(A) /\ IsFiniteSet(B)
  BY <1>1, FS_Interval
<1>7. \A x \in A \cup B : w[x] \in Int
  BY <1>5, HeldIs
<1> HIDE DEF A, B, w, kept, rest
<1>8. SumFunctionOnSet(w, A \cup B) = SumFunctionOnSet(w, A) + SumFunctionOnSet(w, B)
  BY <1>5, <1>6, <1>7, SumUnion
<1>9. Held(s) = SumFunctionOnSet(w, A \cup B)
  BY <1>5, HeldIs DEF w
<1>10. Held(s) = Held(kept) + Held(rest)
  BY <1>3, <1>4, <1>8, <1>9
<1> QED
  BY <1>10 DEF kept, rest

(* A new entry in front adds its bytes. *)
LEMMA HeldInFront ==
    ASSUME NEW s \in Seq(Entry), NEW n \in 0..Len(s), NEW e \in Entry
    PROVE  Held(<<e>> \o SubSeq(s, 1, n)) = EntryBytes[e.val] + Held(SubSeq(s, 1, n))
<1> DEFINE kept == SubSeq(s, 1, n)
           r == <<e>> \o kept
           p == [x \in 1..n |-> x + 1]
<1>1. /\ kept \in Seq(Entry) /\ DOMAIN kept = 1..n /\ n \in Nat
      /\ r \in Seq(Entry) /\ DOMAIN r = 1..(n + 1) /\ r[1] = e
      /\ \A x \in 1..n : r[x + 1] = kept[x]
  BY KeepFront, PutInFront
<1>2. \A y \in DOMAIN r \ {1} : \E x \in DOMAIN kept : p[x] = y
  <2>1. \A y \in DOMAIN r \ {1} : y - 1 \in 1..n /\ p[y - 1] = y
    BY <1>1
  <2> QED
    BY <1>1, <2>1
<1>3. \A x \in DOMAIN kept : p[x] \in DOMAIN r \ {1} /\ kept[x] = r[p[x]]
  BY <1>1
<1>4. \A x, y \in DOMAIN kept : p[x] = p[y] => x = y
  BY <1>1
<1>5. 1 \in DOMAIN r /\ DOMAIN r \ {1} \subseteq DOMAIN r
  BY <1>1
<1> HIDE DEF p, r, kept
<1>6. SumFunctionOnSet(Weights(r), DOMAIN r \ {1}) = Held(kept)
  <2>1. Renames(p, kept, r, DOMAIN r \ {1})
    BY <1>2, <1>3, <1>4, <1>5 DEF Renames
  <2> QED
    BY <1>1, <2>1, HeldRenamed
<1>7. /\ IsFiniteSet(DOMAIN r) /\ \A x \in DOMAIN r : Weights(r)[x] \in Int
      /\ Weights(r)[1] = EntryBytes[e.val]
      /\ Held(r) = SumFunctionOnSet(Weights(r), DOMAIN r)
  <2>1. \A x \in DOMAIN r : Weights(r)[x] \in Nat /\ Weights(r)[x] = EntryBytes[r[x].val]
    BY <1>1, HeldIs
  <2> QED
    BY <1>1, <1>5, <2>1, HeldIs
<1>8. SumFunctionOnSet(Weights(r), DOMAIN r)
        = Weights(r)[1] + SumFunctionOnSet(Weights(r), DOMAIN r \ {1})
  BY <1>5, <1>7, SumRemove
<1>9. Held(r) = EntryBytes[e.val] + Held(kept)
  BY <1>6, <1>7, <1>8
<1> QED
  BY <1>9 DEF r, kept

LEMMA SameLength ==
    ASSUME NEW a \in Nat, NEW b \in Nat, 1..a = 1..b
    PROVE  a = b
<1>1. CASE a < b
  <2>1. b \in 1..b /\ b \notin 1..a
    BY <1>1
  <2> QED
    BY <2>1
<1>2. CASE b < a
  <2>1. a \in 1..a /\ a \notin 1..b
    BY <1>2
  <2> QED
    BY <2>1
<1> QED
  BY <1>1, <1>2

(* A hit only reorders the list. *)
LEMMA HeldTouched ==
    ASSUME IInv, NEW k \in DOMAIN index
    PROVE  /\ Len(Touched(k)) = Len(lru)
           /\ Held(Touched(k)) = Held(lru)
<1> DEFINE i == Position(index[k])
           r == Touched(k)
           p == [x \in DOMAIN lru |-> From(i, x)]
<1>1. lru \in Seq(Entry)
  BY DEF IInv, Types
<1>2. /\ r \in Seq(Entry) /\ DOMAIN r = DOMAIN lru
      /\ \A x \in DOMAIN lru : From(i, x) \in DOMAIN lru /\ r[x] = lru[From(i, x)]
      /\ \A x, y \in DOMAIN lru : From(i, x) = From(i, y) => x = y
      /\ \A j \in DOMAIN lru : \E x \in DOMAIN lru : From(i, x) = j
  BY TouchedIs
<1>3. Renames(p, r, lru, DOMAIN lru)
  <2>1. \A x \in DOMAIN lru : p[x] = From(i, x)
    OBVIOUS
  <2> HIDE DEF r, i, p
  <2>2. \A x \in DOMAIN r : p[x] \in DOMAIN lru /\ r[x] = lru[p[x]]
    BY <1>2, <2>1
  <2>3. \A x, y \in DOMAIN r : p[x] = p[y] => x = y
    BY <1>2, <2>1
  <2>4. \A y \in DOMAIN lru : \E x \in DOMAIN r : p[x] = y
    BY <1>2, <2>1
  <2> QED
    BY <2>2, <2>3, <2>4 DEF Renames
<1> HIDE DEF p, r, i
<1>5. Held(r) = Held(lru)
  <2>1. SumFunctionOnSet(Weights(lru), DOMAIN lru) = Held(r)
    BY <1>1, <1>2, <1>3, HeldRenamed
  <2> QED
    BY <1>1, <2>1, HeldIs
<1>6. Len(r) = Len(lru)
  <2>1. /\ DOMAIN r = 1..Len(r) /\ DOMAIN lru = 1..Len(lru)
        /\ Len(r) \in Nat /\ Len(lru) \in Nat
    BY <1>1, <1>2, HeldIs
  <2> QED
    BY <1>2, <2>1, SameLength
<1> QED
  BY <1>5, <1>6 DEF r

-----------------------------------------------------------------------------
(* The types of the rest, and the caps: what is held fits them, and is all  *)
(* in the byte count.                                                       *)
CountTypes ==
    /\ caps \in [entries : Nat, bytes : Nat, entry : Nat]
    /\ bytes \in Nat
    /\ fails \in Nat
    /\ clock \in Nat
    /\ lastUse \in [Keys -> Nat]

Ledger == CountTypes /\ CapsHold

(* Dropping what is behind the first n entries frees just their bytes. *)
LEMMA DropAccount ==
    ASSUME IInv, Ledger, NEW n \in 0..Len(lru)
    PROVE  LET kept == SubSeq(lru, 1, n)
           IN  /\ kept \in Seq(Entry) /\ Len(kept) = n /\ n \in Nat
               /\ Held(kept) \in Nat /\ bytes - Freed(n) \in Nat
               /\ Held(kept) <= bytes - Freed(n)
               /\ Held(kept) <= Held(lru)
               /\ fails = 0 => bytes - Freed(n) = Held(kept)
               /\ n = 0 => Held(kept) = 0
<1> DEFINE kept == SubSeq(lru, 1, n)
           rest == SubSeq(lru, n + 1, Len(lru))
<1>1. lru \in Seq(Entry)
  BY DEF IInv, Types
<1>2. kept \in Seq(Entry) /\ rest \in Seq(Entry) /\ Len(kept) = n /\ n \in Nat
  BY <1>1
<1>3. Freed(n) = Held(rest) /\ Held(lru) = Held(kept) + Held(rest)
  BY <1>1, HeldSplits DEF Freed
<1>4. Held(lru) \in Nat /\ Held(kept) \in Nat /\ Held(rest) \in Nat
  BY <1>1, <1>2, HeldIs
<1>5. bytes \in Nat /\ Held(lru) <= bytes /\ (fails = 0 => bytes = Held(lru))
  BY DEF Ledger, CountTypes, CapsHold
<1>6. n = 0 => Held(kept) = 0
  <2>1. n = 0 => DOMAIN kept = {}
    BY <1>1, KeepFront
  <2>2. Held(kept) = SumFunctionOnSet(Weights(kept), DOMAIN kept)
    BY <1>2, HeldIs
  <2> HIDE DEF kept
  <2> QED
    BY <2>1, <2>2, SumEmpty
<1> HIDE DEF kept, rest
<1>7. /\ kept \in Seq(Entry) /\ Len(kept) = n /\ n \in Nat
      /\ Held(kept) \in Nat /\ bytes - Freed(n) \in Nat
      /\ Held(kept) <= bytes - Freed(n) /\ Held(kept) <= Held(lru)
      /\ fails = 0 => bytes - Freed(n) = Held(kept)
  BY <1>2, <1>3, <1>4, <1>5
<1> QED
  BY <1>6, <1>7 DEF kept

(* Room is made, the bytes of the key charged: the entry fits, and every    *)
(* byte held is charged, whether the node gets there or not.                *)
LEMMA StoreAccount ==
    ASSUME IInv, Ledger, NEW t \in Threads, NEW n \in 0..Len(lru), StoresNow(t, n),
           want[t] \in Keys
    PROVE  LET kept == SubSeq(lru, 1, n)
               room == EntryBytes[want[t]]
           IN  /\ bytes' \in Nat /\ room \in Nat /\ caps' = caps
               /\ Len(kept) = n /\ n + 1 <= caps.entries /\ n <= caps.entries
               /\ Held(kept) + room <= caps.bytes /\ Held(kept) <= caps.bytes
               /\ Held(kept) + room <= bytes' /\ Held(kept) <= bytes'
               /\ fails = 0 => bytes' = Held(kept) + room
<1> DEFINE kept == SubSeq(lru, 1, n)
           room == EntryBytes[want[t]]
<1>1. /\ Len(kept) = n /\ n \in Nat /\ Held(kept) \in Nat /\ bytes - Freed(n) \in Nat
      /\ Held(kept) <= bytes - Freed(n)
      /\ fails = 0 => bytes - Freed(n) = Held(kept)
      /\ n = 0 => Held(kept) = 0
  BY DropAccount
<1>2. room \in Nat
  BY ConstantsAssumption
<1>3. bytes' = (bytes - Freed(n)) + room /\ caps' = caps
  BY DEF StoresNow, Charged
<1>4. caps.entries \in Nat /\ caps.bytes \in Nat
  BY DEF Ledger, CountTypes
<1>5. caps.entries # 0 /\ room <= caps.bytes
  BY <1>2, <1>4 DEF StoresNow, OverCaps
<1>6. n = 0 \/ (n <= caps.entries - 1 /\ bytes - Freed(n) <= caps.bytes - room)
  BY DEF StoresNow, MakesRoom, StopsAt, Fits
<1> HIDE DEF kept, room
<1>7. n + 1 <= caps.entries /\ Held(kept) + room <= caps.bytes
  BY <1>1, <1>2, <1>4, <1>5, <1>6
<1>8. /\ bytes' \in Nat /\ Held(kept) + room <= bytes' /\ Held(kept) <= bytes'
      /\ Held(kept) <= caps.bytes /\ n <= caps.entries
      /\ fails = 0 => bytes' = Held(kept) + room
  BY <1>1, <1>2, <1>3, <1>4, <1>7
<1> QED
  BY <1>1, <1>2, <1>3, <1>7, <1>8 DEF kept, room

(* The history moves on by one moment. *)
LEMMA UsedTypes ==
    ASSUME CountTypes, NEW k \in Keys, Used(k)
    PROVE  clock' \in Nat /\ lastUse' \in [Keys -> Nat]
  BY DEF CountTypes, Used

LEMMA LedgerUnchanged ==
    ASSUME Ledger, UNCHANGED memoVars, fails' = fails
    PROVE  Ledger'
  BY DEF Ledger, CountTypes, CapsHold, Held, memoVars

LEMMA StoreKeepsLedger ==
    ASSUME IInv, Ledger, NEW t \in Threads, Store(t) \/ StoreNoNode(t) \/ StoreNoIndex(t)
    PROVE  Ledger'
<1>1. PICK n \in 0..Len(lru) :
         /\ StoresNow(t, n)
         /\ \/ /\ lru' = InFront(want[t], n, held[t]) /\ Used(want[t])
               /\ fails' = fails \/ fails' = fails + 1
            \/ /\ lru' = SubSeq(lru, 1, n) /\ UNCHANGED <<lastUse, clock>>
               /\ fails' = fails + 1
  BY DEF Store, StoreNoNode, StoreNoIndex
<1>2. want[t] \in Keys /\ held[t] = want[t] /\ nodes \in Nat /\ lru \in Seq(Entry)
  BY <1>1 DEF StoresNow, IInv, Types, HoldsItsOwn, Busy
<1> DEFINE kept == SubSeq(lru, 1, n)
           room == EntryBytes[want[t]]
<1>3. /\ bytes' \in Nat /\ room \in Nat /\ caps' = caps
      /\ Len(kept) = n /\ n + 1 <= caps.entries /\ n <= caps.entries
      /\ Held(kept) + room <= caps.bytes /\ Held(kept) <= caps.bytes
      /\ Held(kept) + room <= bytes' /\ Held(kept) <= bytes'
      /\ fails = 0 => bytes' = Held(kept) + room
  BY <1>1, <1>2, StoreAccount
<1>4. Held(kept) \in Nat
  BY <1>2, HeldIs, KeepFront
<1>5. fails \in Nat /\ fails' \in Nat
  BY <1>1 DEF Ledger, CountTypes
<1>6. CASE lru' = SubSeq(lru, 1, n) /\ UNCHANGED <<lastUse, clock>> /\ fails' = fails + 1
  <2>1. CapsHold'
    BY <1>3, <1>5, <1>6 DEF CapsHold
  <2> QED
    BY <1>3, <1>5, <1>6, <2>1 DEF Ledger, CountTypes
<1>7. CASE /\ lru' = InFront(want[t], n, held[t]) /\ Used(want[t])
           /\ fails' = fails \/ fails' = fails + 1
  <2> DEFINE e == [id |-> nodes, key |-> want[t], val |-> held[t]]
  <2>1. e \in Entry /\ e.val = want[t]
    BY <1>2 DEF Entry
  <2>2. lru' = <<e>> \o kept
    BY <1>7 DEF InFront
  <2> HIDE DEF e
  <2>3. Held(lru') = room + Held(kept)
    BY <1>2, <2>1, <2>2, HeldInFront
  <2>4. Len(lru') = n + 1
    BY <1>2, <1>3, <2>1, <2>2
  <2>5. Held(lru)' = Held(lru')
    BY DEF Held
  <2> HIDE DEF kept, room
  <2>6. CapsHold'
    BY <1>3, <1>4, <1>5, <1>7, <2>3, <2>4, <2>5 DEF CapsHold
  <2>7. clock' \in Nat /\ lastUse' \in [Keys -> Nat]
    BY <1>2, <1>7, UsedTypes DEF Ledger
  <2> QED
    BY <1>3, <1>5, <2>6, <2>7 DEF Ledger, CountTypes
<1> QED
  BY <1>1, <1>6, <1>7

LEMMA RunKeepsLedger ==
    ASSUME IInv, Ledger, NEW t \in Threads, Run(t)
    PROVE  Ledger'
<1>1. CASE Hit(t)
  <2>1. /\ lru' = Touched(want[t]) /\ Used(want[t]) /\ want[t] \in DOMAIN index
        /\ UNCHANGED <<bytes, caps, fails>>
    BY <1>1 DEF Hit
  <2>2. want[t] \in Keys
    BY <2>1 DEF IInv, Types
  <2>3. Len(lru') = Len(lru) /\ Held(lru') = Held(lru)
    BY <2>1, HeldTouched
  <2>4. CapsHold'
    BY <2>1, <2>3 DEF Ledger, CapsHold, Held
  <2>5. clock' \in Nat /\ lastUse' \in [Keys -> Nat]
    BY <2>1, <2>2, UsedTypes DEF Ledger
  <2> QED
    BY <2>1, <2>4, <2>5 DEF Ledger, CountTypes
<1>2. CASE Store(t) \/ StoreNoNode(t) \/ StoreNoIndex(t)
  BY <1>2, StoreKeepsLedger
<1>3. CASE \/ Bypass(t) \/ Miss(t) \/ Restore(t) \/ VerifyHit(t)
           \/ Build(t) \/ Admit(t) \/ Capture(t) \/ StoreSkips(t)
  <2>1. UNCHANGED memoVars /\ fails' = fails
    BY <1>3 DEF Bypass, Miss, Restore, VerifyHit, Build, Admit, Capture, StoreSkips
  <2> QED
    BY <2>1, LedgerUnchanged
<1> QED
  BY <1>1, <1>2, <1>3 DEF Run

LEMMA SettingKeepsLedger ==
    ASSUME IInv, Ledger,
           \/ \E c \in CapChoices : SetCaps(c[1], c[2])
           \/ \E c \in EntryCaps : SetEntryCap(c)
           \/ Clear
    PROVE  Ledger'
<1> USE DEF Ledger
<1>1. CASE \E c \in CapChoices : SetCaps(c[1], c[2])
  <2>1. PICK c \in CapChoices : SetCaps(c[1], c[2])
    BY <1>1
  <2>2. c[1] \in Nat /\ c[2] \in Nat
    BY ConstantsAssumption
  <2>3. PICK n \in 0..Len(lru) :
           /\ StopsAt(n, c[1], c[2])
           /\ lru' = SubSeq(lru, 1, n) /\ bytes' = bytes - Freed(n)
    BY <2>1 DEF SetCaps
  <2>4. /\ caps' = [caps EXCEPT !.entries = c[1], !.bytes = c[2]]
        /\ UNCHANGED <<lastUse, clock, fails>>
    BY <2>1 DEF SetCaps
  <2>5. /\ caps' \in [entries : Nat, bytes : Nat, entry : Nat]
        /\ caps'.entries = c[1] /\ caps'.bytes = c[2]
    BY <2>2, <2>4 DEF CountTypes
  <2>6. /\ Len(lru') = n /\ n \in Nat /\ Held(lru') \in Nat /\ bytes' \in Nat
        /\ Held(lru') <= bytes' /\ (fails = 0 => bytes' = Held(lru'))
        /\ n = 0 => Held(lru') = 0
    BY <2>3, DropAccount
  <2>7. n = 0 \/ (n <= c[1] /\ bytes' <= c[2])
    BY <2>3 DEF StopsAt, Fits
  <2>8. n <= c[1] /\ Held(lru') <= c[2]
    BY <2>2, <2>6, <2>7
  <2>9. CapsHold'
    BY <2>4, <2>5, <2>6, <2>8 DEF CapsHold, Held
  <2> QED
    BY <2>4, <2>5, <2>6, <2>9 DEF CountTypes
<1>2. CASE \E c \in EntryCaps : SetEntryCap(c)
  <2>1. PICK c \in EntryCaps : SetEntryCap(c)
    BY <1>2
  <2>2. c \in Nat
    BY ConstantsAssumption
  <2>3. /\ caps' = [caps EXCEPT !.entry = c]
        /\ UNCHANGED <<lru, bytes, lastUse, clock, fails>>
    BY <2>1 DEF SetEntryCap
  <2>4. /\ caps' \in [entries : Nat, bytes : Nat, entry : Nat]
        /\ caps'.entries = caps.entries /\ caps'.bytes = caps.bytes
    BY <2>2, <2>3 DEF CountTypes
  <2> QED
    BY <2>3, <2>4 DEF CountTypes, CapsHold, Held
<1>3. CASE Clear
  <2>1. lru' = <<>> /\ bytes' = 0 /\ UNCHANGED <<caps, lastUse, clock, fails>>
    BY <1>3 DEF Clear
  <2>2. lru' \in Seq(Entry) /\ Len(lru') = 0 /\ DOMAIN lru' = {}
    BY <2>1
  <2>3. Held(lru') = 0
    BY <2>2, HeldIs, SumEmpty
  <2> QED
    BY <2>1, <2>2, <2>3 DEF CountTypes, CapsHold, Held
<1> QED
  BY <1>1, <1>2, <1>3

LEMMA InitLedger == Init => Ledger
<1> SUFFICES ASSUME Init PROVE Ledger
  OBVIOUS
<1>1. lru \in Seq(Entry) /\ Len(lru) = 0 /\ DOMAIN lru = {}
  BY DEF Init
<1>2. Held(lru) = 0
  BY <1>1, HeldIs, SumEmpty
<1> QED
  BY <1>1, <1>2, ConstantsAssumption DEF Init, Ledger, CountTypes, CapsHold

LEMMA LedgerAlways == Spec => []Ledger
<1>1. IInv /\ Ledger /\ [Next]_vars => Ledger'
  <2> SUFFICES ASSUME IInv, Ledger, [Next]_vars PROVE Ledger'
    OBVIOUS
  <2>1. CASE \E t \in Threads : Run(t)
    BY <2>1, RunKeepsLedger
  <2>2. CASE \E t \in Threads, k \in Keys : Call(t, k)
    BY <2>2, LedgerUnchanged DEF Call
  <2>3. CASE \/ \E c \in CapChoices : SetCaps(c[1], c[2])
             \/ \E c \in EntryCaps : SetEntryCap(c)
             \/ Clear
    BY <2>3, SettingKeepsLedger
  <2>4. CASE UNCHANGED vars
    BY <2>4, LedgerUnchanged DEF vars
  <2> QED
    BY <2>1, <2>2, <2>3, <2>4 DEF Next
<1> QED
  BY InitLedger, IInvAlways, <1>1, PTL DEF Spec

(* The variables keep their types, after an allocation has failed too; the  *)
(* byte count never goes below zero.                                        *)
THEOREM TypesHold == Spec => [](Types /\ CountTypes)
<1>1. IInv /\ Ledger => Types /\ CountTypes
  BY DEF IInv, Ledger
<1> QED
  BY IInvAlways, LedgerAlways, <1>1, PTL

(* The memo never holds more entries or bytes than its caps, for any order  *)
(* of stores, hits, cap changes and clears by any number of threads; the    *)
(* byte count covers what is held, and is exact while no allocation inside  *)
(* store has failed.                                                        *)
THEOREM MemoKeepsItsCaps == Spec => []CapsHold
<1>1. Ledger => CapsHold
  BY DEF Ledger
<1> QED
  BY LedgerAlways, <1>1, PTL

-----------------------------------------------------------------------------
(* Until an allocation inside store fails, every entry is the one its key   *)
(* is indexed with; so a key has one entry, and its last use dates it.      *)
AllIndexed ==
    \A i \in DOMAIN lru : lru[i].key \in DOMAIN index /\ index[lru[i].key] = lru[i].id

ByUse == \A i, j \in DOMAIN lru : i < j => lastUse[lru[i].key] > lastUse[lru[j].key]

UsedBefore == \A k \in Keys : lastUse[k] <= clock

Order == UsedBefore /\ (fails = 0 => AllIndexed /\ ByUse)

LEMMA KeysDiffer ==
    ASSUME IInv, AllIndexed, NEW i \in DOMAIN lru, NEW j \in DOMAIN lru,
           lru[i].key = lru[j].key
    PROVE  i = j
<1>1. lru[i].id = lru[j].id
  BY DEF AllIndexed
<1> QED
  BY <1>1 DEF IInv, NodesDiffer

LEMMA EntryKeys ==
    ASSUME IInv
    PROVE  /\ lru \in Seq(Entry) /\ DOMAIN lru = 1..Len(lru) /\ Len(lru) \in Nat
           /\ \A i \in DOMAIN lru : lru[i].key \in Keys
<1>1. lru \in Seq(Entry)
  BY DEF IInv, Types
<1>2. ASSUME NEW i \in DOMAIN lru PROVE lru[i].key \in Keys
  <2>1. lru[i] \in Entry
    BY <1>1
  <2> QED
    BY <2>1 DEF Entry
<1> QED
  BY <1>1, <1>2

(* A drop from the back leaves the kept entries indexed. *)
LEMMA KeptStaysIndexed ==
    ASSUME IInv, AllIndexed, NEW n \in 0..Len(lru), NEW i \in 1..n
    PROVE  /\ i \in DOMAIN lru
           /\ lru[i].key \in DOMAIN Indexed(lru, n)
           /\ Indexed(lru, n)[lru[i].key] = lru[i].id
<1> DEFINE gone == {lru[j].key : j \in (n + 1)..Len(lru)}
<1>1. i \in DOMAIN lru /\ \A j \in (n + 1)..Len(lru) : j \in DOMAIN lru /\ j # i
  BY EntryKeys
<1>2. lru[i].key \notin gone
  BY <1>1, KeysDiffer
<1>3. lru[i].key \in DOMAIN index /\ index[lru[i].key] = lru[i].id
  BY <1>1 DEF AllIndexed
<1>4. Indexed(lru, n) = [k \in DOMAIN index \ gone |-> index[k]]
  BY DEF Indexed
<1> HIDE DEF gone
<1> QED
  BY <1>1, <1>2, <1>3, <1>4

LEMMA UsedIs ==
    ASSUME CountTypes, UsedBefore, NEW k \in Keys, Used(k)
    PROVE  /\ UsedBefore'
           /\ \A x \in Keys \ {k} : lastUse'[x] = lastUse[x] /\ lastUse[x] < lastUse'[k]
<1>1. clock \in Nat /\ lastUse \in [Keys -> Nat]
  BY DEF CountTypes
<1>2. clock' = clock + 1 /\ lastUse' = [lastUse EXCEPT ![k] = clock + 1]
  BY DEF Used
<1>3. lastUse'[k] = clock + 1 /\ \A x \in Keys \ {k} : lastUse'[x] = lastUse[x]
  BY <1>1, <1>2
<1>4. \A x \in Keys : lastUse[x] \in Nat /\ lastUse[x] <= clock
  BY <1>1 DEF UsedBefore
<1>5. \A x \in Keys \ {k} : lastUse[x] < lastUse'[k]
  BY <1>1, <1>3, <1>4
<1>6. UsedBefore'
  BY <1>1, <1>2, <1>3, <1>4 DEF UsedBefore
<1> QED
  BY <1>3, <1>5, <1>6

LEMMA DropKeepsOrder ==
    ASSUME IInv, AllIndexed, ByUse, NEW n \in 0..Len(lru),
           lru' = SubSeq(lru, 1, n), index' = Indexed(lru, n), lastUse' = lastUse
    PROVE  AllIndexed' /\ ByUse'
<1>1. /\ DOMAIN lru' = 1..n
      /\ \A i \in 1..n : /\ lru'[i] = lru[i] /\ i \in DOMAIN lru
                         /\ lru[i].key \in DOMAIN index' /\ index'[lru[i].key] = lru[i].id
  BY EntryKeys, KeepFront, KeptStaysIndexed
<1> QED
  BY <1>1 DEF AllIndexed, ByUse

(* The new entry is the last used, and was not indexed before.              *)
LEMMA StoreKeepsOrder ==
    ASSUME IInv, CountTypes, UsedBefore, AllIndexed, ByUse,
           NEW n \in 0..Len(lru), NEW k \in Keys, k \notin DOMAIN index,
           lru' = InFront(k, n, k), index' = PointedAt(Indexed(lru, n), k), Used(k)
    PROVE  AllIndexed' /\ ByUse'
<1> DEFINE e == [id |-> nodes, key |-> k, val |-> k]
           ix == Indexed(lru, n)
<1>1. e \in Entry /\ e.id = nodes /\ e.key = k
  BY DEF Entry, IInv, Types
<1>2. lru' = <<e>> \o SubSeq(lru, 1, n) /\ lru \in Seq(Entry)
  BY EntryKeys DEF InFront
<1> HIDE DEF e
<1>3. /\ DOMAIN lru' = 1..(n + 1) /\ lru'[1] = e /\ n \in Nat
      /\ \A i \in 2..(n + 1) : lru'[i] = lru[i - 1] /\ i - 1 \in 1..n
  BY <1>1, <1>2, PutInFront
<1>4. \A i \in 1..n : /\ i \in DOMAIN lru /\ lru[i].key \in Keys \ {k}
                      /\ lru[i].key \in DOMAIN ix /\ ix[lru[i].key] = lru[i].id
  BY KeptStaysIndexed, EntryKeys DEF AllIndexed
<1> HIDE DEF ix
<1>5. /\ index'[k] = nodes /\ k \in DOMAIN index'
      /\ \A x \in DOMAIN ix \ {k} : x \in DOMAIN index' /\ index'[x] = ix[x]
  BY DEF PointedAt, ix
<1>6. \A x \in Keys \ {k} : lastUse'[x] = lastUse[x] /\ lastUse[x] < lastUse'[k]
  BY UsedIs
<1>7. \A i \in DOMAIN lru' : i = 1 \/ i \in 2..(n + 1)
  BY <1>3
<1>8. AllIndexed'
  <2>1. \A i \in 2..(n + 1) : lru'[i].key \in DOMAIN index' /\ index'[lru'[i].key] = lru'[i].id
    BY <1>3, <1>4, <1>5
  <2> QED
    BY <1>1, <1>3, <1>5, <1>7, <2>1 DEF AllIndexed
<1>9. ByUse'
  <2> SUFFICES ASSUME NEW i \in DOMAIN lru', NEW j \in DOMAIN lru', i < j
               PROVE  lastUse'[lru'[i].key] > lastUse'[lru'[j].key]
    BY DEF ByUse
  <2>1. j \in 2..(n + 1) /\ lru'[j] = lru[j - 1] /\ j - 1 \in 1..n
    BY <1>3
  <2>2. lru'[j].key \in Keys \ {k}
    BY <1>4, <2>1
  <2>3. CASE i = 1
    <3>1. /\ lastUse'[lru'[j].key] = lastUse[lru'[j].key]
          /\ lastUse[lru'[j].key] < lastUse'[k] /\ lru'[i].key = k
      BY <1>1, <1>3, <1>6, <2>2, <2>3
    <3>2. lastUse'[k] \in Nat /\ lastUse[lru'[j].key] \in Nat
      BY <2>2, UsedTypes DEF CountTypes
    <3> QED
      BY <3>1, <3>2
  <2>4. CASE i \in 2..(n + 1)
    <3>1. lru'[i] = lru[i - 1] /\ i - 1 \in 1..n /\ i - 1 < j - 1
      BY <1>3, <2>1, <2>4
    <3>2. lastUse[lru[i - 1].key] > lastUse[lru[j - 1].key]
      BY <1>4, <2>1, <3>1 DEF ByUse
    <3>3. lru[i - 1].key \in Keys \ {k}
      BY <1>4, <3>1
    <3> QED
      BY <1>6, <2>1, <2>2, <3>1, <3>2, <3>3
  <2> QED
    BY <1>7, <2>3, <2>4
<1> QED
  BY <1>8, <1>9

(* The entry a hit splices to the front becomes the last used one; the      *)
(* others keep their order.                                                 *)
LEMMA HitKeepsOrder ==
    ASSUME IInv, CountTypes, UsedBefore, AllIndexed, ByUse,
           NEW k \in DOMAIN index, lru' = Touched(k), index' = index, Used(k)
    PROVE  AllIndexed' /\ ByUse'
<1> DEFINE i == Position(index[k])
<1>1. /\ i \in DOMAIN lru /\ lru[i].key = k
      /\ DOMAIN lru' = DOMAIN lru
      /\ \A p \in DOMAIN lru : From(i, p) \in DOMAIN lru /\ lru'[p] = lru[From(i, p)]
  BY TouchedIs
<1>2. DOMAIN lru = 1..Len(lru) /\ Len(lru) \in Nat /\ k \in Keys
  BY EntryKeys DEF IInv, Types
<1> HIDE DEF i
<1>3. AllIndexed'
  BY <1>1 DEF AllIndexed
<1>4. \A x \in Keys \ {k} : lastUse'[x] = lastUse[x] /\ lastUse[x] < lastUse'[k]
  BY <1>2, UsedIs
<1>5. ASSUME NEW p \in DOMAIN lru, NEW q \in DOMAIN lru, p < q
      PROVE  lastUse'[lru'[p].key] > lastUse'[lru'[q].key]
  <2>1. /\ From(i, q) \in DOMAIN lru /\ From(i, q) # i
        /\ lru'[q] = lru[From(i, q)] /\ lru'[p] = lru[From(i, p)] /\ From(i, p) \in DOMAIN lru
    BY <1>1, <1>2, <1>5 DEF From
  <2>2. lru'[q].key \in Keys \ {k}
    BY <1>1, <2>1, KeysDiffer, EntryKeys
  <2>3. CASE p = 1
    <3>1. /\ lastUse'[lru'[q].key] = lastUse[lru'[q].key]
          /\ lastUse[lru'[q].key] < lastUse'[k] /\ lru'[p].key = k
      BY <1>1, <1>4, <2>1, <2>2, <2>3 DEF From
    <3>2. lastUse'[k] \in Nat /\ lastUse[lru'[q].key] \in Nat
      BY <1>2, <2>2, UsedTypes DEF CountTypes
    <3> QED
      BY <3>1, <3>2
  <2>4. CASE p # 1
    <3>1. From(i, p) # i /\ From(i, p) < From(i, q)
      BY <1>1, <1>2, <1>5, <2>4 DEF From
    <3>2. lru'[p].key \in Keys \ {k}
      BY <1>1, <2>1, <3>1, KeysDiffer, EntryKeys
    <3>3. lastUse[lru'[p].key] > lastUse[lru'[q].key]
      BY <2>1, <3>1 DEF ByUse
    <3> QED
      BY <1>4, <2>2, <3>2, <3>3
  <2> QED
    BY <2>3, <2>4
<1>6. ByUse'
  BY <1>1, <1>5 DEF ByUse
<1> QED
  BY <1>3, <1>6

LEMMA OrderUnchanged ==
    ASSUME Order, UNCHANGED <<lru, index, lastUse, clock, fails>>
    PROVE  Order'
  BY DEF Order, UsedBefore, AllIndexed, ByUse

LEMMA RunKeepsOrder ==
    ASSUME IInv, CountTypes, Order, NEW t \in Threads, Run(t)
    PROVE  Order'
<1> USE DEF Order
<1>1. CASE Hit(t)
  <2>1. /\ lru' = Touched(want[t]) /\ index' = index /\ Used(want[t]) /\ fails' = fails
        /\ want[t] \in DOMAIN index /\ want[t] \in Keys
    BY <1>1 DEF Hit, IInv, Types
  <2>2. UsedBefore'
    BY <2>1, UsedIs
  <2>3. fails = 0 => AllIndexed' /\ ByUse'
    BY <2>1, HitKeepsOrder
  <2> QED
    BY <2>1, <2>2, <2>3
<1>2. CASE Store(t)
  <2>1. PICK n \in 0..Len(lru) :
           /\ StoresNow(t, n)
           /\ lru' = InFront(want[t], n, held[t])
           /\ index' = PointedAt(Indexed(lru, n), want[t])
           /\ Used(want[t]) /\ fails' = fails
    BY <1>2 DEF Store
  <2>2. want[t] \in Keys /\ held[t] = want[t] /\ want[t] \notin DOMAIN index
    BY <2>1 DEF StoresNow, Raced, IInv, Types, HoldsItsOwn, Busy
  <2>3. UsedBefore'
    BY <2>1, <2>2, UsedIs
  <2>4. fails = 0 => AllIndexed' /\ ByUse'
    BY <2>1, <2>2, StoreKeepsOrder
  <2> QED
    BY <2>1, <2>3, <2>4
<1>3. CASE StoreNoNode(t) \/ StoreNoIndex(t)
  <2>1. /\ fails' = fails + 1 /\ pc[t] = "store"
        /\ Used(want[t]) \/ UNCHANGED <<lastUse, clock>>
    BY <1>3 DEF StoreNoNode, StoreNoIndex, StoresNow
  <2>2. want[t] \in Keys
    BY <2>1 DEF IInv, Types, HoldsItsOwn
  <2>3. UsedBefore'
    BY <2>1, <2>2, UsedIs DEF UsedBefore
  <2>4. fails' # 0
    BY <2>1 DEF CountTypes
  <2> QED
    BY <2>3, <2>4
<1>4. CASE \/ Bypass(t) \/ Miss(t) \/ Restore(t) \/ VerifyHit(t)
           \/ Build(t) \/ Admit(t) \/ Capture(t) \/ StoreSkips(t)
  <2>1. UNCHANGED <<lru, index, lastUse, clock, fails>>
    BY <1>4 DEF Bypass, Miss, Restore, VerifyHit, Build, Admit, Capture, StoreSkips, memoVars
  <2> QED
    BY <2>1, OrderUnchanged
<1> QED
  BY <1>1, <1>2, <1>3, <1>4 DEF Run

LEMMA SettingKeepsOrder ==
    ASSUME IInv, CountTypes, Order,
           \/ \E c \in CapChoices : SetCaps(c[1], c[2])
           \/ \E c \in EntryCaps : SetEntryCap(c)
           \/ Clear
    PROVE  Order'
<1>1. CASE \E c \in CapChoices : SetCaps(c[1], c[2])
  <2>1. PICK n \in 0..Len(lru) : lru' = SubSeq(lru, 1, n) /\ index' = Indexed(lru, n)
    BY <1>1 DEF SetCaps
  <2>2. UNCHANGED <<lastUse, clock, fails>>
    BY <1>1 DEF SetCaps
  <2> QED
    BY <2>1, <2>2, DropKeepsOrder DEF Order, UsedBefore
<1>2. CASE \E c \in EntryCaps : SetEntryCap(c)
  BY <1>2, OrderUnchanged DEF SetEntryCap
<1>3. CASE Clear
  BY <1>3 DEF Clear, Order, UsedBefore, AllIndexed, ByUse
<1> QED
  BY <1>1, <1>2, <1>3

LEMMA OrderAlways == Spec => []Order
<1>1. Init => Order
  BY DEF Init, Order, UsedBefore, AllIndexed, ByUse
<1>2. IInv /\ Ledger /\ Order /\ [Next]_vars => Order'
  <2> SUFFICES ASSUME IInv, CountTypes, Order, [Next]_vars PROVE Order'
    BY DEF Ledger
  <2>1. CASE \E t \in Threads : Run(t)
    BY <2>1, RunKeepsOrder
  <2>2. CASE \E t \in Threads, k \in Keys : Call(t, k)
    BY <2>2, OrderUnchanged DEF Call, memoVars
  <2>3. CASE \/ \E c \in CapChoices : SetCaps(c[1], c[2])
             \/ \E c \in EntryCaps : SetEntryCap(c)
             \/ Clear
    BY <2>3, SettingKeepsOrder
  <2>4. CASE UNCHANGED vars
    BY <2>4, OrderUnchanged DEF vars, memoVars
  <2> QED
    BY <2>1, <2>2, <2>3, <2>4 DEF Next
<1> QED
  BY <1>1, <1>2, IInvAlways, LedgerAlways, PTL DEF Spec

(* The list is in order of use as long as no allocation inside store has    *)
(* failed: an eviction drops what was used least recently, whatever other   *)
(* threads hit, store, drop or clear in between.                            *)
THEOREM EvictsLeastRecentlyUsed == Spec => []InOrderOfUse
<1>1. Order => InOrderOfUse
  BY DEF Order, ByUse, InOrderOfUse
<1> QED
  BY OrderAlways, <1>1, PTL

=============================================================================
