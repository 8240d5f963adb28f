--------------------------- MODULE BornTrieProofs ---------------------------
(***************************************************************************)
(* Proofs about BornTrie, for all plans, directions, memo caps and bounds. *)
(***************************************************************************)
EXTENDS BornTrie, FiniteSetTheorems, TLAPS

Outcomes == Seq({0, 1})
AnyLaw == {Nan} \cup {Chain!LawAfter(Lam[p], z) : p \in Plans, z \in Outcomes}
Node == [p0 : AnyLaw, kid : [{0, 1} -> Nat], at : Outcomes]

Types ==
    /\ tries \in [Plans -> Seq(Node)]
    /\ plan \in Plans \cup {NoPlan}
    /\ node \in Nat
    /\ bits \in Outcomes
    /\ depth \in Int
    /\ buffers \in {"none", "psi", "both"}

(* Children are where OutcomesAreAPath looks for them, and the root is at   *)
(* the start.                                                               *)
KidsExist ==
    \A p \in Plans : \A n \in DOMAIN tries[p] :
        /\ \A z \in {0, 1} : tries[p][n].kid[z] < Len(tries[p])
        /\ n = 1 => tries[p][n].at = <<>>

(* A walk stands where its outcomes lead. *)
WalkOnItsPath ==
    /\ plan = NoPlan => bits = <<>> /\ asked = Nan /\ node = 0
    /\ plan # NoPlan =>
          /\ Len(bits) <= Len(Lam[plan])
          /\ depth >= -1 /\ depth <= Len(bits)
          /\ Len(bits) < Len(Lam[plan]) =>
                node < Len(tries[plan]) /\ tries[plan][node + 1].at = bits

(* The root memo holds the law of its key on the bare register. *)
MemoIsRoot == \A k \in DOMAIN memo : memo[k] = Law(<<>>, k)

(* What has a law was evaluated on both buffers. *)
EvaluatedOnBoth == Evaluated \/ memo # <<>> => buffers = "both"

IInv ==
    /\ Types
    /\ NodesTellTheLaw /\ OutcomesAreAPath /\ KidsExist
    /\ WalkOnItsPath /\ RegisterIsCarried
    /\ MemoIsRoot /\ MemoHitsAgree /\ EvaluatedOnBoth

-----------------------------------------------------------------------------
LEMMA InitIInv == Init => IInv
<1> SUFFICES ASSUME Init PROVE IInv
  OBVIOUS
<1>1. Types /\ WalkOnItsPath
  BY ConstantsAssumption DEF Init, Types, Outcomes, WalkOnItsPath
<1>2. NodesTellTheLaw /\ OutcomesAreAPath /\ KidsExist
  BY DEF Init, NodesTellTheLaw, OutcomesAreAPath, KidsExist
<1>3. RegisterIsCarried /\ MemoIsRoot /\ MemoHitsAgree
  BY DEF Init, RegisterIsCarried, MemoIsRoot, MemoHitsAgree
<1>4. EvaluatedOnBoth
  BY DEF Init, EvaluatedOnBoth, Evaluated
<1> QED
  BY <1>1, <1>2, <1>3, <1>4 DEF IInv

(* What is carried and what is projected now make up the outcomes' own      *)
(* register, so the law evaluated is that of the prefix.                    *)
LEMMA ProjectedIsPrefix ==
    ASSUME IInv, plan # NoPlan
    PROVE  Projected = [i \in DOMAIN bits |-> <<Lam[plan][i], bits[i]>>]
<1> DEFINE done == IF depth < 0 THEN 0 ELSE depth
           Pair == Direction \X {0, 1}
           base == [i \in 1..done |-> <<Lam[plan][i], bits[i]>>]
           more == [i \in 1..(Len(bits) - done) |-> <<Lam[plan][done + i], bits[done + i]>>]
           whole == [i \in 1..Len(bits) |-> <<Lam[plan][i], bits[i]>>]
<1>1. /\ plan \in Plans /\ bits \in Seq({0, 1}) /\ Lam[plan] \in Seq(Direction)
      /\ Len(bits) <= Len(Lam[plan])
      /\ depth \in Int /\ depth >= -1 /\ depth <= Len(bits)
  BY ConstantsAssumption DEF IInv, Types, WalkOnItsPath, Outcomes
<1>2. done \in Nat /\ done <= Len(bits) /\ Len(bits) \in Nat
  BY <1>1
<1>3. \A i \in 1..Len(bits) : <<Lam[plan][i], bits[i]>> \in Pair
  BY <1>1
<1>4. (IF depth < 0 THEN <<>> ELSE psi) = base
  <2>1. CASE depth < 0
    BY <2>1
  <2>2. CASE ~(depth < 0)
    BY <1>1, <2>2 DEF IInv, RegisterIsCarried
  <2> QED
    BY <2>1, <2>2
<1>5. Projected = base \o more
  BY <1>4 DEF Projected
<1> HIDE DEF done
<1>6. base \in Seq(Pair) /\ Len(base) = done
  BY <1>2, <1>3
<1>7. more \in Seq(Pair) /\ Len(more) = Len(bits) - done
  BY <1>2, <1>3
<1>8. whole \in Seq(Pair) /\ Len(whole) = Len(bits)
  BY <1>2, <1>3
<1>9. \A i \in 1..done : base[i] = whole[i]
  BY <1>2
<1>10. \A i \in 1..(Len(bits) - done) : more[i] = whole[done + i]
  BY <1>2
<1> HIDE DEF base, more, whole, Pair
<1>11. base \o more = whole
  BY <1>2, <1>6, <1>7, <1>8, <1>9, <1>10
<1>12. DOMAIN bits = 1..Len(bits)
  BY <1>1
<1> QED
  BY <1>5, <1>11, <1>12 DEF whole

LEMMA EvaluatesThePrefix ==
    ASSUME IInv, plan # NoPlan
    PROVE  Law(Projected, Direct(Len(bits))) = Chain!LawAfter(Lam[plan], bits)
  BY ProjectedIsPrefix DEF Law, Direct, Chain!LawAfter

(* Writing the right law into the node a walk stands at. *)
LEMMA SetLawKeeps ==
    ASSUME IInv, Unfinished, NEW law, law = Chain!LawAfter(Lam[plan], bits), SetLaw(law)
    PROVE  /\ tries' \in [Plans -> Seq(Node)]
           /\ Len(tries'[plan]) = Len(tries[plan])
           /\ \A p \in Plans : DOMAIN tries'[p] = DOMAIN tries[p]
           /\ \A p \in Plans : \A n \in DOMAIN tries[p] :
                 /\ tries'[p][n].kid = tries[p][n].kid
                 /\ tries'[p][n].at = tries[p][n].at
                 /\ tries'[p][n].p0 \in {tries[p][n].p0, Chain!LawAfter(Lam[p], tries[p][n].at)}
<1>1. /\ tries \in [Plans -> Seq(Node)] /\ plan \in Plans /\ node \in Nat
      /\ bits \in Outcomes
      /\ node < Len(tries[plan]) /\ tries[plan][node + 1].at = bits
  BY DEF IInv, Types, WalkOnItsPath, Unfinished
<1>2. law \in AnyLaw
  BY <1>1 DEF AnyLaw
<1>3. tries[plan] \in Seq(Node) /\ node + 1 \in DOMAIN tries[plan]
  BY <1>1
<1>4. tries[plan][node + 1] \in Node
  BY <1>3
<1> DEFINE old == tries[plan][node + 1]
           new == [old EXCEPT !.p0 = law]
           t == [tries[plan] EXCEPT ![node + 1] = new]
<1>5. new \in Node /\ new.kid = old.kid /\ new.at = old.at /\ new.p0 = law
  BY <1>2, <1>4 DEF Node
<1> HIDE DEF new
<1>6. t \in Seq(Node) /\ Len(t) = Len(tries[plan]) /\ DOMAIN t = DOMAIN tries[plan]
  BY <1>3, <1>5
<1>7. \A n \in DOMAIN tries[plan] : t[n] = IF n = node + 1 THEN new ELSE tries[plan][n]
  BY <1>3
<1>8. tries' = [tries EXCEPT ![plan] = t]
  BY <1>1 DEF SetLaw, new
<1> HIDE DEF t
<1>9. /\ tries' \in [Plans -> Seq(Node)]
      /\ tries'[plan] = t
      /\ \A p \in Plans \ {plan} : tries'[p] = tries[p]
  BY <1>1, <1>6, <1>8
<1>10. \A n \in DOMAIN tries[plan] :
         /\ t[n].kid = tries[plan][n].kid
         /\ t[n].at = tries[plan][n].at
         /\ t[n].p0 \in {tries[plan][n].p0, Chain!LawAfter(Lam[plan], tries[plan][n].at)}
  BY <1>1, <1>5, <1>7
<1> QED
  BY <1>6, <1>9, <1>10

(* The facts about the tries after that. *)
LEMMA TriesKept ==
    ASSUME IInv, Unfinished, NEW law, law = Chain!LawAfter(Lam[plan], bits), SetLaw(law)
    PROVE  /\ tries' \in [Plans -> Seq(Node)]
           /\ NodesTellTheLaw' /\ OutcomesAreAPath' /\ KidsExist'
<1>1. /\ tries' \in [Plans -> Seq(Node)]
      /\ \A p \in Plans : DOMAIN tries'[p] = DOMAIN tries[p]
      /\ \A p \in Plans : \A n \in DOMAIN tries[p] :
            /\ tries'[p][n].kid = tries[p][n].kid
            /\ tries'[p][n].at = tries[p][n].at
            /\ tries'[p][n].p0 \in {tries[p][n].p0, Chain!LawAfter(Lam[p], tries[p][n].at)}
  BY SetLawKeeps
<1>2. tries \in [Plans -> Seq(Node)] /\ NodesTellTheLaw /\ OutcomesAreAPath /\ KidsExist
  BY DEF IInv, Types
<1>3. \A p \in Plans : Len(tries'[p]) = Len(tries[p])
  BY <1>1, <1>2
<1>4. NodesTellTheLaw'
  BY <1>1, <1>2 DEF NodesTellTheLaw
<1>5. KidsExist'
  BY <1>1, <1>2, <1>3 DEF KidsExist
<1>6. OutcomesAreAPath'
  <2> SUFFICES ASSUME NEW p \in Plans, NEW n \in DOMAIN tries'[p], NEW z \in {0, 1},
                      tries'[p][n].kid[z] # 0
               PROVE  /\ tries'[p][n].kid[z] >= n
                      /\ tries'[p][tries'[p][n].kid[z] + 1].at = Append(tries'[p][n].at, z)
    BY DEF OutcomesAreAPath
  <2>0. /\ n \in DOMAIN tries[p]
        /\ tries'[p][n].kid = tries[p][n].kid
        /\ tries'[p][n].at = tries[p][n].at
    BY <1>1
  <2>1. /\ tries[p][n].kid[z] >= n
        /\ tries[p][tries[p][n].kid[z] + 1].at = Append(tries[p][n].at, z)
    BY <1>2, <2>0 DEF OutcomesAreAPath
  <2>2. tries[p] \in Seq(Node) /\ tries[p][n] \in Node
    BY <1>2, <2>0
  <2>3. tries[p][n].kid[z] \in Nat /\ tries[p][n].kid[z] < Len(tries[p])
    BY <1>2, <2>0, <2>2 DEF KidsExist, Node
  <2>4. tries[p][n].kid[z] + 1 \in DOMAIN tries[p]
    BY <2>2, <2>3
  <2> QED
    BY <1>1, <2>0, <2>1, <2>4
<1> QED
  BY <1>1, <1>4, <1>5, <1>6

LEMMA PathOf ==
    ASSUME OutcomesAreAPath, NEW p \in Plans, NEW n \in DOMAIN tries[p],
           NEW y \in {0, 1}, tries[p][n].kid[y] # 0
    PROVE  /\ tries[p][n].kid[y] >= n
           /\ tries[p][tries[p][n].kid[y] + 1].at = Append(tries[p][n].at, y)
  BY DEF OutcomesAreAPath

LEMMA TriesSame ==
    ASSUME IInv, tries' = tries
    PROVE  /\ tries' \in [Plans -> Seq(Node)]
           /\ NodesTellTheLaw' /\ OutcomesAreAPath' /\ KidsExist'
<1>1. tries \in [Plans -> Seq(Node)] /\ NodesTellTheLaw /\ OutcomesAreAPath /\ KidsExist
  BY DEF IInv, Types
<1>2. NodesTellTheLaw'
  BY <1>1 DEF NodesTellTheLaw
<1>3. OutcomesAreAPath'
  BY <1>1 DEF OutcomesAreAPath
<1>4. KidsExist'
  BY <1>1 DEF KidsExist
<1> QED
  BY <1>1, <1>2, <1>3, <1>4

LEMMA SetLawWalk ==
    ASSUME IInv, Unfinished, NEW law, law = Chain!LawAfter(Lam[plan], bits), SetLaw(law)
    PROVE  /\ Len(tries'[plan]) = Len(tries[plan])
           /\ tries'[plan][node + 1].at = tries[plan][node + 1].at
<1>1. plan \in Plans /\ node + 1 \in DOMAIN tries[plan]
  BY DEF IInv, Types, WalkOnItsPath, Unfinished
<1> QED
  BY <1>1, SetLawKeeps

(* A child made for outcome z, or none. *)
LEMMA GrownKeeps ==
    ASSUME IInv, Unfinished, NEW z \in {0, 1},
           tries' = [tries EXCEPT ![plan] = Grown(z)]
    PROVE  /\ tries' \in [Plans -> Seq(Node)]
           /\ NodesTellTheLaw' /\ OutcomesAreAPath' /\ KidsExist'
           /\ Grown(z)[node + 1].kid[z] \in Nat
           /\ Len(bits) + 1 < Len(Lam[plan]) =>
                 LET k == Grown(z)[node + 1].kid[z]
                 IN  k < Len(tries'[plan]) /\ tries'[plan][k + 1].at = Append(bits, z)
<1> DEFINE t == tries[plan]
           here == t[node + 1]
           new == NewNode(Append(bits, z))
           turned == [here EXCEPT !.kid = [here.kid EXCEPT ![z] = Len(t)]]
           base == [t EXCEPT ![node + 1] = turned]
           g == Grown(z)
<1>1. /\ tries \in [Plans -> Seq(Node)] /\ plan \in Plans /\ node \in Nat
      /\ bits \in Outcomes
      /\ node < Len(t) /\ here.at = bits
      /\ NodesTellTheLaw /\ OutcomesAreAPath /\ KidsExist
  BY DEF IInv, Types, WalkOnItsPath, Unfinished
<1>2. t \in Seq(Node) /\ Len(t) \in Nat /\ DOMAIN t = 1..Len(t) /\ node + 1 \in DOMAIN t
  BY <1>1
<1>3. here \in Node
  BY <1>2
<1>4. here.kid \in [{0, 1} -> Nat] /\ here.kid[z] \in Nat
  BY <1>3 DEF Node
<1>5. CASE ~(here.kid[z] = 0 /\ Len(bits) + 1 < Len(Lam[plan]))
  <2>1. g = t
    BY <1>5 DEF Grown, Trie, Here
  <2>2. tries' = tries
    BY <1>1, <2>1
  <2>3. NodesTellTheLaw' /\ OutcomesAreAPath' /\ KidsExist'
    BY <2>2, TriesSame
  <2>4. Len(bits) + 1 < Len(Lam[plan]) =>
           /\ here.kid[z] < Len(t)
           /\ t[here.kid[z] + 1].at = Append(bits, z)
    BY <1>1, <1>2, <1>5 DEF OutcomesAreAPath, KidsExist
  <2> HIDE DEF g
  <2>5. g[node + 1].kid[z] = here.kid[z]
    BY <2>1
  <2> QED
    BY <1>1, <1>4, <2>2, <2>3, <2>4, <2>5 DEF g
<1>6. CASE here.kid[z] = 0 /\ Len(bits) + 1 < Len(Lam[plan])
  <2>1. new \in Node /\ new.at = Append(bits, z) /\ new.p0 = Nan
        /\ new.kid = [y \in {0, 1} |-> 0]
    BY <1>1 DEF NewNode, Node, AnyLaw, Outcomes
  <2>2. /\ turned \in Node /\ turned.at = bits /\ turned.p0 = here.p0
        /\ turned.kid[z] = Len(t)
        /\ \A y \in {0, 1} \ {z} : turned.kid[y] = here.kid[y]
    BY <1>1, <1>2, <1>3, <1>4 DEF Node
  <2> HIDE DEF new
  <2>3. g = Append(base, new)
    <3>1. [t EXCEPT ![node + 1].kid[z] = Len(t)] = base
      BY <1>2, <1>3 DEF Node
    <3> QED
      BY <1>6, <3>1 DEF Grown, Trie, Here, new
  <2> HIDE DEF turned, g
  <2>4. base \in Seq(Node) /\ Len(base) = Len(t)
        /\ \A n \in 1..Len(t) : base[n] = IF n = node + 1 THEN turned ELSE t[n]
    BY <1>2, <2>2
  <2> HIDE DEF base
  <2>5. /\ g \in Seq(Node) /\ Len(g) = Len(t) + 1 /\ DOMAIN g = 1..(Len(t) + 1)
        /\ g[Len(t) + 1] = new
        /\ \A n \in 1..Len(t) : g[n] = base[n]
    BY <1>2, <2>1, <2>3, <2>4
  <2>6. /\ g[node + 1] = turned
        /\ \A n \in 1..Len(t) : n # node + 1 => g[n] = t[n]
    BY <1>2, <2>4, <2>5
  <2>7. /\ tries' \in [Plans -> Seq(Node)]
        /\ tries'[plan] = g
        /\ \A p \in Plans \ {plan} : tries'[p] = tries[p]
    BY <1>1, <2>5 DEF g
  <2>8. \A n \in 1..Len(t) : /\ g[n].at = t[n].at /\ g[n].p0 = t[n].p0
    BY <1>1, <1>2, <2>2, <2>6
  <2>9. \A n \in 1..Len(t) : \A y \in {0, 1} :
           g[n].kid[y] = t[n].kid[y] \/ (n = node + 1 /\ y = z /\ g[n].kid[y] = Len(t))
    BY <1>2, <2>2, <2>6
  <2>10. \A n \in 1..Len(t) : \A y \in {0, 1} :
           t[n].kid[y] \in Nat /\ t[n].kid[y] < Len(t)
    <3>1. \A n \in 1..Len(t) : t[n] \in Node
      BY <1>2
    <3>2. \A n \in 1..Len(t) : t[n].kid \in [{0, 1} -> Nat]
      BY <3>1 DEF Node
    <3>3. \A n \in 1..Len(t) : \A y \in {0, 1} : t[n].kid[y] < Len(t)
      BY <1>1, <1>2 DEF KidsExist
    <3> QED
      BY <3>2, <3>3
  <2>range. \A n \in 1..(Len(t) + 1) : n \in 1..Len(t) \/ n = Len(t) + 1
    BY <1>2
  <2>11. NodesTellTheLaw'
    <3>1. \A n \in 1..(Len(t) + 1) : g[n].p0 \in {Nan, Chain!LawAfter(Lam[plan], g[n].at)}
      <4>1. \A n \in 1..Len(t) : g[n].p0 \in {Nan, Chain!LawAfter(Lam[plan], g[n].at)}
        <5>1. \A n \in 1..Len(t) : t[n].p0 \in {Nan, Chain!LawAfter(Lam[plan], t[n].at)}
          BY <1>1, <1>2 DEF NodesTellTheLaw
        <5> HIDE DEF t
        <5> QED
          BY <2>8, <5>1
      <4>2. g[Len(t) + 1].p0 \in {Nan, Chain!LawAfter(Lam[plan], g[Len(t) + 1].at)}
        BY <2>1, <2>5
      <4> HIDE DEF t
      <4> QED
        BY <2>range, <4>1, <4>2
    <3>2. \A p \in Plans \ {plan} : \A n \in DOMAIN tries'[p] :
             tries'[p][n].p0 \in {Nan, Chain!LawAfter(Lam[p], tries'[p][n].at)}
      BY <1>1, <2>7 DEF NodesTellTheLaw
    <3>3. \A n \in DOMAIN tries'[plan] :
             tries'[plan][n].p0 \in {Nan, Chain!LawAfter(Lam[plan], tries'[plan][n].at)}
      BY <2>5, <2>7, <3>1
    <3> QED
      BY <3>2, <3>3 DEF NodesTellTheLaw
  <2>12. KidsExist'
    <3>1. \A n \in 1..(Len(t) + 1) : \A y \in {0, 1} : g[n].kid[y] < Len(g)
      <4>1. \A n \in 1..Len(t) : \A y \in {0, 1} : g[n].kid[y] < Len(g)
        <5> HIDE DEF t
        <5>1. Len(g) = Len(t) + 1 /\ Len(t) \in Nat
          BY <1>2, <2>5
        <5> QED
          BY <2>9, <2>10, <5>1
      <4>2. \A y \in {0, 1} : g[Len(t) + 1].kid[y] < Len(g)
        BY <1>2, <2>1, <2>5
      <4> HIDE DEF t
      <4> QED
        BY <2>range, <4>1, <4>2
    <3>2. g[1].at = <<>>
      BY <1>1, <1>2, <2>8 DEF KidsExist
    <3>3. \A p \in Plans \ {plan} : \A n \in DOMAIN tries'[p] :
             /\ \A y \in {0, 1} : tries'[p][n].kid[y] < Len(tries'[p])
             /\ n = 1 => tries'[p][n].at = <<>>
      BY <1>1, <2>7 DEF KidsExist
    <3>4. \A n \in DOMAIN tries'[plan] :
             /\ \A y \in {0, 1} : tries'[plan][n].kid[y] < Len(tries'[plan])
             /\ n = 1 => tries'[plan][n].at = <<>>
      BY <2>5, <2>7, <3>1, <3>2
    <3> QED
      BY <3>3, <3>4 DEF KidsExist
  <2>13. OutcomesAreAPath'
    <3>1. ASSUME NEW n \in 1..(Len(t) + 1), NEW y \in {0, 1}, g[n].kid[y] # 0
          PROVE  /\ g[n].kid[y] >= n
                 /\ g[g[n].kid[y] + 1].at = Append(g[n].at, y)
      <4>1. n \in 1..Len(t)
        BY <1>2, <2>1, <2>5, <3>1
      <4>2. CASE g[n].kid[y] = t[n].kid[y]
        <5>1. t[n].kid[y] >= n /\ t[t[n].kid[y] + 1].at = Append(t[n].at, y)
          BY <1>1, <1>2, <3>1, <4>1, <4>2 DEF OutcomesAreAPath
        <5>2. t[n].kid[y] + 1 \in 1..Len(t)
          BY <1>2, <2>10, <4>1
        <5>3. /\ g[t[n].kid[y] + 1].at = t[t[n].kid[y] + 1].at
              /\ g[n].at = t[n].at
          BY <2>8, <4>1, <5>2
        <5> HIDE DEF t
        <5> QED
          BY <4>2, <5>1, <5>3
      <4>3. CASE n = node + 1 /\ y = z /\ g[n].kid[y] = Len(t)
        BY <1>1, <1>2, <2>1, <2>5, <2>8, <4>1, <4>3
      <4> QED
        BY <2>9, <4>1, <4>2, <4>3
    <3> QED
      <4> SUFFICES ASSUME NEW p \in Plans, NEW n \in DOMAIN tries'[p], NEW y \in {0, 1},
                          tries'[p][n].kid[y] # 0
                   PROVE  /\ tries'[p][n].kid[y] >= n
                          /\ tries'[p][tries'[p][n].kid[y] + 1].at
                                = Append(tries'[p][n].at, y)
        BY DEF OutcomesAreAPath
      <4>1. CASE p = plan
        <5>1. tries'[p] = g /\ n \in 1..(Len(t) + 1)
          BY <2>5, <2>7, <4>1
        <5>2. g[n].kid[y] # 0
          BY <5>1
        <5> HIDE DEF t
        <5>3. g[n].kid[y] >= n /\ g[g[n].kid[y] + 1].at = Append(g[n].at, y)
          BY <3>1, <5>1, <5>2
        <5> QED
          BY <5>1, <5>3
      <4>2. CASE p # plan
        <5>1. tries'[p] = tries[p]
          BY <2>7, <4>2
        <5>2. n \in DOMAIN tries[p] /\ tries[p][n].kid[y] # 0
          BY <5>1
        <5>3. /\ tries[p][n].kid[y] >= n
              /\ tries[p][tries[p][n].kid[y] + 1].at = Append(tries[p][n].at, y)
          BY <1>1, <5>2, PathOf
        <5> QED
          BY <5>1, <5>3
      <4> QED
        BY <4>1, <4>2
  <2>14. g[node + 1].kid[z] = Len(t)
    BY <2>2, <2>6
  <2>15. Len(t) < Len(tries'[plan]) /\ tries'[plan][Len(t) + 1].at = Append(bits, z)
    BY <1>2, <2>1, <2>5, <2>7
  <2>16. Grown(z)[node + 1].kid[z] = Len(t)
    BY <2>14 DEF g
  <2> HIDE DEF t
  <2> QED
    BY <1>2, <2>7, <2>11, <2>12, <2>13, <2>15, <2>16
<1> QED
  BY <1>5, <1>6

-----------------------------------------------------------------------------
(* The rest of the invariant and the step of the abstract chain. *)
WalkKept ==
    /\ plan' \in Plans \cup {NoPlan} /\ node' \in Nat /\ bits' \in Outcomes /\ depth' \in Int
    /\ buffers' \in {"none", "psi", "both"}
    /\ WalkOnItsPath' /\ RegisterIsCarried'
    /\ [Chain!ChainNext]_(Chain!chainVars)

TriesAreKept ==
    /\ tries' \in [Plans -> Seq(Node)]
    /\ NodesTellTheLaw' /\ OutcomesAreAPath' /\ KidsExist'

MemoKept == MemoIsRoot' /\ MemoHitsAgree'

LEMMA MemoSame ==
    ASSUME IInv, memo' = memo \/ memo' = <<>>, mismatch' = mismatch
    PROVE  MemoKept
<1>1. MemoIsRoot /\ MemoHitsAgree
  BY DEF IInv
<1>2. CASE memo' = memo
  BY <1>1, <1>2 DEF MemoKept, MemoIsRoot, MemoHitsAgree, Law
<1>3. CASE memo' = <<>>
  BY <1>1, <1>3 DEF MemoKept, MemoIsRoot, MemoHitsAgree, Law
<1> QED
  BY <1>2, <1>3

(* A root evaluated and remembered. *)
LEMMA MemoGrows ==
    ASSUME IInv, plan # NoPlan, bits = <<>>, mismatch' = mismatch,
           memo' = Remembered(RootKey(Direct(0)), Law(Projected, Direct(0))).map
    PROVE  MemoKept
<1>1. MemoIsRoot /\ MemoHitsAgree
  BY DEF IInv
<1>2. Projected = <<>>
  <2>1. Projected = [i \in DOMAIN bits |-> <<Lam[plan][i], bits[i]>>]
    BY ProjectedIsPrefix
  <2> QED
    BY <2>1
<1> DEFINE d == Direct(0)
           kept == IF Cardinality(DOMAIN memo) >= MemoCap THEN {} ELSE DOMAIN memo
<1>3. memo' = [x \in kept \cup {d} |-> IF x = d THEN Law(<<>>, d) ELSE memo[x]]
  BY <1>2 DEF Remembered, RootKey
<1>4. kept \subseteq DOMAIN memo
  OBVIOUS
<1> HIDE DEF kept, d
<1>5. \A x \in DOMAIN memo' : memo'[x] = Law(<<>>, x)
  BY <1>1, <1>3, <1>4 DEF MemoIsRoot
<1> QED
  BY <1>1, <1>5 DEF MemoKept, MemoIsRoot, MemoHitsAgree, Law

(* The end of a walk. *)
LEMMA StopKeeps ==
    ASSUME IInv, plan # NoPlan, NEW how \in {"complete", "thrown", "died"}, Stop(how),
           how = "complete" => Len(bits) = Len(Lam[plan]),
           how = "died" => buffers = "psi",
           depth' \in Int, buffers' \in {"none", "psi", "both"},
           buffers' = buffers \/ (how = "thrown" /\ (buffers = "psi" => buffers' = "psi"))
    PROVE  WalkKept
<1>1. /\ plan' = NoPlan /\ node' = 0 /\ bits' = <<>> /\ asked' = Nan /\ ended' = how
  BY DEF Stop
<1>2. WalkOnItsPath' /\ RegisterIsCarried'
  BY <1>1 DEF WalkOnItsPath, RegisterIsCarried, Nan, Chain!Nowhere
<1>3. Chain!ChainEnd
  BY <1>1 DEF Chain!ChainEnd, Nan
<1> QED
  BY <1>1, <1>2, <1>3 DEF WalkKept, Chain!ChainNext, Outcomes

(* Steps that leave the walk where it is and do not draw. *)
LEMMA WalkSame ==
    ASSUME IInv, UNCHANGED walkVars, buffers' = buffers \/ (CanReset /\ buffers' = "both"),
           plan # NoPlan => Len(tries'[plan]) = Len(tries[plan])
                            /\ tries'[plan][node + 1].at = tries[plan][node + 1].at,
           depth' \in Int,
           plan # NoPlan => depth' >= -1 /\ depth' <= Len(bits) /\ RegisterIsCarried'
    PROVE  WalkKept
<1>1. /\ plan' = plan /\ node' = node /\ bits' = bits /\ asked' = asked /\ ended' = ended
  BY DEF walkVars
<1>2. plan \in Plans \cup {NoPlan} /\ node \in Nat /\ bits \in Outcomes /\ WalkOnItsPath
  BY DEF IInv, Types
<1>3. WalkOnItsPath'
  BY <1>1, <1>2 DEF WalkOnItsPath, Nan, Chain!Nowhere
<1>4. RegisterIsCarried'
  BY <1>1 DEF RegisterIsCarried
<1>5. UNCHANGED Chain!chainVars /\ buffers' \in {"none", "psi", "both"}
  BY <1>1 DEF Chain!chainVars, CanReset, IInv, Types
<1> QED
  BY <1>1, <1>2, <1>3, <1>4, <1>5 DEF WalkKept

LEMMA BeginKeeps ==
    ASSUME IInv, NEW p \in Plans, Begin(p), ended # "died"
    PROVE  TriesAreKept /\ WalkKept /\ MemoKept
<1>1. /\ tries \in [Plans -> Seq(Node)]
      /\ NodesTellTheLaw /\ OutcomesAreAPath /\ KidsExist
      /\ WalkOnItsPath
  BY DEF IInv, Types
<1>2. p # NoPlan /\ Lam[p] \in Seq(Direction) /\ Len(Lam[p]) > 0
  BY ConstantsAssumption
<1>3. plan = NoPlan /\ bits = <<>> /\ asked = Nan /\ node = 0
  BY <1>1 DEF Begin, WalkOnItsPath
<1>4. /\ plan' = p /\ node' = 0 /\ bits' = <<>> /\ asked' = Nan /\ ended' = ended
      /\ depth' = -1 /\ buffers' = buffers /\ memo' = memo /\ mismatch' = mismatch
      /\ tries' = [tries EXCEPT ![p] = Rooted(p)]
  BY <1>3 DEF Begin, Fresh
<1>5. NewNode(<<>>) \in Node
  BY DEF NewNode, Node, AnyLaw, Outcomes
<1>6. /\ Rooted(p) \in Seq(Node)
      /\ Len(Rooted(p)) > 0
      /\ Rooted(p)[1].at = <<>>
  <2>1. CASE tries[p] = <<>>
    BY <1>5, <2>1 DEF Rooted, NewNode
  <2>2. CASE tries[p] # <<>>
    BY <1>1, <2>2 DEF Rooted, KidsExist
  <2> QED
    BY <2>1, <2>2
<1>7. TriesAreKept
  <2>1. CASE tries[p] # <<>>
    <3>1. tries' = tries
      BY <1>1, <1>4, <2>1 DEF Rooted
    <3> QED
      BY <3>1, TriesSame DEF TriesAreKept
  <2>2. CASE tries[p] = <<>>
    <3>1. /\ tries' \in [Plans -> Seq(Node)]
          /\ tries'[p] = <<NewNode(<<>>)>>
          /\ \A q \in Plans \ {p} : tries'[q] = tries[q]
      BY <1>1, <1>4, <1>5, <2>2 DEF Rooted
    <3>2. \A n \in DOMAIN tries'[p] :
             /\ n = 1 /\ tries'[p][n].at = <<>> /\ tries'[p][n].p0 = Nan
             /\ \A z \in {0, 1} : tries'[p][n].kid[z] = 0
      BY <3>1 DEF NewNode
    <3>3. Len(tries'[p]) = 1
      BY <3>1
    <3>4. NodesTellTheLaw'
      BY <1>1, <3>1, <3>2 DEF NodesTellTheLaw
    <3>5. OutcomesAreAPath'
      <4> SUFFICES ASSUME NEW q \in Plans, NEW n \in DOMAIN tries'[q], NEW y \in {0, 1},
                          tries'[q][n].kid[y] # 0
                   PROVE  /\ tries'[q][n].kid[y] >= n
                          /\ tries'[q][tries'[q][n].kid[y] + 1].at
                                = Append(tries'[q][n].at, y)
        BY DEF OutcomesAreAPath
      <4>1. q # p
        BY <3>2
      <4>2. tries'[q] = tries[q]
        BY <3>1, <4>1
      <4>3. n \in DOMAIN tries[q] /\ tries[q][n].kid[y] # 0
        BY <4>2
      <4>4. /\ tries[q][n].kid[y] >= n
            /\ tries[q][tries[q][n].kid[y] + 1].at = Append(tries[q][n].at, y)
        BY <1>1, <4>3, PathOf
      <4> QED
        BY <4>2, <4>4
    <3>6. KidsExist'
      <4>1. \A n \in DOMAIN tries'[p] :
               /\ \A z \in {0, 1} : tries'[p][n].kid[z] < Len(tries'[p])
               /\ n = 1 => tries'[p][n].at = <<>>
        BY <3>2, <3>3
      <4>2. \A q \in Plans \ {p} : \A n \in DOMAIN tries'[q] :
               /\ \A z \in {0, 1} : tries'[q][n].kid[z] < Len(tries'[q])
               /\ n = 1 => tries'[q][n].at = <<>>
        BY <1>1, <3>1 DEF KidsExist
      <4> QED
        BY <4>1, <4>2 DEF KidsExist
    <3> QED
      BY <3>1, <3>4, <3>5, <3>6 DEF TriesAreKept
  <2> QED
    BY <2>1, <2>2
<1>8. WalkKept
  <2>1. tries'[p] = Rooted(p)
    BY <1>1, <1>4
  <2>2. Len(Rooted(p)) \in Nat
    BY <1>6
  <2>3. WalkOnItsPath'
    BY <1>2, <1>4, <1>6, <2>1, <2>2 DEF WalkOnItsPath
  <2>4. RegisterIsCarried'
    BY <1>4 DEF RegisterIsCarried
  <2>5. Chain!ChainStart
    BY <1>3, <1>4 DEF Chain!ChainStart
  <2>6. buffers' \in {"none", "psi", "both"}
    BY <1>4 DEF IInv, Types
  <2> QED
    BY <1>4, <2>3, <2>4, <2>5, <2>6 DEF WalkKept, Chain!ChainNext, Outcomes
<1> QED
  BY <1>4, <1>7, <1>8, MemoSame

LEMMA DrawKeeps ==
    ASSUME IInv, NEW z \in {0, 1}, Draw(z)
    PROVE  TriesAreKept /\ WalkKept /\ MemoKept
<1>1. /\ plan \in Plans /\ plan # NoPlan /\ bits \in Outcomes /\ depth \in Int
      /\ Len(bits) < Len(Lam[plan]) /\ Lam[plan] \in Seq(Direction)
      /\ WalkOnItsPath /\ RegisterIsCarried /\ NodesTellTheLaw
      /\ tries \in [Plans -> Seq(Node)] /\ node \in Nat
  BY ConstantsAssumption DEF IInv, Types, Draw, Unfinished
<1>2. /\ bits' = Append(bits, z) /\ asked' = Here.p0 /\ Here.p0 # Nan
      /\ tries' = [tries EXCEPT ![plan] = Grown(z)]
      /\ node' = Grown(z)[node + 1].kid[z]
      /\ plan' = plan /\ depth' = depth /\ psi' = psi /\ buffers' = buffers /\ ended' = ended
      /\ memo' = memo /\ mismatch' = mismatch
      /\ Unfinished
  BY DEF Draw
<1>3. /\ TriesAreKept
      /\ node' \in Nat
      /\ Len(bits) + 1 < Len(Lam[plan]) =>
            node' < Len(tries'[plan]) /\ tries'[plan][node' + 1].at = Append(bits, z)
  BY <1>2, GrownKeeps DEF TriesAreKept
<1>4. Here.p0 = Chain!LawAfter(Lam[plan], bits)
  <2>1. node + 1 \in DOMAIN tries[plan] /\ Here.at = bits
    BY <1>1 DEF WalkOnItsPath, Here, Trie
  <2> QED
    BY <1>1, <1>2, <2>1 DEF NodesTellTheLaw, Here, Trie
<1>5. bits' \in Outcomes /\ Len(bits') = Len(bits) + 1 /\ Len(bits) \in Nat
      /\ \A i \in 1..Len(bits) : bits'[i] = bits[i]
  BY <1>1, <1>2 DEF Outcomes
<1>6. Len(Lam[plan]) \in Nat
  BY <1>1
<1>7. WalkOnItsPath'
  <2>1. plan' # NoPlan /\ Len(bits') <= Len(Lam[plan'])
    BY <1>1, <1>2, <1>5, <1>6
  <2>2. depth' >= -1 /\ depth' <= Len(bits')
    BY <1>1, <1>2, <1>5 DEF WalkOnItsPath
  <2>3. Len(bits') < Len(Lam[plan']) =>
           node' < Len(tries'[plan']) /\ tries'[plan'][node' + 1].at = bits'
    BY <1>2, <1>3, <1>5
  <2> QED
    BY <2>1, <2>2, <2>3 DEF WalkOnItsPath
<1>8. RegisterIsCarried'
  <2> SUFFICES ASSUME depth >= 0
               PROVE  psi = [i \in 1..depth |-> <<Lam[plan][i], bits'[i]>>]
    BY <1>2 DEF RegisterIsCarried
  <2>1. psi = [i \in 1..depth |-> <<Lam[plan][i], bits[i]>>]
    BY <1>1 DEF RegisterIsCarried
  <2>2. \A i \in 1..depth : i \in 1..Len(bits)
    BY <1>1, <1>5 DEF WalkOnItsPath
  <2> QED
    BY <1>5, <2>1, <2>2
<1>b. buffers = "both"
  <2>1. node + 1 \in DOMAIN tries[plan]
    BY <1>1 DEF WalkOnItsPath
  <2>2. Evaluated
    BY <1>1, <1>2, <2>1 DEF Evaluated, Here, Trie
  <2> QED
    BY <2>2 DEF IInv, EvaluatedOnBoth
<1>9. Chain!ChainDraw
  BY <1>1, <1>2, <1>4, <1>b DEF Chain!ChainDraw
<1>10. WalkKept
  BY <1>b, <1>1, <1>2, <1>3, <1>5, <1>7, <1>8, <1>9 DEF WalkKept, Chain!ChainNext
<1> QED
  BY <1>2, <1>3, <1>10, MemoSame

(* A root memo hit: what it writes is what an evaluation would write, so a  *)
(* verified hit agrees.                                                     *)
LEMMA RootHitKeeps ==
    ASSUME IInv, RootHit
    PROVE  TriesAreKept /\ WalkKept /\ MemoKept
<1> DEFINE law == memo[RootKey(Direct(0))]
<1>1. /\ Unfinished /\ bits = <<>> /\ plan # NoPlan
      /\ Direct(0) \in DOMAIN memo
      /\ SetLaw(law)
      /\ UNCHANGED <<memo, walkVars>>
  BY DEF RootHit, MustEvaluate, Unfinished, RootKey
<1>2. law = Law(<<>>, Direct(0))
  BY <1>1 DEF IInv, MemoIsRoot, RootKey
<1>3. law = Chain!LawAfter(Lam[plan], bits)
  <2>1. Len(bits) = 0 /\ [i \in DOMAIN bits |-> <<Lam[plan][i], bits[i]>>] = <<>>
    BY <1>1
  <2> QED
    BY <1>2, <2>1 DEF Law, Direct, Chain!LawAfter
<1> HIDE DEF law
<1>4. TriesAreKept
  BY <1>1, <1>3, TriesKept DEF TriesAreKept
<1>5. ~mismatch'
  <2>1. ~mismatch /\ (IF verify THEN mismatch' = (mismatch \/ law # Law(<<>>, Direct(0)))
                                ELSE mismatch' = mismatch)
    BY DEF RootHit, law, IInv, MemoHitsAgree
  <2> QED
    BY <1>2, <2>1
<1>6. MemoKept
  BY <1>1, <1>5 DEF IInv, MemoKept, MemoIsRoot, MemoHitsAgree, Law
<1>7. /\ Len(tries'[plan]) = Len(tries[plan])
      /\ tries'[plan][node + 1].at = tries[plan][node + 1].at
  BY <1>1, <1>3, SetLawWalk
<1>8. depth' \in Int /\ depth' >= -1 /\ depth' <= Len(bits) /\ RegisterIsCarried'
  <2>1. CASE verify
    <3>1. psi' = <<>> /\ depth' = 0
      BY <2>1 DEF RootHit
    <3> QED
      BY <1>1, <3>1 DEF RegisterIsCarried
  <2>2. CASE ~verify
    <3>1. psi' = psi /\ depth' = depth /\ plan' = plan /\ bits' = bits
      BY <1>1, <2>2 DEF RootHit, walkVars
    <3> QED
      BY <1>1, <3>1 DEF IInv, Types, WalkOnItsPath, RegisterIsCarried
  <2> QED
    BY <2>1, <2>2
<1>b. buffers' = buffers \/ (CanReset /\ buffers' = "both")
  BY DEF RootHit
<1>9. WalkKept
  BY <1>b, <1>1, <1>7, <1>8, WalkSame
<1> QED
  BY <1>4, <1>6, <1>9

LEMMA EvaluateKeeps ==
    ASSUME IInv, Evaluate
    PROVE  TriesAreKept /\ WalkKept /\ MemoKept
<1> DEFINE law == Law(Projected, Direct(Len(bits)))
<1>1. /\ Unfinished /\ plan # NoPlan
      /\ SetLaw(law)
      /\ psi' = Projected /\ depth' = Len(bits) /\ CanReset /\ buffers' = "both"
      /\ UNCHANGED <<mismatch, walkVars>>
  BY DEF Evaluate, MustEvaluate, Unfinished
<1>2. law = Chain!LawAfter(Lam[plan], bits)
  BY <1>1, EvaluatesThePrefix
<1>3. bits \in Outcomes
  BY DEF IInv, Types
<1>4. MemoKept
  <2>1. CASE bits = <<>>
    <3>1. memo' = Remembered(RootKey(Direct(0)), Law(Projected, Direct(0))).map
      BY <2>1 DEF Evaluate
    <3> QED
      BY <1>1, <2>1, <3>1, MemoGrows
  <2>2. CASE bits # <<>>
    <3>1. memo' = memo
      BY <2>2 DEF Evaluate
    <3> QED
      BY <1>1, <3>1, MemoSame
  <2> QED
    BY <2>1, <2>2
<1> HIDE DEF law
<1>5. TriesAreKept
  BY <1>1, <1>2, TriesKept DEF TriesAreKept
<1>6. /\ Len(tries'[plan]) = Len(tries[plan])
      /\ tries'[plan][node + 1].at = tries[plan][node + 1].at
  BY <1>1, <1>2, SetLawWalk
<1>7. RegisterIsCarried'
  <2>1. psi' = [i \in DOMAIN bits |-> <<Lam[plan][i], bits[i]>>]
    BY <1>1, ProjectedIsPrefix
  <2>2. DOMAIN bits = 1..depth' /\ plan' = plan /\ bits' = bits
    BY <1>1, <1>3 DEF Outcomes, walkVars
  <2> QED
    BY <2>1, <2>2 DEF RegisterIsCarried
<1>8. Len(bits) \in Nat
  BY <1>3 DEF Outcomes
<1>9. WalkKept
  BY <1>1, <1>6, <1>7, <1>8, WalkSame
<1> QED
  BY <1>4, <1>5, <1>9

LEMMA RememberThrowsKeeps ==
    ASSUME IInv, RememberThrows
    PROVE  TriesAreKept /\ WalkKept /\ MemoKept
<1> DEFINE law == Law(Projected, Direct(0))
<1>1. /\ Unfinished /\ plan # NoPlan /\ bits = <<>>
      /\ SetLaw(law)
      /\ depth' = 0 /\ mismatch' = mismatch
      /\ buffers # "psi" /\ buffers' = "both"
      /\ memo' = memo \/ memo' = <<>>
      /\ Stop("thrown")
  BY DEF RememberThrows, MustEvaluate, Unfinished, CanReset
<1>2. law = Chain!LawAfter(Lam[plan], bits)
  <2>1. Len(bits) = 0
    BY <1>1
  <2> QED
    BY <1>1, <2>1, EvaluatesThePrefix
<1> HIDE DEF law
<1>3. TriesAreKept
  BY <1>1, <1>2, TriesKept DEF TriesAreKept
<1>4. WalkKept
  BY <1>1, StopKeeps
<1> QED
  BY <1>1, <1>3, <1>4, MemoSame

LEMMA WalkStepKeeps ==
    ASSUME IInv, Walk
    PROVE  TriesAreKept /\ WalkKept /\ MemoKept
<1>1. CASE RootHit
  BY <1>1, RootHitKeeps
<1>2. CASE Evaluate
  BY <1>2, EvaluateKeeps
<1>3. CASE RememberThrows
  BY <1>3, RememberThrowsKeeps
<1>0. buffers \in {"none", "psi", "both"} /\ depth \in Int
  BY DEF IInv, Types
<1>4. CASE EvaluateThrows \/ CloneThrows \/ Dies
  <2>1. /\ plan # NoPlan /\ depth' \in Int
        /\ buffers' \in {"none", "psi", "both"}
        /\ \/ Stop("thrown") /\ (buffers = "psi" => buffers' = "psi")
           \/ Stop("died") /\ buffers = "psi" /\ buffers' = buffers
        /\ tries' = tries /\ memo' = memo /\ mismatch' = mismatch
    BY <1>0, <1>4 DEF EvaluateThrows, CloneThrows, Dies, CanReset, NeedsRegister, MustEvaluate, Unfinished
  <2>2. WalkKept
    BY <2>1, StopKeeps
  <2> QED
    BY <2>1, <2>2, TriesSame, MemoSame DEF TriesAreKept
<1>5. CASE \E z \in {0, 1} : Draw(z)
  BY <1>5, DrawKeeps
<1>6. CASE Finish \/ WalkThrows
  <2>1. /\ plan # NoPlan /\ depth' = depth /\ buffers' = buffers
        /\ \/ Stop("complete") /\ Len(bits) = Len(Lam[plan])
           \/ Stop("thrown")
        /\ tries' = tries /\ memo' = memo /\ mismatch' = mismatch
    BY <1>6 DEF Finish, WalkThrows
  <2>2. depth' \in Int /\ buffers' \in {"none", "psi", "both"}
    BY <1>0, <2>1
  <2>3. WalkKept
    BY <2>1, <2>2, StopKeeps
  <2> QED
    BY <2>1, <2>3, TriesSame, MemoSame DEF TriesAreKept
<1> QED
  BY <1>1, <1>2, <1>3, <1>4, <1>5, <1>6 DEF Walk

LEMMA EvictKeeps ==
    ASSUME IInv, NEW p \in Plans, Evict(p)
    PROVE  TriesAreKept /\ WalkKept /\ MemoKept
<1>1. /\ tries \in [Plans -> Seq(Node)]
      /\ NodesTellTheLaw /\ OutcomesAreAPath /\ KidsExist
  BY DEF IInv, Types
<1>2. /\ plan = NoPlan /\ depth' = depth /\ buffers' = buffers /\ memo' = memo /\ mismatch' = mismatch
      /\ UNCHANGED walkVars
      /\ tries' = [tries EXCEPT ![p] = <<>>]
  BY DEF Evict
<1>3. /\ tries' \in [Plans -> Seq(Node)]
      /\ tries'[p] = <<>>
      /\ \A q \in Plans \ {p} : tries'[q] = tries[q]
  BY <1>1, <1>2
<1>4. NodesTellTheLaw'
  BY <1>1, <1>3 DEF NodesTellTheLaw
<1>5. KidsExist'
  BY <1>1, <1>3 DEF KidsExist
<1>6. OutcomesAreAPath'
  <2> SUFFICES ASSUME NEW q \in Plans, NEW n \in DOMAIN tries'[q], NEW y \in {0, 1},
                      tries'[q][n].kid[y] # 0
               PROVE  /\ tries'[q][n].kid[y] >= n
                      /\ tries'[q][tries'[q][n].kid[y] + 1].at
                            = Append(tries'[q][n].at, y)
    BY DEF OutcomesAreAPath
  <2>1. tries'[q] = tries[q]
    BY <1>3
  <2>2. n \in DOMAIN tries[q] /\ tries[q][n].kid[y] # 0
    BY <2>1
  <2>3. /\ tries[q][n].kid[y] >= n
        /\ tries[q][tries[q][n].kid[y] + 1].at = Append(tries[q][n].at, y)
    BY <1>1, <2>2, PathOf
  <2> QED
    BY <2>1, <2>3
<1>7. depth' \in Int
  BY <1>2 DEF IInv, Types
<1>8. WalkKept
  BY <1>2, <1>7, WalkSame
<1> QED
  BY <1>2, <1>3, <1>4, <1>5, <1>6, <1>8, MemoSame DEF TriesAreKept

LEMMA BetweenKeeps ==
    ASSUME IInv, MemoClear \/ WindowCloses \/ Oracle \/ UNCHANGED vars
    PROVE  TriesAreKept /\ WalkKept /\ MemoKept
<1>1. /\ tries' = tries /\ UNCHANGED walkVars /\ mismatch' = mismatch
      /\ memo' = memo \/ memo' = <<>>
      /\ plan = NoPlan \/ (depth' = depth /\ psi' = psi)
      /\ depth' = depth \/ depth' \in {-1, 0}
      /\ buffers' = buffers
  BY DEF MemoClear, WindowCloses, Oracle, vars
<1>2. depth \in Int /\ WalkOnItsPath /\ RegisterIsCarried
  BY DEF IInv, Types
<1>3. depth' \in Int
  BY <1>1, <1>2
<1>4. plan # NoPlan => depth' >= -1 /\ depth' <= Len(bits) /\ RegisterIsCarried'
  BY <1>1, <1>2 DEF WalkOnItsPath, RegisterIsCarried, walkVars
<1>5. WalkKept
  BY <1>1, <1>3, <1>4, WalkSame
<1> QED
  BY <1>1, <1>5, TriesSame, MemoSame DEF TriesAreKept

(* Until both buffers exist no node has a law, the memo is empty, and so a  *)
(* walk draws nothing.                                                      *)
LEMMA BuffersKeep ==
    ASSUME IInv, [Next]_vars
    PROVE  EvaluatedOnBoth'
<1>1. CASE buffers = "both"
  BY <1>1 DEF EvaluatedOnBoth, Next, vars, Begin, Evict, Walk, MemoClear, WindowCloses, Oracle,
       RootHit, Evaluate, RememberThrows, EvaluateThrows, CloneThrows, Dies, CanReset,
       Draw, Finish, WalkThrows
<1>2. CASE buffers # "both"
  <2>1. ~Evaluated /\ memo = <<>> /\ tries \in [Plans -> Seq(Node)]
    BY <1>2 DEF IInv, EvaluatedOnBoth, Types
  <2>2. ASSUME NEW p \in Plans, Begin(p) PROVE ~Evaluated' /\ memo' = <<>>
    <3>1. /\ memo' = memo /\ tries'[p] = Rooted(p)
          /\ \A q \in Plans \ {p} : tries'[q] = tries[q]
      BY <2>1, <2>2 DEF Begin
    <3>2. \A n \in DOMAIN Rooted(p) : Rooted(p)[n].p0 = Nan
      BY <2>1 DEF Rooted, NewNode, Evaluated
    <3> QED
      BY <2>1, <3>1, <3>2 DEF Evaluated
  <2>3. ASSUME NEW p \in Plans, Evict(p) PROVE ~Evaluated' /\ memo' = <<>>
    <3>1. /\ memo' = memo /\ tries'[p] = <<>>
          /\ \A q \in Plans \ {p} : tries'[q] = tries[q]
      BY <2>1, <2>3 DEF Evict
    <3> QED
      BY <2>1, <3>1 DEF Evaluated
  <2>4. ~RootHit
    BY <2>1 DEF RootHit
  <2>5. CASE Evaluate \/ RememberThrows
    BY <2>5 DEF Evaluate, RememberThrows, EvaluatedOnBoth
  <2>6. ASSUME NEW z \in {0, 1} PROVE ~Draw(z)
    <3>1. SUFFICES ASSUME Draw(z) PROVE FALSE
      OBVIOUS
    <3>2. plan \in Plans /\ node + 1 \in DOMAIN tries[plan]
      BY <3>1 DEF Draw, Unfinished, IInv, Types, WalkOnItsPath
    <3> QED
      BY <2>1, <3>1, <3>2 DEF Draw, Evaluated, Here, Trie
  <2>7. CASE \/ EvaluateThrows \/ CloneThrows \/ Dies \/ Finish \/ WalkThrows
             \/ MemoClear \/ WindowCloses \/ Oracle \/ UNCHANGED vars
    <3>1. tries' = tries /\ memo' = <<>>
      BY <2>1, <2>7 DEF EvaluateThrows, CloneThrows, Dies, Finish, WalkThrows,
           MemoClear, WindowCloses, Oracle, vars
    <3> QED
      BY <2>1, <3>1 DEF Evaluated, EvaluatedOnBoth
  <2> QED
    BY <2>2, <2>3, <2>4, <2>5, <2>6, <2>7 DEF Next, Walk, EvaluatedOnBoth
<1> QED
  BY <1>1, <1>2

LEMMA NextKeeps == IInv /\ [Next]_vars => IInv' /\ [Chain!ChainNext]_(Chain!chainVars)
<1> SUFFICES ASSUME IInv, [Next]_vars
             PROVE  TriesAreKept /\ WalkKept /\ MemoKept
  BY BuffersKeep DEF TriesAreKept, WalkKept, MemoKept, IInv, Types
<1> QED
  BY BeginKeeps, EvictKeeps, WalkStepKeeps, BetweenKeeps DEF Next

LEMMA IInvAlways == Spec => []IInv
  BY InitIInv, NextKeeps, PTL DEF Spec

(* Whatever walks were cut by exceptions, whatever plans were evicted or    *)
(* share the root memo and the register: an evaluated node holds the law of *)
(* its own prefix.                                                          *)
THEOREM NodesAreRight == Spec => []NodesTellTheLaw
<1>1. IInv => NodesTellTheLaw
  BY DEF IInv
<1> QED
  BY IInvAlways, <1>1, PTL

(* The tries stay trees of outcomes. *)
THEOREM TriesAreTrees == Spec => []OutcomesAreAPath
<1>1. IInv => OutcomesAreAPath
  BY DEF IInv
<1> QED
  BY IInvAlways, <1>1, PTL

(* The register carried inside a walk is that walk's. *)
THEOREM RegisterIsRight == Spec => []RegisterIsCarried
<1>1. IInv => RegisterIsCarried
  BY DEF IInv
<1> QED
  BY IInvAlways, <1>1, PTL

(* The self-check of the root memo never finds a difference, because the    *)
(* key holds everything the root's law depends on.                          *)
THEOREM VerifyNeverFails == Spec => []MemoHitsAgree
<1>1. IInv => MemoHitsAgree
  BY DEF IInv
<1> QED
  BY IInvAlways, <1>1, PTL

(* The walker implements the chain rule: its safety half.  A walk that ends *)
(* the process ends on the root, after an exception that left psi_ without  *)
(* beta_.                                                                   *)
THEOREM WalksDrawByTheChainRule ==
    Spec => Chain!ChainInit /\ [][Chain!ChainNext]_(Chain!chainVars)
<1>1. Init => Chain!ChainInit
  BY DEF Init, Chain!ChainInit, Nan
<1>2. IInv /\ [Next]_vars => [Chain!ChainNext]_(Chain!chainVars)
  BY NextKeeps
<1> QED
  BY IInvAlways, <1>1, <1>2, PTL DEF Spec

-----------------------------------------------------------------------------
(* The root memo: bounded, and counted while no insertion has failed; and a *)
(* walk stands inside its trie, also after its last outcome.                *)
MemoCounted ==
    /\ DOMAIN memo \subseteq Direction
    /\ IsFiniteSet(DOMAIN memo)
    /\ Cardinality(DOMAIN memo) <= MemoCap
    /\ fails = 0 => memoBytes = Cardinality(DOMAIN memo)
    /\ fails \in Nat
    /\ verify \in BOOLEAN /\ mismatch \in BOOLEAN

WalkInTrie == plan # NoPlan => node < Len(tries[plan])

LEMMA MemoUncounted ==
    ASSUME MemoCounted, UNCHANGED <<memo, memoBytes, fails>>,
           verify' \in BOOLEAN, mismatch' \in BOOLEAN
    PROVE  MemoCounted'
  BY DEF MemoCounted

LEMMA MemoEmptied ==
    ASSUME MemoCounted, memo' = <<>>, memoBytes' = 0 \/ fails' # 0, fails' \in Nat,
           verify' \in BOOLEAN, mismatch' \in BOOLEAN
    PROVE  MemoCounted'
<1>1. DOMAIN memo' = {}
  OBVIOUS
<1>2. IsFiniteSet(DOMAIN memo') /\ Cardinality(DOMAIN memo') = 0
  BY <1>1, FS_EmptySet
<1> QED
  BY <1>1, <1>2, ConstantsAssumption DEF MemoCounted

(* One more entry: a full memo was cleared first. *)
LEMMA RememberedIsCounted ==
    ASSUME MemoCounted, NEW k \in Direction, k \notin DOMAIN memo, NEW law,
           memo' = Remembered(k, law).map, memoBytes' = Remembered(k, law).bytes,
           UNCHANGED <<fails, verify, mismatch>>
    PROVE  MemoCounted'
<1> DEFINE kept == IF Cardinality(DOMAIN memo) >= MemoCap THEN {} ELSE DOMAIN memo
<1>1. /\ memo' = [x \in kept \cup {k} |-> IF x = k THEN law ELSE memo[x]]
      /\ memoBytes' = (IF kept = {} THEN 0 ELSE memoBytes) + 1
  BY DEF Remembered
<1>2. /\ Cardinality(DOMAIN memo) \in Nat /\ IsFiniteSet(DOMAIN memo)
      /\ MemoCap \in Nat /\ MemoCap >= 1
  BY FS_CardinalityType, ConstantsAssumption DEF MemoCounted
<1>3. /\ kept \subseteq Direction /\ IsFiniteSet(kept) /\ k \notin kept
      /\ Cardinality(kept) \in Nat /\ Cardinality(kept) + 1 <= MemoCap
  <2>1. CASE Cardinality(DOMAIN memo) >= MemoCap
    BY <1>2, <2>1, FS_EmptySet
  <2>2. CASE ~(Cardinality(DOMAIN memo) >= MemoCap)
    BY <1>2, <2>2 DEF MemoCounted
  <2> QED
    BY <2>1, <2>2
<1>4. fails = 0 => (IF kept = {} THEN 0 ELSE memoBytes) = Cardinality(kept)
  BY FS_EmptySet DEF MemoCounted
<1> HIDE DEF kept
<1>5. DOMAIN memo' = kept \cup {k}
  BY <1>1
<1>6. IsFiniteSet(kept \cup {k}) /\ Cardinality(kept \cup {k}) = Cardinality(kept) + 1
  BY <1>3, FS_AddElement
<1>7. fails = 0 => memoBytes' = Cardinality(kept) + 1
  BY <1>1, <1>4
<1> QED
  BY <1>3, <1>5, <1>6, <1>7 DEF MemoCounted

LEMMA WalkIsCounted ==
    ASSUME IInv, MemoCounted, Walk
    PROVE  MemoCounted'
<1> DEFINE k == RootKey(Direct(0))
<1>1. Unfinished => k \in Direction
  <2>1. Unfinished => plan \in Plans /\ Lam[plan] \in Seq(Direction) /\ Len(Lam[plan]) > 0
    BY ConstantsAssumption DEF Unfinished, IInv, Types
  <2> QED
    BY <2>1 DEF RootKey, Direct
<1>2. fails \in Nat /\ verify \in BOOLEAN /\ mismatch \in BOOLEAN
  BY DEF MemoCounted
<1>3. CASE RootHit
  <2>1. UNCHANGED <<memo, memoBytes, fails, verify>> /\ mismatch' \in BOOLEAN
    BY <1>2, <1>3 DEF RootHit
  <2> QED
    BY <1>2, <2>1, MemoUncounted
<1>4. CASE Evaluate
  <2>1. Unfinished /\ UNCHANGED <<fails, verify, mismatch>>
    BY <1>4 DEF Evaluate, MustEvaluate
  <2>2. CASE bits = <<>>
    <3> DEFINE law == Law(Projected, Direct(Len(bits)))
    <3>1. /\ k \notin DOMAIN memo
          /\ memo' = Remembered(k, law).map /\ memoBytes' = Remembered(k, law).bytes
      BY <1>4, <2>2 DEF Evaluate
    <3> HIDE DEF law
    <3> QED
      BY <1>1, <2>1, <3>1, RememberedIsCounted
  <2>3. CASE bits # <<>>
    BY <1>2, <1>4, <2>1, <2>3, MemoUncounted DEF Evaluate
  <2> QED
    BY <2>2, <2>3
<1>5. CASE RememberThrows
  <2>1. /\ fails' = fails + 1 /\ UNCHANGED <<verify, mismatch>>
        /\ memo' = memo \/ memo' = <<>>
    BY <1>5 DEF RememberThrows
  <2>2. fails' \in Nat /\ fails' # 0
    BY <1>2, <2>1
  <2>3. CASE memo' = <<>>
    BY <1>2, <2>1, <2>2, <2>3, MemoEmptied
  <2>4. CASE memo' = memo
    BY <2>1, <2>2, <2>4 DEF MemoCounted
  <2> QED
    BY <2>1, <2>3, <2>4
<1>6. CASE \/ EvaluateThrows \/ CloneThrows \/ Dies \/ \E z \in {0, 1} : Draw(z)
           \/ Finish \/ WalkThrows
  <2>1. UNCHANGED <<memo, memoBytes, fails, verify, mismatch>>
    BY <1>6 DEF EvaluateThrows, CloneThrows, Dies, Draw, Finish, WalkThrows
  <2> QED
    BY <1>2, <2>1, MemoUncounted
<1> QED
  BY <1>3, <1>4, <1>5, <1>6 DEF Walk

LEMMA StepIsCounted ==
    ASSUME IInv, MemoCounted, [Next]_vars
    PROVE  MemoCounted'
<1>1. fails \in Nat /\ verify \in BOOLEAN /\ mismatch \in BOOLEAN
  BY DEF MemoCounted
<1>2. CASE Walk
  BY <1>2, WalkIsCounted
<1>3. CASE MemoClear
  BY <1>1, <1>3, MemoEmptied DEF MemoClear
<1>4. CASE \/ \E p \in Plans : Begin(p) \/ Evict(p)
           \/ WindowCloses \/ Oracle \/ UNCHANGED vars
  <2>1. UNCHANGED <<memo, memoBytes, fails, mismatch>> /\ verify' \in BOOLEAN
    BY <1>1, <1>4 DEF Begin, Evict, WindowCloses, Oracle, vars
  <2> QED
    BY <1>1, <2>1, MemoUncounted
<1> QED
  BY <1>2, <1>3, <1>4 DEF Next

(* A walk never leaves its trie: what it draws leads to a kid, and kids are *)
(* in the trie.                                                             *)
LEMMA StepStaysInTrie ==
    ASSUME IInv, IInv', WalkInTrie, [Next]_vars
    PROVE  WalkInTrie'
<1>1. /\ tries \in [Plans -> Seq(Node)] /\ node \in Nat /\ plan \in Plans \cup {NoPlan}
      /\ tries' \in [Plans -> Seq(Node)] /\ node' \in Nat /\ KidsExist'
  BY DEF IInv, Types
<1>2. CASE \E p \in Plans : Begin(p)
  <2>1. PICK p \in Plans : Begin(p)
    BY <1>2
  <2>2. plan' = p /\ plan = NoPlan /\ node' = node /\ tries' = [tries EXCEPT ![p] = Rooted(p)]
    BY <2>1 DEF Begin
  <2>3. node = 0
    BY <2>2 DEF IInv, WalkOnItsPath
  <2>4. tries'[p] = Rooted(p) /\ Len(Rooted(p)) > 0
    <3>1. tries[p] \in Seq(Node)
      BY <1>1
    <3>2. CASE tries[p] = <<>>
      BY <1>1, <2>2, <3>2 DEF Rooted
    <3>3. CASE tries[p] # <<>>
      BY <1>1, <2>2, <3>1, <3>3 DEF Rooted
    <3> QED
      BY <3>2, <3>3
  <2> QED
    BY <2>2, <2>3, <2>4 DEF WalkInTrie
<1>3. CASE RootHit \/ Evaluate
  <2>1. PICK law : SetLaw(law)
    BY <1>3 DEF RootHit, Evaluate
  <2>2. plan' = plan /\ node' = node /\ plan # NoPlan
    BY <1>3 DEF RootHit, Evaluate, walkVars, MustEvaluate, Unfinished
  <2>3. tries[plan] \in Seq(Node) /\ plan \in Plans
    BY <1>1, <2>2
  <2>4. Len(tries'[plan]) = Len(tries[plan])
    BY <1>1, <2>1, <2>3 DEF SetLaw
  <2> QED
    BY <2>2, <2>4 DEF WalkInTrie
<1>4. CASE \E z \in {0, 1} : Draw(z)
  <2>1. PICK z \in {0, 1} : Draw(z)
    BY <1>4
  <2>2. /\ plan' = plan /\ plan \in Plans /\ tries' = [tries EXCEPT ![plan] = Grown(z)]
        /\ node' = Grown(z)[node + 1].kid[z] /\ plan # NoPlan
    BY <1>1, <2>1 DEF Draw, Unfinished
  <2>3. tries'[plan] = Grown(z)
    BY <1>1, <2>2
  <2>4. tries[plan] \in Seq(Node) /\ node + 1 \in DOMAIN tries[plan]
    BY <1>1, <2>2 DEF WalkInTrie
  <2>5. node + 1 \in DOMAIN Grown(z)
    <3> DEFINE more == [Trie EXCEPT ![node + 1].kid[z] = Len(Trie)]
               one == NewNode(Append(bits, z))
    <3>1. DOMAIN more = 1..Len(Trie) /\ node + 1 \in 1..Len(Trie) /\ Len(Trie) \in Nat
      BY <2>4 DEF Trie
    <3>2. Grown(z) = Trie \/ Grown(z) = Append(more, one)
      BY DEF Grown
    <3>3. Len(more) = Len(Trie)
      BY <2>4 DEF Trie
    <3> HIDE DEF more, one
    <3>4. node + 1 \in DOMAIN Append(more, one)
      BY <3>1, <3>3
    <3> QED
      BY <2>4, <3>2, <3>4 DEF Trie
  <2>6. tries'[plan][node + 1].kid[z] < Len(tries'[plan])
    BY <1>1, <2>2, <2>3, <2>5 DEF KidsExist
  <2> QED
    BY <2>2, <2>3, <2>6 DEF WalkInTrie
<1>5. CASE \/ RememberThrows \/ EvaluateThrows \/ CloneThrows \/ Dies
           \/ Finish \/ WalkThrows
  BY <1>5 DEF RememberThrows, EvaluateThrows, CloneThrows, Dies, Finish, WalkThrows, Stop, WalkInTrie
<1>6. CASE \/ \E p \in Plans : Evict(p)
           \/ MemoClear \/ WindowCloses \/ Oracle \/ UNCHANGED vars
  BY <1>6 DEF Evict, MemoClear, WindowCloses, Oracle, vars, walkVars, WalkInTrie
<1> QED
  BY <1>2, <1>3, <1>4, <1>5, <1>6 DEF Next, Walk

LEMMA CountedAlways == Spec => [](MemoCounted /\ WalkInTrie)
<1>1. Init => MemoCounted /\ WalkInTrie
  <2> SUFFICES ASSUME Init PROVE MemoCounted /\ WalkInTrie
    OBVIOUS
  <2>1. IsFiniteSet(DOMAIN memo) /\ Cardinality(DOMAIN memo) = 0
    <3>1. DOMAIN memo = {}
      BY DEF Init
    <3> QED
      BY <3>1, FS_EmptySet
  <2>2. memoBytes = 0 /\ fails \in Nat /\ verify \in BOOLEAN /\ mismatch \in BOOLEAN
    BY DEF Init
  <2>3. MemoCap \in Nat
    BY ConstantsAssumption
  <2>4. MemoCounted
    <3>1. DOMAIN memo \subseteq Direction
      BY DEF Init
    <3> QED
      BY <2>1, <2>2, <2>3, <3>1 DEF MemoCounted
  <2>5. WalkInTrie
    BY DEF Init, WalkInTrie
  <2> QED
    BY <2>4, <2>5
<1>2. /\ IInv /\ IInv' /\ MemoCounted /\ WalkInTrie /\ [Next]_vars
        => (MemoCounted /\ WalkInTrie)'
  BY StepIsCounted, StepStaysInTrie
<1> QED
  BY <1>1, <1>2, IInvAlways, PTL DEF Spec

(* Types, and with them: the root memo never outgrows its cap and is        *)
(* counted exactly until an insertion fails, kids and the current node are  *)
(* in their trie, and the carried depth is one of this walk.                *)
THEOREM TypesHold == Spec => []TypeOK
<1>1. IInv /\ MemoCounted /\ WalkInTrie => TypeOK
  <2> SUFFICES ASSUME IInv, MemoCounted, WalkInTrie PROVE TypeOK
    OBVIOUS
  <2>1. /\ tries \in [Plans -> Seq(Node)] /\ plan \in Plans \cup {NoPlan} /\ node \in Nat
        /\ bits \in Outcomes /\ depth \in Int /\ KidsExist /\ WalkOnItsPath
    BY DEF IInv, Types
  <2>2. ASSUME NEW p \in Plans, NEW n \in DOMAIN tries[p], NEW z \in {0, 1}
        PROVE  tries[p][n].kid[z] \in 0..(Len(tries[p]) - 1)
    <3>1. tries[p] \in Seq(Node) /\ tries[p][n] \in Node
      BY <2>1
    <3>2. tries[p][n].kid[z] \in Nat /\ Len(tries[p]) \in Nat
      BY <3>1 DEF Node
    <3>3. tries[p][n].kid[z] < Len(tries[p])
      BY <2>1 DEF KidsExist
    <3> QED
      BY <3>2, <3>3
  <2>3. plan # NoPlan => node \in 0..(Len(Trie) - 1)
    <3>1. plan # NoPlan => tries[plan] \in Seq(Node) /\ Len(tries[plan]) \in Nat
      BY <2>1
    <3> QED
      BY <2>1, <3>1 DEF WalkInTrie, Trie
  <2>4. plan # NoPlan => depth \in -1..Len(bits)
    BY <2>1 DEF WalkOnItsPath, Outcomes
  <2> QED
    BY <2>1, <2>2, <2>3, <2>4 DEF TypeOK, MemoCounted, Outcomes, IInv, Types, EvaluatedOnBoth
<1> QED
  BY <1>1, IInvAlways, CountedAlways, PTL

=============================================================================
