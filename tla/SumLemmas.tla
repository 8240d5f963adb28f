------------------------------ MODULE SumLemmas ------------------------------
(***************************************************************************)
(* Sums of the values of a function over a finite set: SumFunction and     *)
(* SumFunctionOnSet of the community module Functions, in which the totals *)
(* of the budget, the plan cache and the memo are written.  The library    *)
(* defines them by a fold that takes the elements in an order it chooses;  *)
(* the lemmas say that the order does not matter and how a sum changes.    *)
(* Induction is over the subsets of the set, as a least counterexample.    *)
(***************************************************************************)
EXTENDS Integers, Functions, FiniteSets, FiniteSetTheorems, WellFoundedInduction, TLAPS

AnyOf(s) == CHOOSE x \in s : TRUE

(* g is the fold's table: the sum over every subset of S. *)
IsSum(f, S, g) ==
    g = [s \in SUBSET S |-> IF s = {} THEN 0 ELSE f[AnyOf(s)] + g[s \ {AnyOf(s)}]]

(* Induction over the subsets of a finite set, as the least counterexample. *)
LEMMA LeastSubset ==
    ASSUME NEW S, IsFiniteSet(S), NEW T, T \subseteq SUBSET S, T # {}
    PROVE  \E m \in T : \A u \in SUBSET m : u # m => u \notin T
<1>1. T \subseteq FiniteSubsetsOf(S)
  BY FS_Subset DEF FiniteSubsetsOf
<1>2. PICK m \in T : \A u \in T : ~ (<<u, m>> \in StrictSubsetOrdering(S))
  BY <1>1, WFMin, FS_StrictSubsetOrderingWellFounded
<1>3. \A u \in SUBSET m : u # m => u \notin T
  <2> SUFFICES ASSUME NEW u \in SUBSET m, u # m, u \in T PROVE FALSE
    OBVIOUS
  <2>1. <<u, m>> \in StrictSubsetOrdering(S)
    BY DEF StrictSubsetOrdering
  <2> QED
    BY <1>2, <2>1
<1> QED
  BY <1>3

LEMMA AnyOfIn ==
    ASSUME NEW s, s # {}
    PROVE  AnyOf(s) \in s
BY DEF AnyOf

LEMMA SumIs ==
    ASSUME NEW f, NEW S
    PROVE  SumFunctionOnSet(f, S) = (CHOOSE g : IsSum(f, S, g))[S]
BY DEF SumFunctionOnSet, FoldFunctionOnSet, MapThenFoldSet, IsSum, AnyOf

LEMMA SumsAgree ==
    ASSUME NEW f, NEW A, NEW B, IsFiniteSet(A), NEW g, NEW h, IsSum(f, A, g), IsSum(f, B, h),
           NEW t \in SUBSET A, t \in SUBSET B
    PROVE  g[t] = h[t]
<1> DEFINE Bad == {s \in SUBSET A : s \in SUBSET B /\ g[s] # h[s]}
<1> SUFFICES ASSUME Bad # {} PROVE FALSE
  OBVIOUS
<1>1. PICK m \in Bad : \A u \in SUBSET m : u # m => u \notin Bad
  <2>1. Bad \subseteq SUBSET A
    OBVIOUS
  <2> HIDE DEF Bad
  <2> QED
    BY <2>1, LeastSubset
<1>2. /\ g[m] = IF m = {} THEN 0 ELSE f[AnyOf(m)] + g[m \ {AnyOf(m)}]
      /\ h[m] = IF m = {} THEN 0 ELSE f[AnyOf(m)] + h[m \ {AnyOf(m)}]
  BY DEF IsSum
<1>3. m # {} => g[m \ {AnyOf(m)}] = h[m \ {AnyOf(m)}]
  BY <1>1, AnyOfIn
<1> QED
  BY <1>2, <1>3

LEMMA SumExists ==
    ASSUME NEW f, NEW S, IsFiniteSet(S)
    PROVE  \E g : IsSum(f, S, g)
<1> DEFINE Bad == {s \in SUBSET S : ~ \E g : IsSum(f, s, g)}
<1> SUFFICES ASSUME Bad # {} PROVE FALSE
  OBVIOUS
<1>1. PICK m \in Bad : \A u \in SUBSET m : u # m => u \notin Bad
  <2>1. Bad \subseteq SUBSET S
    OBVIOUS
  <2> HIDE DEF Bad
  <2> QED
    BY <2>1, LeastSubset
<1>2. \A u \in SUBSET m : IsFiniteSet(u)
  BY FS_Subset
<1> DEFINE F(u) == CHOOSE g : IsSum(f, u, g)
           g == [s \in SUBSET m |-> IF s = {} THEN 0
                                    ELSE f[AnyOf(s)] + F(s \ {AnyOf(s)})[s \ {AnyOf(s)}]]
<1>3. ASSUME NEW u \in SUBSET m, u # m PROVE IsSum(f, u, F(u))
  BY <1>1, <1>3
<1>4. ASSUME NEW s \in SUBSET m, s # m PROVE g[s] = F(s)[s]
  <2>1. IsSum(f, s, F(s))
    BY <1>3, <1>4
  <2>2. F(s)[s] = IF s = {} THEN 0 ELSE f[AnyOf(s)] + F(s)[s \ {AnyOf(s)}]
    <3> HIDE DEF F
    <3> QED
      BY <2>1 DEF IsSum
  <2>3. CASE s # {}
    <3> DEFINE r == s \ {AnyOf(s)}
    <3>1. r \in SUBSET m /\ r # m /\ r \in SUBSET s
      BY <1>4
    <3>2. IsSum(f, r, F(r))
      BY <1>3, <3>1
    <3>3. F(s)[r] = F(r)[r]
      <4> HIDE DEF F, r
      <4> QED
        BY <1>2, <2>1, <3>1, <3>2, SumsAgree
    <3> QED
      BY <2>2, <2>3, <3>3
  <2> QED
    BY <2>2, <2>3
<1>5. IsSum(f, m, g)
  <2>1. ASSUME NEW s \in SUBSET m, s # {}
        PROVE  F(s \ {AnyOf(s)})[s \ {AnyOf(s)}] = g[s \ {AnyOf(s)}]
    BY <1>4, <2>1, AnyOfIn
  <2> HIDE DEF F
  <2> QED
    BY <2>1 DEF IsSum
<1> QED
  BY <1>5

(* The sum over a finite set is the recursion the fold states. *)
LEMMA SumRecursion ==
    ASSUME NEW f, NEW S, IsFiniteSet(S)
    PROVE  SumFunctionOnSet(f, S) = IF S = {} THEN 0 ELSE f[AnyOf(S)] + SumFunctionOnSet(f, S \ {AnyOf(S)})
<1> DEFINE F(u) == CHOOSE g : IsSum(f, u, g)
           r == S \ {AnyOf(S)}
<1>1. IsFiniteSet(r)
  BY FS_RemoveElement
<1>2. IsSum(f, S, F(S)) /\ IsSum(f, r, F(r))
  BY <1>1, SumExists
<1> HIDE DEF F
<1>3. F(S)[S] = IF S = {} THEN 0 ELSE f[AnyOf(S)] + F(S)[r]
  BY <1>2 DEF IsSum
<1>4. F(S)[r] = F(r)[r]
  <2>1. r \in SUBSET r /\ r \in SUBSET S
    OBVIOUS
  <2> HIDE DEF r
  <2> QED
    BY <1>2, <2>1, SumsAgree
<1>5. SumFunctionOnSet(f, S) = F(S)[S] /\ SumFunctionOnSet(f, r) = F(r)[r]
  BY SumIs DEF F
<1> QED
  BY <1>3, <1>4, <1>5

LEMMA SumEmpty == \A f : SumFunctionOnSet(f, {}) = 0
BY SumRecursion, FS_EmptySet

LEMMA SumType ==
    ASSUME NEW f, NEW S, IsFiniteSet(S), \A x \in S : f[x] \in Int
    PROVE  SumFunctionOnSet(f, S) \in Int
<1> DEFINE Bad == {s \in SUBSET S : SumFunctionOnSet(f, s) \notin Int}
<1> SUFFICES ASSUME Bad # {} PROVE FALSE
  OBVIOUS
<1>1. PICK m \in Bad : \A u \in SUBSET m : u # m => u \notin Bad
  <2>1. Bad \subseteq SUBSET S
    OBVIOUS
  <2> HIDE DEF Bad
  <2> QED
    BY <2>1, LeastSubset
<1>2. IsFiniteSet(m)
  BY FS_Subset
<1>3. m # {} => AnyOf(m) \in m /\ SumFunctionOnSet(f, m \ {AnyOf(m)}) \in Int
  BY <1>1, AnyOfIn
<1>4. SumFunctionOnSet(f, m) = IF m = {} THEN 0 ELSE f[AnyOf(m)] + SumFunctionOnSet(f, m \ {AnyOf(m)})
  BY <1>2, SumRecursion
<1>5. SumFunctionOnSet(f, m) \in Int
  <2>1. m # {} => f[AnyOf(m)] \in Int
    BY <1>3
  <2> QED
    BY <1>3, <1>4, <2>1
<1> QED
  BY <1>5

(* Any element may be taken out first. *)
LEMMA SumRemove ==
    ASSUME NEW f, NEW S, IsFiniteSet(S), \A x \in S : f[x] \in Int, NEW a \in S
    PROVE  SumFunctionOnSet(f, S) = f[a] + SumFunctionOnSet(f, S \ {a})
<1> DEFINE Off(s, b) == SumFunctionOnSet(f, s) # f[b] + SumFunctionOnSet(f, s \ {b})
           Bad == {s \in SUBSET S : \E b \in s : Off(s, b)}
<1> SUFFICES ASSUME Bad # {} PROVE FALSE
  OBVIOUS
<1>1. PICK m \in Bad : \A u \in SUBSET m : u # m => u \notin Bad
  <2>1. Bad \subseteq SUBSET S
    OBVIOUS
  <2> HIDE DEF Bad
  <2> QED
    BY <2>1, LeastSubset
<1>2. PICK b \in m : Off(m, b)
  OBVIOUS
<1> DEFINE c == AnyOf(m)
<1>3. c \in m /\ \A u \in SUBSET m : IsFiniteSet(u)
  BY <1>2, AnyOfIn, FS_Subset
<1>4. SumFunctionOnSet(f, m) = f[c] + SumFunctionOnSet(f, m \ {c})
  BY <1>3, SumRecursion
<1>5. c # b
  BY <1>2, <1>4
<1>6. SumFunctionOnSet(f, m \ {c}) = f[b] + SumFunctionOnSet(f, (m \ {c}) \ {b})
  <2>1. (m \ {c}) \notin Bad
    BY <1>1, <1>3
  <2> QED
    BY <1>5, <2>1
<1>7. SumFunctionOnSet(f, m \ {b}) = f[c] + SumFunctionOnSet(f, (m \ {b}) \ {c})
  <2>1. (m \ {b}) \notin Bad
    BY <1>1
  <2> QED
    BY <1>3, <1>5, <2>1
<1>8. (m \ {c}) \ {b} = (m \ {b}) \ {c}
  OBVIOUS
<1>9. SumFunctionOnSet(f, (m \ {b}) \ {c}) \in Int
  BY <1>3, SumType
<1>10. f[b] \in Int /\ f[c] \in Int
  BY <1>3
<1>11. SumFunctionOnSet(f, m) = f[b] + SumFunctionOnSet(f, m \ {b})
  <2> DEFINE rest == SumFunctionOnSet(f, (m \ {b}) \ {c})
  <2>1. SumFunctionOnSet(f, m \ {c}) = f[b] + rest /\ SumFunctionOnSet(f, m \ {b}) = f[c] + rest /\ rest \in Int
    BY <1>6, <1>7, <1>8, <1>9, Zenon
  <2> HIDE DEF c, rest
  <2> QED
    BY <1>4, <1>10, <2>1
<1> QED
  BY <1>2, <1>11

(* Two functions, one no more than the other. *)
LEMMA SumMonotone ==
    ASSUME NEW f, NEW g, NEW S, IsFiniteSet(S),
           \A x \in S : f[x] \in Int /\ g[x] \in Int /\ f[x] <= g[x]
    PROVE  SumFunctionOnSet(f, S) <= SumFunctionOnSet(g, S)
<1> DEFINE Bad == {s \in SUBSET S : ~ (SumFunctionOnSet(f, s) <= SumFunctionOnSet(g, s))}
<1> SUFFICES ASSUME Bad # {} PROVE FALSE
  OBVIOUS
<1>1. PICK m \in Bad : \A u \in SUBSET m : u # m => u \notin Bad
  <2>1. Bad \subseteq SUBSET S
    OBVIOUS
  <2> HIDE DEF Bad
  <2> QED
    BY <2>1, LeastSubset
<1>2. \A u \in SUBSET m : IsFiniteSet(u) /\ SumFunctionOnSet(f, u) \in Int /\ SumFunctionOnSet(g, u) \in Int
  BY FS_Subset, SumType
<1>3. m # {}
  BY SumEmpty
<1> DEFINE c == AnyOf(m)
<1>4. c \in m /\ SumFunctionOnSet(f, m \ {c}) <= SumFunctionOnSet(g, m \ {c})
  BY <1>1, <1>3, AnyOfIn
<1>5. SumFunctionOnSet(f, m) = f[c] + SumFunctionOnSet(f, m \ {c}) /\ SumFunctionOnSet(g, m) = g[c] + SumFunctionOnSet(g, m \ {c})
  BY <1>2, <1>3, SumRecursion
<1> HIDE DEF c
<1> QED
  BY <1>2, <1>4, <1>5

LEMMA SumSame ==
    ASSUME NEW f, NEW g, NEW S, IsFiniteSet(S), \A x \in S : f[x] \in Int /\ g[x] = f[x]
    PROVE  SumFunctionOnSet(g, S) = SumFunctionOnSet(f, S)
<1>1. SumFunctionOnSet(f, S) <= SumFunctionOnSet(g, S) /\ SumFunctionOnSet(g, S) <= SumFunctionOnSet(f, S)
  BY SumMonotone
<1>2. SumFunctionOnSet(f, S) \in Int /\ SumFunctionOnSet(g, S) \in Int
  BY SumType
<1> QED
  BY <1>1, <1>2

(* Two functions that differ at one point. *)
LEMMA SumChange ==
    ASSUME NEW f, NEW g, NEW S, IsFiniteSet(S), NEW a \in S,
           \A x \in S : f[x] \in Int /\ g[x] \in Int,
           \A x \in S \ {a} : g[x] = f[x]
    PROVE  SumFunctionOnSet(g, S) = SumFunctionOnSet(f, S) - f[a] + g[a]
<1>1. IsFiniteSet(S \ {a})
  BY FS_RemoveElement
<1>2. SumFunctionOnSet(f, S) = f[a] + SumFunctionOnSet(f, S \ {a}) /\ SumFunctionOnSet(g, S) = g[a] + SumFunctionOnSet(g, S \ {a})
  BY SumRemove
<1>3. SumFunctionOnSet(g, S \ {a}) = SumFunctionOnSet(f, S \ {a}) /\ SumFunctionOnSet(f, S \ {a}) \in Int
  BY <1>1, SumSame, SumType
<1> QED
  BY <1>2, <1>3

(* The sum of sums. *)
LEMMA SumAdd ==
    ASSUME NEW f, NEW g, NEW h, NEW S, IsFiniteSet(S),
           \A x \in S : f[x] \in Int /\ g[x] \in Int /\ h[x] = f[x] + g[x]
    PROVE  SumFunctionOnSet(h, S) = SumFunctionOnSet(f, S) + SumFunctionOnSet(g, S)
<1> DEFINE Bad == {s \in SUBSET S : SumFunctionOnSet(h, s) # SumFunctionOnSet(f, s) + SumFunctionOnSet(g, s)}
<1> SUFFICES ASSUME Bad # {} PROVE FALSE
  OBVIOUS
<1>1. PICK m \in Bad : \A u \in SUBSET m : u # m => u \notin Bad
  <2>1. Bad \subseteq SUBSET S
    OBVIOUS
  <2> HIDE DEF Bad
  <2> QED
    BY <2>1, LeastSubset
<1>2. \A u \in SUBSET m : IsFiniteSet(u) /\ SumFunctionOnSet(f, u) \in Int /\ SumFunctionOnSet(g, u) \in Int
  BY FS_Subset, SumType
<1>3. m # {}
  <2>1. SumFunctionOnSet(f, {}) = 0 /\ SumFunctionOnSet(g, {}) = 0 /\ SumFunctionOnSet(h, {}) = 0
    BY SumEmpty
  <2>2. {} \notin Bad
    BY <2>1
  <2> QED
    BY <2>2
<1> DEFINE c == AnyOf(m)
           r == m \ {c}
<1>4. c \in m /\ SumFunctionOnSet(h, r) = SumFunctionOnSet(f, r) + SumFunctionOnSet(g, r)
  BY <1>1, <1>3, AnyOfIn
<1>5. SumFunctionOnSet(f, m) = f[c] + SumFunctionOnSet(f, r) /\ SumFunctionOnSet(g, m) = g[c] + SumFunctionOnSet(g, r)
      /\ SumFunctionOnSet(h, m) = h[c] + SumFunctionOnSet(h, r)
  BY <1>2, <1>3, SumRecursion
<1>6. h[c] = f[c] + g[c] /\ f[c] \in Int /\ g[c] \in Int
      /\ SumFunctionOnSet(f, r) \in Int /\ SumFunctionOnSet(g, r) \in Int
  BY <1>2, <1>4
<1>7. SumFunctionOnSet(h, m) = SumFunctionOnSet(f, m) + SumFunctionOnSet(g, m)
  <2> HIDE DEF c, r, Bad
  <2> QED
    BY <1>4, <1>5, <1>6
<1> QED
  BY <1>7

(* Equal values, renamed places: p maps S one to one onto the places of g.  *)
LEMMA SumRenamed ==
    ASSUME NEW f, NEW g, NEW p, NEW S, IsFiniteSet(S),
           \A x \in S : f[x] \in Int /\ g[p[x]] = f[x],
           \A x, y \in S : p[x] = p[y] => x = y
    PROVE  SumFunctionOnSet(g, {p[x] : x \in S}) = SumFunctionOnSet(f, S)
<1> DEFINE Img(s) == {p[x] : x \in s}
           Bad == {s \in SUBSET S : SumFunctionOnSet(g, Img(s)) # SumFunctionOnSet(f, s)}
<1> SUFFICES ASSUME Bad # {} PROVE FALSE
  OBVIOUS
<1>1. PICK m \in Bad : \A u \in SUBSET m : u # m => u \notin Bad
  <2>1. Bad \subseteq SUBSET S
    OBVIOUS
  <2> HIDE DEF Bad
  <2> QED
    BY <2>1, LeastSubset
<1>2. m # {}
  <2>1. Img({}) = {}
    OBVIOUS
  <2>2. SumFunctionOnSet(g, {}) = 0 /\ SumFunctionOnSet(f, {}) = 0
    BY SumEmpty
  <2>3. {} \notin Bad
    BY <2>1, <2>2, Zenon
  <2> QED
    BY <2>3
<1> DEFINE c == AnyOf(m)
           r == m \ {c}
<1>3. c \in m /\ r \in SUBSET S /\ SumFunctionOnSet(g, Img(r)) = SumFunctionOnSet(f, r)
  BY <1>1, <1>2, AnyOfIn
<1>4. IsFiniteSet(m)
  BY FS_Subset
<1>5. SumFunctionOnSet(f, m) = f[c] + SumFunctionOnSet(f, r)
  BY <1>2, <1>4, SumRecursion
<1>6. IsFiniteSet(Img(m)) /\ p[c] \in Img(m) /\ Img(m) \ {p[c]} = Img(r)
  <2>1. IsFiniteSet(Img(m))
    <3>1. [x \in m |-> p[x]] \in Surjection(m, Img(m))
      BY DEF Surjection
    <3> QED
      BY <1>4, <3>1, FS_Surjection
  <2>2. p[c] \in Img(m) /\ Img(m) \ {p[c]} = Img(r)
    <3>1. c \in m /\ m \subseteq S
      BY <1>3
    <3> HIDE DEF c
    <3> QED
      BY <3>1
  <2> QED
    BY <2>1, <2>2
<1>7. \A y \in Img(m) : g[y] \in Int
  OBVIOUS
<1>8. SumFunctionOnSet(g, Img(m)) = g[p[c]] + SumFunctionOnSet(g, Img(r))
  <2> HIDE DEF Img
  <2>1. SumFunctionOnSet(g, Img(m)) = g[p[c]] + SumFunctionOnSet(g, Img(m) \ {p[c]})
    BY <1>6, <1>7, SumRemove
  <2> QED
    BY <1>6, <2>1, Zenon
<1>9. g[p[c]] = f[c]
  BY <1>3
<1>10. SumFunctionOnSet(g, Img(m)) = SumFunctionOnSet(f, m)
  BY <1>3, <1>5, <1>8, <1>9, Zenon
<1> QED
  BY <1>10

(* The sum over two sets without a common element. *)
LEMMA SumUnion ==
    ASSUME NEW f, NEW S, NEW T, IsFiniteSet(S), IsFiniteSet(T), S \cap T = {},
           \A x \in S \cup T : f[x] \in Int
    PROVE  SumFunctionOnSet(f, S \cup T) = SumFunctionOnSet(f, S) + SumFunctionOnSet(f, T)
<1> DEFINE Bad == {s \in SUBSET S :
                     SumFunctionOnSet(f, s \cup T)
                       # SumFunctionOnSet(f, s) + SumFunctionOnSet(f, T)}
<1> SUFFICES ASSUME Bad # {} PROVE FALSE
  OBVIOUS
<1>1. PICK m \in Bad : \A u \in SUBSET m : u # m => u \notin Bad
  <2>1. Bad \subseteq SUBSET S
    OBVIOUS
  <2> HIDE DEF Bad
  <2> QED
    BY <2>1, LeastSubset
<1>2. m # {}
  <2>1. SumFunctionOnSet(f, {}) = 0 /\ SumFunctionOnSet(f, T) \in Int /\ {} \cup T = T
    BY SumEmpty, SumType
  <2>2. SumFunctionOnSet(f, {} \cup T) = SumFunctionOnSet(f, T)
    BY <2>1, Zenon
  <2>3. {} \notin Bad
    BY <2>1, <2>2
  <2> QED
    BY <2>3
<1> DEFINE c == AnyOf(m)
           r == m \ {c}
<1>3. /\ c \in m
      /\ SumFunctionOnSet(f, r \cup T) = SumFunctionOnSet(f, r) + SumFunctionOnSet(f, T)
  BY <1>1, <1>2, AnyOfIn
<1>4. IsFiniteSet(m) /\ IsFiniteSet(r) /\ IsFiniteSet(m \cup T)
  BY FS_Subset, FS_Union
<1>5. SumFunctionOnSet(f, m) = f[c] + SumFunctionOnSet(f, r)
  BY <1>2, <1>4, SumRecursion
<1>6. (m \cup T) \ {c} = r \cup T /\ c \in m \cup T /\ f[c] \in Int
  BY <1>3
<1>7. SumFunctionOnSet(f, m \cup T) = f[c] + SumFunctionOnSet(f, r \cup T)
  <2>1. \A x \in m \cup T : f[x] \in Int
    OBVIOUS
  <2>2. SumFunctionOnSet(f, m \cup T) = f[c] + SumFunctionOnSet(f, (m \cup T) \ {c})
    <3> HIDE DEF c
    <3> QED
      BY <1>4, <1>6, <2>1, SumRemove
  <2> QED
    BY <1>6, <2>2, Zenon
<1>8. SumFunctionOnSet(f, r) \in Int /\ SumFunctionOnSet(f, T) \in Int
  BY <1>4, SumType
<1>9. SumFunctionOnSet(f, m \cup T) = SumFunctionOnSet(f, m) + SumFunctionOnSet(f, T)
  <2> HIDE DEF c, r, Bad
  <2> QED
    BY <1>3, <1>5, <1>6, <1>7, <1>8
<1> QED
  BY <1>9

(* The sum of natural numbers is one, and no less than any of them. *)
LEMMA SumNat ==
    ASSUME NEW f, NEW S, IsFiniteSet(S), \A x \in S : f[x] \in Nat
    PROVE  /\ SumFunctionOnSet(f, S) \in Nat
           /\ \A x \in S : f[x] <= SumFunctionOnSet(f, S)
<1> DEFINE Bad == {s \in SUBSET S : SumFunctionOnSet(f, s) \notin Nat}
<1>1. ASSUME Bad # {} PROVE FALSE
  <2>1. PICK m \in Bad : \A u \in SUBSET m : u # m => u \notin Bad
    <3>1. Bad \subseteq SUBSET S
      OBVIOUS
    <3> HIDE DEF Bad
    <3> QED
      BY <1>1, <3>1, LeastSubset
  <2>2. SumFunctionOnSet(f, m) =
            IF m = {} THEN 0 ELSE f[AnyOf(m)] + SumFunctionOnSet(f, m \ {AnyOf(m)})
    BY FS_Subset, SumRecursion
  <2>3. m # {} => f[AnyOf(m)] \in Nat /\ SumFunctionOnSet(f, m \ {AnyOf(m)}) \in Nat
    BY <2>1, AnyOfIn
  <2>4. SumFunctionOnSet(f, m) \in Nat
    BY <2>2, <2>3
  <2> QED
    BY <2>4
<1>2. \A s \in SUBSET S : SumFunctionOnSet(f, s) \in Nat
  BY <1>1
<1>3. ASSUME NEW x \in S PROVE f[x] <= SumFunctionOnSet(f, S)
  <2>1. SumFunctionOnSet(f, S) = f[x] + SumFunctionOnSet(f, S \ {x})
    BY SumRemove
  <2>2. SumFunctionOnSet(f, S \ {x}) \in Nat /\ f[x] \in Nat
    BY <1>2
  <2> QED
    BY <2>1, <2>2
<1> QED
  BY <1>2, <1>3

LEMMA SumZero ==
    ASSUME NEW f, NEW S, IsFiniteSet(S), \A x \in S : f[x] = 0
    PROVE  SumFunctionOnSet(f, S) = 0
<1> DEFINE Bad == {s \in SUBSET S : SumFunctionOnSet(f, s) # 0}
<1> SUFFICES ASSUME Bad # {} PROVE FALSE
  OBVIOUS
<1>1. PICK m \in Bad : \A u \in SUBSET m : u # m => u \notin Bad
  <2>1. Bad \subseteq SUBSET S
    OBVIOUS
  <2> HIDE DEF Bad
  <2> QED
    BY <2>1, LeastSubset
<1>2. SumFunctionOnSet(f, m) =
          IF m = {} THEN 0 ELSE f[AnyOf(m)] + SumFunctionOnSet(f, m \ {AnyOf(m)})
  BY FS_Subset, SumRecursion
<1>3. m # {} => f[AnyOf(m)] = 0 /\ SumFunctionOnSet(f, m \ {AnyOf(m)}) = 0
  BY <1>1, AnyOfIn
<1>4. SumFunctionOnSet(f, m) = 0
  BY <1>2, <1>3
<1> QED
  BY <1>4

=============================================================================
