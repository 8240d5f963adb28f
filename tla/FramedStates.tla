---------------------------- MODULE FramedStates ----------------------------
(***************************************************************************)
(* The bare state as the samplers keep it, and its measurements            *)
(* (src/framed_superposition.cpp, src/reference_records.cpp): the sum of   *)
(* StabSums without its anchor.  The branch v stands for the product of    *)
(* the d[a], a in v, on the state on which every g[a] has the sign of      *)
(* eps.  Coefficients are not normalized, branches of coefficient 0 are    *)
(* not kept, and probabilities are pairs: numerator and denominator.       *)
(***************************************************************************)
EXTENDS StabSums

\* The anchor is left behind.
Framed(S) == [n |-> S.n, g |-> S.g, d |-> S.d, eps |-> S.eps, free |-> S.free, c |-> S.c]

\* p seen through the frame: X on a for d[a], Z on a for g[a].
InFrame(F, p) ==
    LET x == {a \in 1 .. F.n : Anti(p, F.g[a])}
        z == {a \in 1 .. F.n : Anti(p, F.d[a])}
    IN  Pauli(x, z, p.ph - Times(ProductOver(F.d, x), ProductOver(F.g, z)).ph)

SignedRow(F, a) == Phased(F.g[a], IF a \in F.eps THEN 2 ELSE 0)

\* The Paulis that fix every branch.
Certified(F) ==
    LET fixed == Ascending((1 .. F.n) \ F.free) IN [k \in DOMAIN fixed |-> SignedRow(F, fixed[k])]

Constant(c, a) == \A v, w \in DOMAIN c : (a \in v) = (a \in w)

Coefficient(c, v) == IF v \in DOMAIN c THEN c[v] ELSE X!Nought

Pruned(c) == [v \in {w \in DOMAIN c : c[w] # X!Nought} |-> c[v]]

\* i^k c, turned once more by Z on the odd overlaps with z.
Sign(k, z, v) == 2 * k + 4 * Cardinality(z \cap v)

-----------------------------------------------------------------------------
(* Expectations. *)

\* Mutant: the signs all branches share are not decoded.
OnBranchesUnsigned(F, Q) ==
    [v \in {SymDiff(w, Q.x) : w \in DOMAIN F.c} |->
        X!Turn(F.c[SymDiff(v, Q.x)], Sign(Q.ph, Q.z, SymDiff(v, Q.x)))]

\* The Pauli Q of the frame, without X off "free", on the branches.
OnBranches(F, Q) ==
    [v \in {SymDiff(w, Q.x) : w \in DOMAIN F.c} |->
        LET w == SymDiff(v, Q.x)
        IN  X!Turn(F.c[w], Sign(Q.ph, Q.z, w) + 4 * Cardinality(Q.z \cap F.eps))]

Overlap(c, e) ==
    FoldSet(LAMBDA v, acc : X!Plus(acc, X!Mult(X!Conjugated(c[v]), e[v])), X!Nought,
            DOMAIN c \cap DOMAIN e)

Weight(c) == Overlap(c, c)

\* <p> times the weight: 0 if p moves a generator all branches share.
Expectation(F, p) ==
    LET Q == InFrame(F, p)
    IN  IF Q.x \subseteq F.free THEN Overlap(F.c, OnBranches(F, Q)) ELSE X!Nought

\* Whether the outcome m of p has a probability other than 0.
MayRead(F, p, m) ==
    X!Plus(Weight(F.c), X!Turn(Expectation(F, p), IF m = 1 THEN 0 ELSE 4)) # X!Nought

-----------------------------------------------------------------------------
(* measure_pauli. *)

\* p moves the generator j of all branches: a fair coin, after which it is
\* the j-th generator.
FairRead(F, p, Q, j, m) ==
    LET s == SignedRow(F, j)
        Gen(a) == IF a = j THEN Phased(p, IF m = 1 THEN 0 ELSE 2)
                  ELSE IF a \in Q.x THEN Times(SignedRow(F, a), s) ELSE F.g[a]
        Dst(a) == IF a = j THEN s
                  ELSE IF Anti(F.d[a], p) THEN Times(F.d[a], s) ELSE F.d[a]
    IN  [F EXCEPT !.g = [a \in DOMAIN @ |-> Gen(a)], !.d = [a \in DOMAIN @ |-> Dst(a)],
                  !.eps = @ \ Q.x]

\* Coordinates that no longer vary leave "free".
Compacted(F) ==
    LET gone == {a \in F.free : Constant(F.c, a)}
        ones == {a \in gone : \A v \in DOMAIN F.c : a \in v}
    IN  [F EXCEPT !.free = @ \ gone, !.eps = SymDiff(@, ones),
                  !.c = [v \in {w \ gone : w \in DOMAIN @} |-> @[v \cup ones]]]

Refined(F, Q, m) ==
    LET e == OnBranches(F, Q)
        At(v) == X!Plus(Coefficient(F.c, v), X!Turn(Coefficient(e, v), IF m = 1 THEN 0 ELSE 4))
    IN  Compacted([F EXCEPT !.c = Pruned([v \in DOMAIN F.c \cup DOMAIN e |-> At(v)])])

MeasurePauli(F, p, m) ==
    LET Q == InFrame(F, p)
    IN  IF Q.x \subseteq F.free THEN Refined(F, Q, m)
        ELSE FairRead(F, p, Q, Min(Q.x \ F.free), m)

-----------------------------------------------------------------------------
(* The collapse that merges branches. *)

\* Of two rows of signs the first that is 0 where they first differ.
FirstOf(rows) == CHOOSE r \in rows : \A s \in rows : s = r \/ Min(SymDiff(r, s)) \in s

\* The generator to give up: one whose sign varies, one of "free", any.
Pivot(F, A) ==
    LET varying == {a \in A \cap F.free : ~Constant(F.c, a)}
    IN  Min(IF varying # {} THEN varying ELSE IF A \cap F.free # {} THEN A \cap F.free ELSE A)

\* Every generator p moves takes the pivot in, so that p moves the pivot only;
\* rows are the signs each branch has after that, Q is p in the new frame.
PivotFrame(F, Q, p) ==
    LET others == Q.x \ {p}
    IN  [g    |-> [a \in DOMAIN F.g |-> IF a \in others THEN Times(F.g[a], F.g[p]) ELSE F.g[a]],
         d    |-> [F.d EXCEPT ![p] = Times(@, ProductOver(F.d, others))],
         rows |-> [v \in DOMAIN F.c |-> LET r == SymDiff(F.eps, v)
                                        IN  IF p \in r THEN SymDiff(r, others) ELSE r],
         Q    |-> FoldLeft(LAMBDA r, a : Conj("CX", <<p, a>>, r), Q, Ascending(others))]

Post(G, p, v) == G.rows[v] \ {p}

\* The branches that end on the signs k, by the pivot's sign.
EndingOn(G, p, k, b) == {v \in DOMAIN G.rows : Post(G, p, v) = k /\ (p \in G.rows[v]) = b}

\* The conjugate of P's phase on a branch, and the outcome.
Back(Q, row, m) == Unit((IF m = 1 THEN 0 ELSE 4) - Sign(Q.ph, Q.z, row))

\* v, w: the branches without and with the pivot's sign, at most one each.
Survivor(c, G, v, w, m) ==
    IF v = {} THEN LET b == CHOOSE b \in w : TRUE IN [rep |-> b, c |-> c[b]]
    ELSE LET a == CHOOSE a \in v : TRUE
         IN  [rep |-> a, c |-> FoldSet(LAMBDA b, acc : X!Plus(acc, X!Mult(Back(G.Q, G.rows[a], m), c[b])),
                                       c[a], w)]

\* Branches that differ in the pivot only become one: those that survive, a
\* set of signs each, with the branch they are derived from.
Kept(sv) == [k \in {k \in DOMAIN sv : sv[k].c # X!Nought} |-> sv[k]]

Survivors(F, G, p, m) ==
    Kept([k \in {Post(G, p, v) : v \in DOMAIN F.c} |->
             Survivor(F.c, G, EndingOn(G, p, k, FALSE), EndingOn(G, p, k, TRUE), m)])

\* The frame with P for the pivot's generator, on the survivor k0.
MergedFrame(F, P, m, G, p, k0) ==
    [F EXCEPT
        !.g = [G.g EXCEPT ![p] = Phased(P, IF m = 1 THEN 0 ELSE 2)],
        !.d = [a \in DOMAIN @ |-> IF a = p THEN F.g[p]
                                  ELSE IF Anti(G.d[a], P) THEN Times(G.d[a], F.g[p]) ELSE G.d[a]],
        !.eps = k0]

\* The survivors in which a differs from k0, where there are any.
VaryingIn(n, K, k0) ==
    [a \in {a \in 1 .. n : \E k \in K : (a \in k) # (a \in k0)} |->
        {k \in K : (a \in k) # (a \in k0)}]

\* Mutant: the carrier is derived by what moves P as well.
Uncommuted(F, P, p, w) == w

Commuted(F, P, p, w) == IF Anti(w, P) THEN Times(w, SignedRow(F, p)) ELSE w

Relabelled(r, sv, In, x0) ==
    LET Label(k) == SymDiff(In[k].x, x0) \cap r.basis
    IN  [r.S EXCEPT
            !.free = r.basis,
            !.c = [v \in {Label(k) : k \in DOMAIN sv} |->
                      LET k == CHOOSE k \in DOMAIN sv : Label(k) = v
                      IN  X!Turn(sv[k].c, Sign(In[k].ph, In[k].z, SymDiff(r.S.eps, x0)))]]

\* Every survivor is derived from its branch by a Pauli that commutes with P.
Derived(F, P, p, sv, k0, r) ==
    LET In == [k \in DOMAIN sv |->
                  InFrame(r.S, Commuted(F, P, p, ProductOver(F.d, sv[k].rep)))]
    IN  Relabelled(r, sv, In, In[k0].x)

MergedOn(F, P, m, G, p, sv, k0) ==
    Settled(Derived(F, P, p, sv, k0,
                    Rebase(MergedFrame(F, P, m, G, p, k0), VaryingIn(F.n, DOMAIN sv, k0)))).sum

MergedTo(F, P, m, G, p, sv) == MergedOn(F, P, m, G, p, sv, FirstOf(DOMAIN sv))

MergedAt(F, P, m, G, p) == MergedTo(F, P, m, G, p, Survivors(F, G, p, m))

MergedBy(F, P, m, Q, p) == MergedAt(F, P, m, PivotFrame(F, Q, p), p)

Merged(F, P, Q, m) == MergedBy(F, P, m, Q, Pivot(F, Q.x))

\* The branches on which a Pauli that moves no generator reads m.
SplitTo(F, Q, m) ==
    LET Reads(v) == ((Sign(Q.ph, Q.z, SymDiff(F.eps, v))) % 8 = 0) = (m = 1)
    IN  Settled([F EXCEPT !.c = [v \in {w \in DOMAIN @ : Reads(w)} |-> @[v]]]).sum

MergeOrSplit(F, p, Q, m) == IF Q.x # {} THEN Merged(F, p, Q, m) ELSE SplitTo(F, Q, m)

MeasureMerging(F, p, m) == MergeOrSplit(F, p, InFrame(F, p), m)

-----------------------------------------------------------------------------
(* Reads that no branch tells apart. *)

\* The read touches a direction in which the branches differ.
Couples(F, p) == \E a \in F.free : Anti(p, F.g[a]) \/ Anti(p, F.d[a])

NoReads == [coins |-> <<>>, out |-> <<>>]

\* The read as seen behind the coins drawn so far.
Behind(F, st, p) ==
    FoldLeft(LAMBDA r, c : IF c.pivot \in r.Q.x
                           THEN [Q |-> Times(r.Q, c.Q), flip |-> r.flip # c.one] ELSE r,
             [Q |-> InFrame(F, p), flip |-> FALSE], st.coins)

\* The next read is 1, if "one" and it is a coin, or what it has to be.
ReadNext(F, st, p, one) ==
    LET r == Behind(F, st, p)
        fixed == (Sign(r.Q.ph, r.Q.z, F.eps) % 8 = 4) # r.flip
    IN  IF r.Q.x = {} THEN [st EXCEPT !.out = Append(@, fixed)]
        ELSE [coins |-> Append(st.coins, [Q |-> r.Q, pivot |-> Min(r.Q.x), one |-> one # r.flip]),
              out   |-> Append(st.out, one)]

-----------------------------------------------------------------------------
(* The reference: every read takes the outcome the user would call +1, when  *)
(* it can.  Feedback that was left to the relabel flips later records.       *)

\* toward[k] is the outcome of read k that no feedback has flipped, invert
\* the records that are reported inverted, plan the feedback.
ReferenceStart(F) == [F |-> F, st |-> NoReads, R |-> <<>>, flip |-> {}]

ReferenceStep(acc, p, toward, invert, plan) ==
    LET k    == Len(acc.R) + 1
        want == toward # (k \in acc.flip)
        m    == IF MayRead(acc.F, p, IF want THEN -1 ELSE 1) = want THEN -1 ELSE 1
        whole == Cardinality(DOMAIN acc.F.c) > 1
        st   == IF whole THEN [acc.st EXCEPT !.out = Append(@, m = -1)]
                ELSE ReadNext(acc.F, acc.st, p, want)
        R    == Append(acc.R, (st.out[k] # invert) # (k \in acc.flip))
        moves == InFrame(acc.F, p).x # {} \/ MayRead(acc.F, p, -m)
    IN  [F |-> IF whole /\ moves THEN MeasureMerging(acc.F, p, m) ELSE acc.F,
         st |-> st, R |-> R,
         flip |-> IF R[k] THEN FoldLeft(LAMBDA s, op : IF op.control = k THEN SymDiff(s, op.reads) ELSE s,
                                        acc.flip, plan)
                  ELSE acc.flip]

-----------------------------------------------------------------------------
(* A walk along the directions of a plan (src/twirl_kernel_sampler.cpp), on  *)
(* coefficients whose coordinates stay what they were.                      *)

\* ok: no generator all branches share is moved.
DirectionOf(F, Q) ==
    [a |-> Q.x, b |-> Q.z \cap F.free, ph |-> Q.ph, par |-> Odd(Q.z \cap F.eps),
     ok |-> Q.x \subseteq F.free]

FreeDir(F, p) == DirectionOf(F, InFrame(F, p))

TurnOf(dir, m) == 2 * dir.ph + (IF dir.par THEN 4 ELSE 0) + (IF m = 1 THEN 0 ELSE 4)

\* Mutant: the coefficients are shifted before their signs are set.
ShiftedFirst(c, dir, m) ==
    [v \in {SymDiff(w, dir.a) : w \in DOMAIN c} |->
        X!Turn(c[SymDiff(v, dir.a)], TurnOf(dir, m) + 4 * Cardinality(dir.b \cap v))]

\* The direction on the coefficients, with the sign of the outcome.
Shifted(c, dir, m) ==
    [v \in {SymDiff(w, dir.a) : w \in DOMAIN c} |->
        X!Turn(c[SymDiff(v, dir.a)],
               TurnOf(dir, m) + 4 * Cardinality(dir.b \cap SymDiff(v, dir.a)))]

Added(c, e) ==
    Pruned([v \in DOMAIN c \cup DOMAIN e |-> X!Plus(Coefficient(c, v), Coefficient(e, v))])

\* The coefficients after the outcome m of the direction.
Walked(c, dir, m) == Added(c, Shifted(c, dir, m))

=============================================================================
