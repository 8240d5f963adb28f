----------------------------- MODULE TermRoute -----------------------------
(***************************************************************************)
(* The term view of a circuit and the residual of a shot over it           *)
(* (src/term_residual.cpp).  Every non-Clifford gate is a product of       *)
(* rotations exp(-i pi/8 A), the terms; the Paulis a fault fires commute   *)
(* through the Clifford gates, and each term they cross anticommuting      *)
(* turns into its inverse, which is the term times the S-type rotation     *)
(* rot(A) = exp(i pi/4 A).  The residual of a shot is (P, S): the noisy    *)
(* final state is P rot(S) on the clean one, rot(S) the product of the     *)
(* rot(B_j), j in S, about the axes B_j as seen at the end.                *)
(*                                                                         *)
(* Ops are what the circuit is rewritten to, noise sites kept in place; a  *)
(* term is named by its position, which merging never changes.             *)
(***************************************************************************)
EXTENDS PauliAlgebra, TLC

Clifford(g, on) == [kind |-> "gate", gate |-> g, on |-> on]
Term(S, sign)   == [kind |-> "term", axis |-> ZOn(S, sign)]
Fold(axis)      == [kind |-> "fold", axis |-> axis]
Site(s)         == [kind |-> "site", site |-> s]
Gone            == [kind |-> "gone"]

\* The terms of a diagonal gate: every set of its wires, even ones with -.
PhaseTerms(on) ==
    LET sets == SelectSeq(<<{1}, {2}, {3}, {1, 2}, {1, 3}, {2, 3}, {1, 2, 3}>>,
                          LAMBDA I : I \subseteq DOMAIN on)
    IN  [k \in DOMAIN sets |-> Term({on[i] : i \in sets[k]}, IF Odd(sets[k]) THEN 1 ELSE -1)]

\* CH is CZ between V-dagger and V, V = S H T H SDG on the target.
ControlledHTerms(c, q) ==
    LET in  == <<Clifford("SDG", <<q>>), Clifford("H", <<q>>)>>
        out == <<Clifford("H", <<q>>), Clifford("S", <<q>>)>>
    IN  in \o <<Term({q}, -1)>> \o out \o <<Clifford("CZ", <<c, q>>)>>
        \o in \o <<Term({q}, 1)>> \o out

OpsOf(ins) ==
    CASE ins.op = "gate" /\ ins.gate \in Diagonal -> PhaseTerms(ins.on)
      [] ins.op = "gate" /\ ins.gate = "CH" -> ControlledHTerms(ins.on[1], ins.on[2])
      [] ins.op = "gate" /\ ins.gate \notin NonClifford -> <<Clifford(ins.gate, ins.on)>>
      [] ins.op = "noise" -> <<Site(ins.site)>>
      [] ins.op \in {"measure", "observable"} -> <<>>

BuildOps(c) == FlattenSeq([i \in DOMAIN c.stream |-> OpsOf(c.stream[i])])

Terms(ops) == {i \in DOMAIN ops : ops[i].kind = "term"}

-----------------------------------------------------------------------------
(* Axes and atoms: what is pushed through the ops behind a position.        *)

\* A fold is exp(-i pi/4 A): it takes p to -i A p when they anticommute.
Across(op, p) ==
    CASE op.kind = "gate" -> Conj(op.gate, op.on, p)
      [] op.kind = "fold" /\ Anti(op.axis, p) -> Phased(Times(op.axis, p), 3)
      [] OTHER -> p

After(ops, i) == SubSeq(ops, i + 1, Len(ops))

PushAxes(ops) ==
    [j \in Terms(ops) |-> FoldLeft(LAMBDA p, op : Across(op, p), ops[j].axis, After(ops, j))]

\* The Pauli p fired at position i: what it is at the end, up to phase, and
\* the terms it crossed anticommuting.
Propagate(ops, i, p) ==
    LET Step(a, k) ==
            IF ops[k].kind = "term"
            THEN [a EXCEPT !.S = IF Anti(ops[k].axis, a.P) THEN @ \cup {k} ELSE @]
            ELSE [a EXCEPT !.P = ModPhase(Across(ops[k], @))]
    IN  FoldLeft(Step, [P |-> ModPhase(p), S |-> {}], [k \in 1 .. Len(ops) - i |-> i + k])

\* The alternatives of the noise sites: <<site, term>> to the Pauli fired.
Alternatives(c) ==
    LET sites == {i \in DOMAIN c.stream : c.stream[i].op = "noise"}
    IN  UNION {{[site |-> c.stream[i].site, term |-> t,
                 fires |-> Letters(c.stream[i].on, c.stream[i].terms[t])] :
                    t \in DOMAIN c.stream[i].terms} : i \in sites}

SiteAt(ops, s) == CHOOSE i \in DOMAIN ops : ops[i].kind = "site" /\ ops[i].site = s

Atom(ops, alt) == Propagate(ops, SiteAt(ops, alt.site), alt.fires)

-----------------------------------------------------------------------------
(* The merge of terms about one axis.                                       *)

AnyAnti(B) == \E i, j \in DOMAIN B : Anti(B[i], B[j])

\* The latest earlier live term about the axis of j, if nothing between them
\* anticommutes with it.
Partners(B, live, j) ==
    {i \in live : /\ i < j /\ Alike(B[i], B[j])
                  /\ \A k \in live : i < k /\ k < j => ~Alike(B[k], B[j]) /\ ~Anti(B[k], B[j])}

\* A fault between the two that turns the later one only keeps them apart.
Blocked(ops, alts, i, j) ==
    \E a \in alts : LET at == SiteAt(ops, a.site)
                    IN  i < at /\ at < j /\ j \in Atom(ops, a).S

\* Equal terms join in a fold, which ends the pass; opposite terms cancel.
\* The axes B and the ops the faults are pushed through are the pass's own.
MergePass(ops, B, alts) ==
    LET Try(acc, j) ==
            LET with == IF acc.folded \/ j \notin acc.live THEN {} ELSE Partners(B, acc.live, j)
            IN  IF with = {} \/ \E i \in with : Blocked(ops, alts, i, j) THEN acc
                ELSE LET i    == CHOOSE i \in with : TRUE
                         same == B[i].ph = B[j].ph
                     IN  [ops    |-> [acc.ops EXCEPT ![i] = IF same THEN Fold(@.axis) ELSE Gone,
                                                     ![j] = Gone],
                          live   |-> acc.live \ {i, j},
                          folded |-> same]
    IN  FoldLeft(Try, [ops |-> ops, live |-> DOMAIN B, folded |-> FALSE], Ascending(DOMAIN B)).ops

RECURSIVE MergeFrom(_, _)
MergeFrom(ops, alts) ==
    LET next == MergePass(ops, PushAxes(ops), alts)
    IN  IF next = ops THEN ops ELSE MergeFrom(next, alts)

\* A commuting set is left as it is.
Merged(ops, alts) == IF AnyAnti(PushAxes(ops)) THEN MergeFrom(ops, alts) ELSE ops

-----------------------------------------------------------------------------
(* rot(S), the kernel of S -> rot(S) up to Paulis, and the view.            *)

\* rot(S) V rot(S)^-1
RotImage(B, S, V) ==
    FoldLeft(LAMBDA r, j : IF Anti(B[j], V) THEN Times(Phased(B[j], 1), r) ELSE r,
             V, Ascending(S))

XOn(q) == Pauli({q}, {}, 0)

\* The Pauli that takes every V to itself or to minus itself as rot(k) does.
ImageSigns(B, k, wires) ==
    Pauli({q \in wires : RotImage(B, k, ZOn({q}, 1)).ph = 2},
          {q \in wires : RotImage(B, k, XOn(q)).ph = 2}, 0)

\* The quadratic feature of an axis: how rot(B) moves Paulis, as a form.
Feature(p) == Columns(p) \X Columns(p)

\* Each term whose feature is a sum of earlier pivots' has one kernel vector.
Kernel(B, wires) ==
    LET feature == [j \in DOMAIN B |-> Feature(B[j])]
        lead    == Leaders(feature)
        pivots  == [j \in lead |-> feature[j]]
        Vector(j) == LET k == {j} \cup CHOOSE c \in Combinations(pivots, feature[j]) : TRUE
                     IN  [j |-> j, k |-> k, N |-> ImageSigns(B, k, wires)]
    IN  [j \in DOMAIN B \ lead |-> Vector(j)]

\* What the sampler keeps of a circuit; a family of axes that do not all
\* commute is refused, one of Z axes only is left to the diagonal route.
View(c) ==
    LET alts == Alternatives(c)
        ops  == Merged(BuildOps(c), alts)
        B    == PushAxes(ops)
    IN  [alts   |-> alts,
         atom   |-> [a \in alts |-> Atom(ops, a)],
         B      |-> B,
         refused |-> AnyAnti(B),
         kernel |-> IF AnyAnti(B) THEN <<>> ELSE Kernel(B, Wires(c))]

ZOnly(c) == LET B == PushAxes(BuildOps(c)) IN \A j \in DOMAIN B : B[j].x = {}

-----------------------------------------------------------------------------
(* The residual of a shot.                                                  *)

NoResidual == [P |-> One, S |-> {}]

\* Mutant: no correction for the axes the residual Pauli anticommutes with.
ComposeLost(B, r, atom) ==
    [P |-> ModPhase(Times(Times(atom.P, r.P), ProductOver(B, atom.S \cap r.S))),
     S |-> SymDiff(r.S, atom.S)]

\* The corrections are decided against the residual before the atom.
Compose(B, r, atom) ==
    LET C == {j \in atom.S : (j \in r.S) # Anti(B[j], r.P)}
    IN  [P |-> ModPhase(Times(Times(atom.P, r.P), ProductOver(B, C))),
         S |-> SymDiff(r.S, atom.S)]

\* One kernel vector folded into the Pauli, against the current S.
FoldKernel(B, kv, r) ==
    [P |-> ModPhase(Times(r.P, Times(kv.N, ProductOver(B, r.S \cap kv.k)))),
     S |-> SymDiff(r.S, kv.k)]

ReduceKey(B, kernel, r) ==
    FoldLeft(LAMBDA acc, j : IF j \in acc.S THEN FoldKernel(B, kernel[j], acc) ELSE acc,
             r, Ascending(DOMAIN kernel))

\* Kind 0: rot(S) fixes every Z up to sign.
IsDiagonal(B, S, wires) ==
    \A q \in wires : LET moved == {j \in S : q \in B[j].x}
                     IN  RowSum([j \in S |-> Columns(B[j])], moved) = {}

-----------------------------------------------------------------------------
(* The record table of a plan: how the parities of the terminal reads (the  *)
(* columns) come out of fair coins and of measurements of the clean state   *)
(* (src/record_table.cpp, record_table_internal.hpp, record_general.cpp,    *)
(* record_space_b.cpp, twirl_law.cpp, twirl_normal_form.cpp).  A column is  *)
(*     beta + (the coins of A) + (the outcomes of the directions of B)      *)
(* to which a shot adds whether its Pauli anticommutes with the column.     *)
(* Columns are Paulis in record order.  A diagonal Clifford is the product  *)
(* of S on the wires of a and CZ on the pairs of cz.                        *)

IsChannel(G, M) == InGroup(G, M)

\* The value of a channel without noise.
Ref(G, M) == Reduce(G, M).ph = 2

\* The generators whose product is the channel.
Mask(G, M) == CHOOSE c \in SUBSET DOMAIN G.gens : Alike(ProductOver(G.gens, c), M)

-----------------------------------------------------------------------------
(* Working tables.  pivots[s] is the pullback of the column of coin s.      *)

NoColumns == [pivots |-> <<>>, dirs |-> <<>>, A |-> <<>>, B |-> <<>>, beta |-> <<>>]

WithRow(W, c, A, B, beta) ==
    [W EXCEPT !.A = (c :> A) @@ @, !.B = (c :> B) @@ @, !.beta = (c :> beta) @@ @]

\* A column with pullback Q against the table built so far: a fresh coin if
\* the group sees it apart from the coins there are, else a direction.
AddExtra(G, W, c, Q) ==
    LET coins == Combinations([s \in DOMAIN W.pivots |-> Plane(G, W.pivots[s])], Plane(G, Q))
        Fresh == WithRow([W EXCEPT !.pivots = Append(@, Q)], c, {Len(W.pivots) + 1}, {}, FALSE)
        Fixed(A) ==
            LET K  == Reduce(G, Times(Q, ProductOver(W.pivots, A)))
                Bs == Combinations([j \in DOMAIN W.dirs |-> Columns(W.dirs[j])], Columns(K))
            IN  IF Bs = {}
                THEN WithRow([W EXCEPT !.dirs = Append(@, K)], c, A, {Len(W.dirs) + 1}, FALSE)
                ELSE LET B == CHOOSE B \in Bs : TRUE
                     IN  WithRow(W, c, A, B, K.ph # ProductOver(W.dirs, B).ph)
    IN  IF coins = {} THEN Fresh ELSE Fixed(CHOOSE A \in coins : TRUE)

-----------------------------------------------------------------------------
(* The canonical table: coins and directions named by the first column, in  *)
(* record order, that needs them.                                           *)

Canonicalize(W, m) ==
    LET Scan(T, c) ==
            LET As == Combinations([s \in DOMAIN T.pivot |-> W.A[T.pivot[s]]], W.A[c])
                Dependent(A) ==
                    LET cols == {c} \cup {T.pivot[s] : s \in A}
                        b    == RowSum(W.B, cols)
                        beta == Odd({i \in cols : W.beta[i]})
                        Bs   == Combinations(T.row, b)
                        lam  == Phased(ProductOver(W.dirs, b), IF beta THEN 2 ELSE 0)
                    IN  IF Bs = {}
                        THEN WithRow([T EXCEPT !.lam = Append(@, lam), !.row = Append(@, b),
                                               !.folded = Append(@, beta)],
                                     c, A, {Len(T.lam) + 1}, FALSE)
                        ELSE LET B == CHOOSE B \in Bs : TRUE
                             IN  WithRow(T, c, A, B, beta # Odd({j \in B : T.folded[j]}))
            IN  IF As = {}
                THEN WithRow([T EXCEPT !.pivot = Append(@, c)], c, {Len(T.pivot) + 1}, {}, FALSE)
                ELSE Dependent(CHOOSE A \in As : TRUE)
        done == FoldLeft(Scan, [pivot |-> <<>>, lam |-> <<>>, row |-> <<>>, folded |-> <<>>,
                                A |-> <<>>, B |-> <<>>, beta |-> <<>>], [c \in 1 .. m |-> c])
    IN  [lam |-> done.lam, A |-> done.A, B |-> done.B, beta |-> done.beta]

-----------------------------------------------------------------------------
(* The general builder: rot(S) behind any Pauli, every column an extra.     *)

\* Mutant: the column seen in front of rot(S).
TermPullbackForward(B, S, M) ==
    FoldLeft(LAMBDA q, j : IF Anti(M, B[j]) THEN Times(q, Phased(B[j], 3)) ELSE q,
             M, Ascending(S))

\* rot(S)^-1 M rot(S)
TermPullback(B, S, M) ==
    FoldLeft(LAMBDA q, j : IF Anti(M, B[j]) THEN Times(q, Phased(B[j], 1)) ELSE q,
             M, Ascending(S))

GeneralTable(G, cols, B, S) ==
    Canonicalize(FoldLeft(LAMBDA W, c : AddExtra(G, W, c, TermPullback(B, S, cols[c])),
                          NoColumns, [c \in DOMAIN cols |-> c]), Len(cols))

-----------------------------------------------------------------------------
(* Normal forms of a diagonal rot(S) behind a Pauli.                        *)

\* rot(S) = prefix * S^a * CZ up to phase, from the images of X and Z.
DiagonalForm(image, wires) ==
    LET X(q) == image[Pauli({q}, {}, 0)]
        Z(q) == image[ZOn({q}, 1)]
        a    == {q \in wires : q \in X(q).z}
        cz   == {e \in {{p[1], p[2]} : p \in {r \in wires \X wires : r[1] < r[2]}} :
                    \E q \in e : e \ {q} \subseteq X(q).z}
        \* X behind S^a CZ, exactly
        D0(q) == Pauli({q}, X(q).z, IF q \in a THEN 1 ELSE 0)
        v    == {q \in wires : Z(q).ph = 2}
        z    == {q \in wires : X(q).ph # D0(q).ph}
        \* the Pauli first, then S^a CZ: moved in front, it drags Z's along
        moved == RowSum([q \in v |-> X(q).z], v)
    IN  [prefix |-> Pauli(v, SymDiff(z, moved), 0), a |-> a, cz |-> cz]

Sum(S, f(_)) == FoldSet(LAMBDA x, acc : acc + f(x), 0, S)

\* S and CZ on product wires are constants or Paulis and are folded away.
Canonical(G, nf) ==
    LET Sign == [q \in UNION nf.cz \cup nf.a |-> ProductSign(G, q)]
        Kept == {e \in nf.cz : \A q \in e : Sign[q] = 0}
        Degree(E, q) == Cardinality({e \in E : q \in e})
        Remnant(q) == Sum({e \in nf.cz \ Kept : q \in e}, LAMBDA e : Sum(e \ {q}, LAMBDA r : Sign[r]))
        Linear(q) == Remnant(q) - Degree(nf.cz, q) - (IF q \in nf.a THEN 1 ELSE 0)
        Power == [q \in {r \in DOMAIN Sign : Sign[r] = 0} |->
                     (-Linear(q) - Degree(Kept, q)) % 4]
    IN  [prefix |-> Times(nf.prefix, ZOn({q \in DOMAIN Power : Power[q] >= 2}, 1)),
         a      |-> {q \in DOMAIN Power : Power[q] % 2 = 1},
         cz     |-> Kept]

-----------------------------------------------------------------------------
(* The diagonal builder.                                                    *)

Dressing(nf, x) ==
    SymDiff(nf.a \cap x,
            FoldSet(LAMBDA e, acc : SymDiff(acc, {q \in e : e \ {q} \subseteq x}), {}, nf.cz))

\* M behind S^a CZ.
DiagPullback(nf, M) ==
    Pauli(M.x, SymDiff(M.z, Dressing(nf, M.x)),
          M.ph - Cardinality(M.x \cap nf.a) - 2 * Cardinality({e \in nf.cz : e \subseteq M.x}))

SpanOf(f) == {RowSum(f, c) : c \in SUBSET DOMAIN f}

\* Vectors that extend a basis of the subspace D to one of K.
RECURSIVE Extend(_, _)
Extend(D, K) ==
    IF K \subseteq D THEN <<>>
    ELSE LET u == CHOOSE u \in K \ D : TRUE
         IN  <<u>> \o Extend(D \cup {SymDiff(d, u) : d \in D}, K)

\* The Z's each generator gains behind a diagonal Clifford, where it gains any.
Gains(G, nf) ==
    LET dress == [i \in DOMAIN G.gens |-> Dressing(nf, G.gens[i].x)]
    IN  [i \in {k \in DOMAIN dress : dress[k] # {}} |-> dress[i]]

\* The gains that no generator anticommutes with, and those in the group.
Neutral(G, v) == {u \in SpanOf(v) : \A i \in DOMAIN G.gens : ~Odd(u \cap G.gens[i].x)}
Absorbed(G)   == {g.z : g \in {k \in G.group : k.x = {}}}

\* The signs of the generators h on one point of their law: those without a
\* gain keep theirs, the products whose gain is absorbed fix the others'.
BaseSigns(G, h, v, absorbed) ==
    LET fixed == {c \in SUBSET DOMAIN v : RowSum(v, c) \in absorbed}
        b     == [c \in fixed |-> Reduce(G, ProductOver(h, c)).ph = 2]
    IN  (CHOOSE s \in SUBSET DOMAIN v : \A c \in fixed : Odd(s \cap c) = b[c])
        \cup {i \in DOMAIN G.gens \ DOMAIN v : h[i].ph # G.gens[i].ph}

\* U are the gains left as operators of the clean state, L what these measure;
\* kb[j] the sign between a product that gains U[j] and L[j].
LawWith(G, h, v, D, U, det) ==
    LET rows == [i \in Leaders(v) |-> v[i]]
        L    == [j \in DOMAIN U |-> Reduce(G, ZOn(U[j], 1))]
        Sign(c, l) == (Reduce(G, ProductOver(h, c)).ph # l.ph) # Odd(c \cap det)
    IN  [v |-> v, D |-> D, U |-> U, L |-> L, det |-> det,
         kb |-> [j \in DOMAIN U |-> Sign(CHOOSE c \in Combinations(rows, U[j]) : TRUE, L[j])]]

\* What S^a CZ does to the generators: h is each of them behind it.
LawOf(G, h, v, absorbed, neutral) ==
    LawWith(G, h, v, neutral \cap absorbed, Extend(neutral \cap absorbed, neutral),
            BaseSigns(G, h, v, absorbed))

ShotLaw(G, nf) ==
    LET v == Gains(G, nf)
    IN  LawOf(G, [i \in DOMAIN G.gens |-> DiagPullback(nf, G.gens[i])], v,
              Absorbed(G), Neutral(G, v))

\* How vv is made up of an element of D, directions and pivots' gains.
Decompositions(law, piv, vv) ==
    {AB \in (SUBSET DOMAIN piv) \X (SUBSET DOMAIN law.U) :
        SymDiff(SymDiff(vv, RowSum(piv, AB[1])), RowSum(law.U, AB[2])) \in law.D}

\* One channel: the sign of its generators and the gains of the active ones.
AddChannel(G, law, nf, W, c, M) ==
    LET mask == Mask(G, M)
        bd   == Odd(law.det \cap mask) # Ref(G, M)
        vv   == RowSum(law.v, mask \cap DOMAIN law.v)
        made == Decompositions(law, W.gains, vv)
    IN  IF made = {}
        THEN WithRow([W EXCEPT !.pivots = Append(@, DiagPullback(nf, M)), !.gains = Append(@, vv),
                               !.bd = Append(@, bd)],
                     c, {Len(W.pivots) + 1}, {}, FALSE)
        ELSE LET AB == CHOOSE AB \in made : TRUE
             IN  WithRow(W, c, AB[1], AB[2],
                         bd # (Odd({s \in AB[1] : W.bd[s]}) # Odd({j \in AB[2] : law.kb[j]})))

\* Channels first, then the other columns, each in record order.
TableUnder(law, G, cols, nf, channels) ==
    LET start == NoColumns @@ [gains |-> <<>>, bd |-> <<>>]
        fixed == FoldLeft(LAMBDA W, c : AddChannel(G, law, nf, W, c, cols[c]),
                          [start EXCEPT !.dirs = law.L], Ascending(channels))
    IN  FoldLeft(LAMBDA W, c : AddExtra(G, W, c, DiagPullback(nf, cols[c])),
                 fixed, Ascending(DOMAIN cols \ channels))

DiagonalTable(G, cols, nf) ==
    Canonicalize(TableUnder(ShotLaw(G, nf), G, cols, nf,
                            {c \in DOMAIN cols : IsChannel(G, cols[c])}), Len(cols))

=============================================================================
