------------------------------ MODULE StabSums ------------------------------
(***************************************************************************)
(* One stabilizer state in affine form (src/stab_affine.cpp),              *)
(*                                                                         *)
(*     om 2^(-k/2) Sum_y  i^Q(y) |b + R y>,                                *)
(*     Q(y) = Sum D[j] y_j + 2 Sum_{{i, j} in J} y_i y_j  (mod 4),         *)
(*                                                                         *)
(* b the set of wires that are 1, R[j] the wires generator j flips, J a    *)
(* set of pairs of generators (packing into words is left out); and a      *)
(* state as a sum of stabilizer states that differ by signs                *)
(* (src/canonical_stab_sum.cpp, src/stab_generators.cpp).  The generators  *)
(* g[a] of the anchor have the signs eps; d[a] flips the sign of g[a] and  *)
(* of no other.  A branch is the set of generators of "free" whose sign it *)
(* flips; c maps it to its coefficient, a number of ExactStates up to a    *)
(* common positive factor.                                                 *)
(***************************************************************************)
EXTENDS PauliAlgebra

X == INSTANCE ExactStates

\* An exact amplitude: 0, or 2^(scale/2) w^z8.
Amp(scale, z8) == [zero |-> FALSE, scale |-> scale, z8 |-> z8 % 8]
NoAmp          == [zero |-> TRUE, scale |-> 0, z8 |-> 0]

AmpTimes(a, c) == IF a.zero \/ c.zero THEN NoAmp ELSE Amp(a.scale + c.scale, a.z8 + c.z8)
AmpConj(a)     == IF a.zero THEN NoAmp ELSE Amp(a.scale, -a.z8)
AmpTurn(a, k)  == IF a.zero THEN a ELSE Amp(a.scale, a.z8 + k)

AllZero(n) == [n |-> n, b |-> {}, R |-> <<>>, D |-> <<>>, J |-> {}, om |-> Amp(0, 0)]

PairsOf(S) == {{i, j} : i, j \in S} \ {{i} : i \in S}
Row(s, q)  == {j \in DOMAIN s.R : q \in s.R[j]}
Bit(S, q)  == IF q \in S THEN 1 ELSE 0

\* D[j] += k for the generators j of S.
Add(D, S, k) == [j \in DOMAIN D |-> IF j \in S THEN (D[j] + k) % 4 ELSE D[j]]

Partners(J, l) == UNION {e \in J : l \in e} \ {l}

\* Generator l is taken out and the later ones move down.
Without(s, l) ==
    LET new(j) == IF j > l THEN j - 1 ELSE j
    IN  [s EXCEPT !.R = RemoveAt(@, l), !.D = RemoveAt(@, l),
                  !.J = {{new(j) : j \in e} : e \in {f \in @ : l \notin f}}]

-----------------------------------------------------------------------------
(* Changes of variable. *)

\* In Q, y_p becomes y_p + y_c.
Substitute(s, p, c) ==
    [s EXCEPT !.D = Add(@, {c}, s.D[p] + IF {p, c} \in s.J THEN 2 ELSE 0),
              !.J = SymDiff(SymDiff(@, {{c, j} : j \in Partners(s.J, p) \ {c}}),
                            IF s.D[p] % 2 = 1 THEN {{p, c}} ELSE {})]

\* Generator "into" absorbs generator "from"; the state is the same.
AddVar(s, from, into) ==
    [Substitute(s, from, into) EXCEPT !.R = [@ EXCEPT ![into] = SymDiff(@, s.R[from])]]

\* y_p is given by a0 + Sum_{j in S} y_j.
Eliminate(s, p, a0, S) ==
    LET t == FoldLeft(LAMBDA u, j : Substitute(u, p, j), s, Ascending(S))
    IN  Without([t EXCEPT
            !.om = AmpTurn(@, 2 * t.D[p] * a0),
            !.D  = IF a0 = 1 THEN Add(@, Partners(t.J, p), 2) ELSE @,
            !.b  = IF a0 = 1 THEN SymDiff(@, s.R[p]) ELSE @,
            !.R  = [j \in DOMAIN @ |-> IF j \in S THEN SymDiff(@[j], s.R[p]) ELSE @[j]]], p)

\* The variable l flips no wire: its sum 1 + i^(D[l] + 2t), t the sum of its
\* partners, is a phase, a factor or a condition.
SumOut(s, l) ==
    LET on == Partners(s.J, l)
        p  == Min(on)
        a0 == s.D[l] \div 2
    IN  IF s.D[l] % 2 = 1
        THEN Without([s EXCEPT !.om = AmpTurn(@, 2 - s.D[l]),
                               !.D  = Add(@, on, IF s.D[l] = 1 THEN 3 ELSE 1),
                               !.J  = SymDiff(@, PairsOf(on))], l)
        ELSE IF on # {} THEN Without(Eliminate(s, p, a0, on \ {p}), IF l > p THEN l - 1 ELSE l)
        ELSE IF a0 = 1  THEN [s EXCEPT !.om = NoAmp]
        ELSE Without([s EXCEPT !.om = AmpTimes(@, Amp(1, 0))], l)

Dependencies(s) == {v \in SUBSET DOMAIN s.R : v # {} /\ RowSum(s.R, v) = {}}

FullRank(s) == Dependencies(s) = {}

RECURSIVE Canonicalize(_)
Canonicalize(s) ==
    IF FullRank(s) \/ s.om.zero THEN s
    ELSE LET v == CHOOSE v \in Dependencies(s) : TRUE
             l == Min(v)
         IN  Canonicalize(
                 SumOut(FoldLeft(LAMBDA t, j : AddVar(t, j, l), s, Ascending(v \ {l})), l))

-----------------------------------------------------------------------------
(* Gates and projections. *)

OnX(s, q) == [s EXCEPT !.b = SymDiff(@, {q})]

OnZ(s, q) == [s EXCEPT !.om = AmpTurn(@, 4 * Bit(s.b, q)), !.D = Add(@, Row(s, q), 2)]

\* S (k = 1) and its inverse (k = 3).
OnS(s, q, k) ==
    [s EXCEPT !.om = AmpTurn(@, 2 * k * Bit(s.b, q)),
              !.D  = Add(@, Row(s, q), k + 2 * Bit(s.b, q)),
              !.J  = SymDiff(@, PairsOf(Row(s, q)))]

OnY(s, q) == LET t == OnX(OnZ(s, q), q) IN [t EXCEPT !.om = AmpTurn(@, 2)]

OnH(s, q) ==
    LET old == Row(s, q)
        k   == Len(s.R) + 1
        t   == [s EXCEPT !.b = @ \ {q},
                         !.R = Append([j \in DOMAIN @ |-> @[j] \ {q}], {q}),
                         !.D = Append(@, 2 * Bit(s.b, q)),
                         !.J = @ \cup {{k, j} : j \in old}]
    IN  IF old = {} THEN t ELSE Canonicalize(t)

OnCX(s, c, t) ==
    LET moved(S) == IF c \in S THEN SymDiff(S, {t}) ELSE S
    IN  [s EXCEPT !.b = moved(@), !.R = [j \in DOMAIN @ |-> moved(@[j])]]

OnCZ(s, c, t) ==
    LET rc == Row(s, c)   rt == Row(s, t)
    IN  [s EXCEPT !.om = AmpTurn(@, 4 * Bit(s.b, c) * Bit(s.b, t)),
                  !.D  = Add(Add(Add(@, IF t \in s.b THEN rc ELSE {}, 2),
                                 IF c \in s.b THEN rt ELSE {}, 2), rc \cap rt, 2),
                  !.J  = SymDiff(@, {e \in PairsOf(rc \cup rt) :
                            Odd({i \in e : i \in rc /\ e \ {i} \subseteq rt})})]

OnGate(g, on, s) ==
    LET a == on[1]   c == on[Len(on)]
    IN  CASE g = "H"  -> OnH(s, a)      [] g = "S"   -> OnS(s, a, 1)
          [] g = "X"  -> OnX(s, a)      [] g = "SDG" -> OnS(s, a, 3)
          [] g = "Y"  -> OnY(s, a)      [] g = "Z"   -> OnZ(s, a)
          [] g = "CX" -> OnCX(s, a, c)  [] g = "CZ"  -> OnCZ(s, a, c)

RECURSIVE OnGates(_, _)
OnGates(gs, s) == IF gs = <<>> THEN s ELSE OnGates(Tail(gs), OnGate(gs[1][1], gs[1][2], s))

\* What is left of the state where wire q reads t, and its amplitude.
ProjectZ(s, q, t) ==
    LET r == Row(s, q)
    IN  IF r = {} THEN [state |-> s, amp |-> IF Bit(s.b, q) = t THEN Amp(0, 0) ELSE NoAmp]
        ELSE [state |-> Eliminate(s, Min(r), (t + Bit(s.b, q)) % 2, r \ {Min(r)}),
              amp   |-> Amp(-1, 0)]

-----------------------------------------------------------------------------
(* Overlaps. *)

\* The sum of L[j] < 4, j in z.
Linear(L, z) == Cardinality({u \in z \X (1 .. 3) : u[2] <= L[u[1]]})

\* Q on the generators of y.
Quadratic(s, y) == (Linear(s.D, y) + 2 * Cardinality({e \in s.J : e \subseteq y})) % 4

\* The value at z of the form f: [c, L, K] over the variables DOMAIN f.L.
Value(f, z) == (f.c + Linear(f.L, z) + 2 * Cardinality({e \in f.K : e \subseteq z})) % 4

\* The form of the values E(z), z a set of the variables V.
FormOf(V, E(_)) ==
    LET L == [j \in V |-> (E({j}) - E({})) % 4]
    IN  [c |-> E({}), L |-> L,
         K |-> {e \in PairsOf(V) :
                   (E(e) - E({}) - Linear(L, e)) % 4 # 0}]

Dropped(f, V) == [c |-> f.c, L |-> [j \in DOMAIN f.L \ V |-> f.L[j]],
                  K |-> {e \in f.K : e \cap V = {}}]

\* Sum over z of i^f(z), one variable at a time.
RECURSIVE GaussSum(_)
GaussSum(f) ==
    IF DOMAIN f.L = {} THEN Amp(0, 2 * f.c)
    ELSE LET v  == Min(DOMAIN f.L)
             on == Partners(f.K, v)
             g  == Dropped(f, {v})
             pp == Min(on)
             \* v is summed; its partners add up to bit: pp follows from the rest.
             bit == f.L[v] \div 2
             full(z) == IF (Cardinality(z \cap on) + bit) % 2 = 1 THEN z \cup {pp} ELSE z
         IN  IF f.L[v] % 2 = 1
             THEN AmpTimes(Amp(1, 2 - f.L[v]),
                      GaussSum([g EXCEPT !.L = [j \in DOMAIN @ |->
                                           IF j \in on THEN (@[j] + IF f.L[v] = 1 THEN 3 ELSE 1) % 4
                                                       ELSE @[j]],
                                         !.K = SymDiff(@, PairsOf(on))]))
             ELSE IF on # {}
             THEN AmpTimes(Amp(2, 0),
                      GaussSum(FormOf(DOMAIN g.L \ {pp}, LAMBDA z : Value(g, full(z)))))
             ELSE IF bit = 1 THEN NoAmp ELSE AmpTimes(Amp(2, 0), GaussSum(g))

\* What gf2_solve returns for "the columns of x sum to rhs": a solution over
\* the pivot columns and, for every other column, the dependency it closes.
Solve(cols, rhs) ==
    LET pivots == Leaders(cols)
        over(v) == {c \in SUBSET pivots : RowSum(cols, c) = v}
    IN  [ok   |-> over(rhs) # {},
         part |-> IF over(rhs) = {} THEN {} ELSE CHOOSE c \in over(rhs) : TRUE,
         ker  |-> [f \in DOMAIN cols \ pivots |-> {f} \cup CHOOSE c \in over(cols[f]) : TRUE]]

Spanned(x, z) == SymDiff(x.part, RowSum(x.ker, z))

\* The pairs of kernel vectors whose mixed term does not vanish: the side s
\* sees the vector v as the generators side(v).
Mixed(s, a, c) ==
    Odd({e \in a \X c : {e[1], e[2]} \in s.J}) # Odd({j \in a \cap c : s.D[j] % 2 = 1})

\* <phi|psi>
InnerProduct(phi, psi) ==
    LET k == Len(phi.R)
        x == Solve(phi.R \o psi.R, SymDiff(phi.b, psi.b))
        left(v)  == v \cap (1 .. k)
        right(v) == {j - k : j \in v \ (1 .. k)}
        E(z) == LET v == Spanned(x, z)
                IN  (Quadratic(psi, right(v)) - Quadratic(phi, left(v))) % 4
        V == DOMAIN x.ker
        K == {e \in PairsOf(V) :
                 LET a == x.ker[Min(e)]   c == x.ker[Max(e)]
                 IN  Mixed(psi, right(a), right(c)) # Mixed(phi, left(a), left(c))}
        f == [c |-> E({}), L |-> [l \in V |-> (E({l}) - E({})) % 4], K |-> K]
    IN  IF ~x.ok THEN NoAmp
        ELSE AmpTimes(AmpTimes(AmpTimes(AmpConj(phi.om), psi.om), GaussSum(f)),
                      Amp(-(k + Len(psi.R)), 0))

\* <bits|psi>
AmplitudeAt(s, bits) ==
    LET x == Solve(s.R, SymDiff(bits, s.b))
    IN  IF ~x.ok THEN NoAmp
        ELSE AmpTimes(AmpTimes(s.om,
                 GaussSum(FormOf(DOMAIN x.ker, LAMBDA z : Quadratic(s, Spanned(x, z))))),
                 Amp(-Len(s.R), 0))

-----------------------------------------------------------------------------
(* Sums. *)

Unit(k) == X!Turn(<<1, 0, 0, 0>>, k)

\* p|s>
OnPauli(p, s) ==
    LET flips == [k \in 1 .. Cardinality(p.x) |-> <<"X", <<Ascending(p.x)[k]>>>>]
        signs == [k \in 1 .. Cardinality(p.z) |-> <<"Z", <<Ascending(p.z)[k]>>>>]
    IN  [OnGates(signs \o flips, s) EXCEPT !.om = AmpTurn(@, 2 * p.ph)]

-----------------------------------------------------------------------------
(* The stabilizer generators of an affine state.                            *)

\* With the phase that makes it +1 on the state.
Pinned(s, p) ==
    LET a0 == AmplitudeAt(s, s.b)
        a1 == AmplitudeAt(OnPauli(p, s), s.b)
    IN  Phased(p, 4 - (((a1.z8 - a0.z8) % 8) \div 2))

\* Z on the wires that tell whether the number of y_j, j in v, is odd.
Tell(rows, v) == Solve(rows, v).part

\* Along the l-th generator of the support.
MoveAlong(s, rows, l) ==
    Pauli(s.R[l], Tell(rows, SymDiff(Partners(s.J, l), IF s.D[l] % 2 = 1 THEN {l} ELSE {})), 0)

\* One product of Z per condition on the wires, one Pauli per generator of
\* the support.
GeneratorsOn(s, rows, checks) ==
    Listed([k \in 1 .. Cardinality(DOMAIN checks) + Len(s.R) |->
        Pinned(s, IF k <= Cardinality(DOMAIN checks) THEN ZOn(checks[Ascending(DOMAIN checks)[k]], 1)
                  ELSE MoveAlong(s, rows, k - Cardinality(DOMAIN checks)))])

GeneratorsBy(s, rows) == GeneratorsOn(s, rows, Solve(rows, {}).ker)

StabilizerGenerators(s) == GeneratorsBy(s, [q \in 0 .. (s.n - 1) |-> Row(s, q)])

\* The generators that X of wire k - 1 meets, and then those that Z does.
Met(gens, k) ==
    LET n == Len(gens)
    IN  {a \in 1 .. n : IF k <= n THEN k - 1 \in gens[a].z ELSE k - n - 1 \in gens[a].x}

OfColumns(n, ks) == Pauli({k - 1 : k \in {k \in ks : k <= n}}, {k - n - 1 : k \in {k \in ks : k > n}}, 0)

\* A Pauli that anticommutes with the a-th generator and no other.
Against(gens, a) ==
    OfColumns(Len(gens), Solve(Listed([k \in 1 .. 2 * Len(gens) |-> Met(gens, k)]), {a}).part)

Herm(p) == [p EXCEPT !.ph = Cardinality(p.x \cap p.z) % 4]

\* The next one commutes with those before it.
Cleaned(gens, d, p) == Herm(Times(p, ProductOver(gens, {a \in DOMAIN d : Anti(d[a], p)})))

RECURSIVE DestabilizersFrom(_, _)
DestabilizersFrom(gens, d) ==
    IF Len(d) = Len(gens) THEN d
    ELSE DestabilizersFrom(gens, Append(d, Cleaned(gens, d, Against(gens, Len(d) + 1))))

\* Hermitian Paulis that commute with each other, the a-th one with all the
\* generators but the a-th.
Destabilizers(gens) == DestabilizersFrom(gens, <<>>)

-----------------------------------------------------------------------------
(* The frame.                                                               *)

\* g[a] takes in the g[p], p in P; what a branch flips is unchanged.
Rotated(S, a, P) ==
    [S EXCEPT !.g   = [@ EXCEPT ![a] = Times(@, ProductOver(S.g, P))],
              !.d   = Listed([b \in DOMAIN @ |-> IF b \in P THEN Times(@[b], S.d[a]) ELSE @[b]]),
              !.eps = IF Odd(P \cap @) THEN SymDiff(@, {a}) ELSE @]

\* The generators whose column is a sum of earlier ones take those in.
RECURSIVE RebaseFrom(_, _, _)
RebaseFrom(acc, col, as) ==
    LET a    == Head(as)
        deps == Combinations([p \in acc.basis |-> col[p]], col[a])
        P    == CHOOSE P \in deps : TRUE
    IN  IF as = <<>> THEN acc
        ELSE RebaseFrom(IF deps = {} THEN [acc EXCEPT !.basis = @ \cup {a}]
                        ELSE [acc EXCEPT !.S = Rotated(@, a, P), !.took = (a :> P) @@ @],
                        col, Tail(as))

Rebase(S, col) == RebaseFrom([S |-> S, basis |-> {}, took |-> <<>>], col, Ascending(DOMAIN col))

\* The generators whose sign is the same in every branch leave "free"; ones
\* are those whose sign the anchor does not have.
Settled(S) ==
    LET s0   == CHOOSE v \in DOMAIN S.c : TRUE
        col  == [a \in S.free |-> {v \in DOMAIN S.c : (a \in v) # (a \in s0)}]
        r    == Rebase(S, [a \in {a \in S.free : col[a] # {}} |-> col[a]])
        took == [a \in S.free \ r.basis |-> IF a \in DOMAIN r.took THEN r.took[a] ELSE {}]
        ones == {a \in DOMAIN took : Odd(s0 \cap ({a} \cup took[a]))}
        kept == {v \cap r.basis : v \in DOMAIN S.c}
    IN  [ones |-> ones,
         sum  |-> [r.S EXCEPT !.free = r.basis,
                              !.eps  = SymDiff(@, ones),
                              !.c    = [t \in kept |-> S.c[CHOOSE v \in DOMAIN S.c : v \cap r.basis = t]]]]

\* The anchor moves to the signs it does not have.
Canonicalised(S) ==
    LET k == Settled(S)
    IN  [k.sum EXCEPT !.anchor = FoldLeft(LAMBDA s, a : OnPauli(k.sum.d[a], s), @, Ascending(k.ones))]

\* A gate moves the anchor, and the frame when it is next read.
SumGate(S, g, on) ==
    [S EXCEPT !.anchor = OnGate(g, on, @),
              !.g = [a \in DOMAIN @ |-> Conj(g, on, @[a])],
              !.d = [a \in DOMAIN @ |-> Conj(g, on, @[a])]]

\* The product of the destabilizers of the branch v, the later ones left.
Flip(S, v) == FoldLeft(LAMBDA p, a : Times(S.d[a], p), One, Ascending(v))

\* verify_invariants: no generator of "free" follows from the others.
Minimal(S) ==
    LET s0 == CHOOSE v \in DOMAIN S.c : TRUE
        diff == {SymDiff(v, s0) : v \in DOMAIN S.c}
    IN  \A t \in SUBSET S.free \ {{}} : \E v \in diff : Odd(t \cap v)

-----------------------------------------------------------------------------
(* The sum over a family of rays: ray(g) is the part of psi on which the    *)
(* products zs[i] of Z read 1 for i in g and 0 for the others.              *)

Hits(zs, p) == {i \in DOMAIN zs : Anti(p, ZOn(zs[i], 1))}

\* Stabilizers of psi, each of which moves the ray along one product.
Movers(psiGroup, zs) == Listed([i \in DOMAIN zs |-> CHOOSE p \in psiGroup : Hits(zs, p) = {i}])

\* The products along which a move flips the sign of the generator a.
FlippedAlong(gens, s) == Listed([a \in DOMAIN gens |-> {i \in DOMAIN s : Anti(gens[a], s[i])}])

AnchoredAt(ray, gens) ==
    [n |-> Len(gens), g |-> gens, d |-> Destabilizers(gens), eps |-> {}, anchor |-> ray,
     free |-> {}, c |-> <<>>]

\* The frame of the family f, on independent flips.
FamilyFrame(u, s, r) == [S |-> [r.S EXCEPT !.free = r.basis], u |-> u, s |-> s]

FamilyOf(S, u, s) ==
    FamilyFrame(u, s, Rebase(S, [a \in {a \in DOMAIN u : u[a] # {}} |-> u[a]]))

FamilyAt(ray, gens, s) == FamilyOf(AnchoredAt(ray, gens), FlippedAlong(gens, s), s)

Branch(f, g) == {a \in f.S.free : Odd(f.u[a] \cap g)}

\* A stabilizer of the anchor: to the ray g by the movers, and back.
Loop(f, g) == Times(ProductOver(f.s, g), Flip(f.S, Branch(f, g)))

Over(f, p) == {a \in 1 .. f.S.n : Anti(p, f.S.d[a])}

\* Its sign there is the phase between the branch and the ray.
SignAt(f, p, over) ==
    (2 * (p.ph - ProductOver(f.S.g, over).ph) + 4 * Cardinality(over \cap f.S.eps)) % 8

GaugeOf(f, p) == SignAt(f, p, Over(f, p))

Gauges(f, I) ==
    [g \in {g \in SUBSET I : Cardinality(g) \in {1, 2}} |-> GaugeOf(f, Loop(f, g))]

SumOver(gauge, g) == FoldSet(LAMBDA i, acc : acc + gauge[{i}], 0, g)

PairGauge(gauge, e) == (gauge[e] - SumOver(gauge, e)) % 8

\* The phase is quadratic in g.
AlphaOf(gauge, g) ==
    (SumOver(gauge, g) + 4 * Cardinality({e \in PairsOf(g) : PairGauge(gauge, e) = 4})) % 8

Coefficients(f, gauge, coeff) ==
    [v \in {Branch(f, g) : g \in DOMAIN coeff} |->
        LET g == CHOOSE g \in DOMAIN coeff : Branch(f, g) = v
        IN  Unit(coeff[g] - AlphaOf(gauge, g))]

\* What the code throws on.
FamilySound(f, gauge, ray) ==
    /\ \A e \in PairsOf(DOMAIN f.s) : PairGauge(gauge, e) \in {0, 4}
    /\ \A g \in DOMAIN ray :
           /\ ray[g].amp = ray[{}].amp
           /\ InnerProduct(ray[g].state, OnPauli(Flip(f.S, Branch(f, g)), ray[{}].state))
                  = Amp(0, AlphaOf(gauge, g))

SumOfFamily(f, gauge, ray, coeff) ==
    [sound |-> FamilySound(f, gauge, ray),
     sum   |-> Canonicalised([f.S EXCEPT !.c = Coefficients(f, gauge, coeff)])]

GaugedFamily(f, ray, coeff) == SumOfFamily(f, Gauges(f, DOMAIN f.s), ray, coeff)

FromCosetFamily(psi, zs, ray, coeff) ==
    GaugedFamily(FamilyAt(ray[{}].state, StabilizerGenerators(ray[{}].state),
                          Movers(GroupOf(StabilizerGenerators(psi)), zs)),
                 ray, coeff)

-----------------------------------------------------------------------------

\* The state vector, up to a positive factor.
VectorOf(S) ==
    LET moved(v) == OnPauli(Flip(S, v), S.anchor)
        At(s, bits, c) == LET a == AmplitudeAt(s, bits) IN IF a.zero THEN X!Nought ELSE X!Turn(c, a.z8)
    IN  [bits \in SUBSET (0 .. (S.n - 1)) |->
            FoldSet(LAMBDA v, acc : X!Plus(acc, At(moved(v), bits, S.c[v])), X!Nought, DOMAIN S.c)]

=============================================================================
