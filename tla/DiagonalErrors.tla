--------------------------- MODULE DiagonalErrors ---------------------------
(***************************************************************************)
(* What a fault leaves at the end of a circuit, one X or Z (an atom) at a  *)
(* time (src/propagation_table.cpp, src/clifford_conjugate.cpp,            *)
(* src/clifford_op.cpp, src/ppr_residual.cpp).  An error of the diagonal   *)
(* class is                                                                *)
(*                                                                         *)
(*     w^g X^v Sum_y i^q(y) |y><y|,                                        *)
(*     q(y) = Sum a[j] y_j + 2 Sum_{{i, j} in B} y_i y_j  (mod 4).         *)
(*                                                                         *)
(* An atom a Hadamard takes out of the class is tried once more as a Pauli *)
(* and quarter rotations exp(i pi/4 e A) about axes A that commute.        *)
(***************************************************************************)
EXTENDS PauliAlgebra

X == INSTANCE ExactStates

NoError(wires) == [v |-> {}, a |-> [q \in wires |-> 0], B |-> {}, g |-> 0]

Seed(wires, basis, q) ==
    IF basis = "X" THEN [NoError(wires) EXCEPT !.v = {q}] ELSE [NoError(wires) EXCEPT !.a[q] = 2]

Coupled(D, q) == UNION {e \in D.B : q \in e} \ {q}

\* a[q] += k on the wires of S; the phase turned by k eighths.
AddTo(D, S, k) == [D EXCEPT !.a = [q \in DOMAIN @ |-> IF q \in S THEN (@[q] + k) % 4 ELSE @[q]]]
TurnBy(D, k)   == [D EXCEPT !.g = (@ + k) % 8]
Flip(D, pairs) == [D EXCEPT !.B = SymDiff(@, pairs)]

PairsIn(S) == {e \in SUBSET S : Cardinality(e) = 2}

\* The error of "first", then that of "next".
Then(first, next) ==
    LET met == {e \in next.B : e \subseteq first.v}
        A(q) == first.a[q] + (IF q \in first.v THEN -next.a[q] ELSE next.a[q])
                    + 2 * Cardinality(Coupled(next, q) \cap first.v)
    IN  [v |-> SymDiff(first.v, next.v), a |-> [q \in DOMAIN first.a |-> A(q) % 4],
         B |-> SymDiff(first.B, next.B),
         g |-> (first.g + next.g + 2 * FoldSet(LAMBDA q, k : k + next.a[q], 0, first.v)
                    + 4 * Cardinality(met)) % 8]

-----------------------------------------------------------------------------
(* U D U^-1 for a gate U. *)

\* A Hadamard takes what is no Pauli on its wire out of the class; CH, all.
Leaves(D, g, on) ==
    \/ g = "CH"
    \/ g = "H" /\ (D.a[on[1]] % 2 = 1 \/ Coupled(D, on[1]) # {})

\* q(y) becomes q(y + e_q).
Shift(D, q) ==
    LET moved == AddTo(TurnBy(D, 2 * D.a[q]), Coupled(D, q), 2)
    IN  [moved EXCEPT !.a[q] = (4 - @) % 4]

Swap(D, q) ==
    LET z == D.a[q] = 2   x == q \in D.v
    IN  [TurnBy(D, IF x /\ z THEN 4 ELSE 0) EXCEPT !.a[q] = IF x THEN 2 ELSE 0,
                                                   !.v = IF x # z THEN SymDiff(@, {q}) ELSE @]

Controlled(D, c, t) ==
    LET sum == AddTo(D, {c}, D.a[t] + IF {c, t} \in D.B THEN 2 ELSE 0)
    IN  [Flip(sum, {{c, q} : q \in Coupled(D, t) \ {c}} \cup IF D.a[t] % 2 = 1 THEN {{c, t}} ELSE {})
             EXCEPT !.v = IF c \in D.v THEN SymDiff(@, {t}) ELSE @]

\* A diagonal gate meets the X part; the wires hit are those X is on.
Dressed(D, g, on, hit, rest) ==
    LET all == Cardinality(hit) = Len(on)
        some == hit # {}
    IN  CASE g = "Z" -> TurnBy(D, IF some THEN 4 ELSE 0)
          [] g \in {"S", "SDG"} -> IF some THEN TurnBy(AddTo(D, hit, 2), IF g = "S" THEN 2 ELSE 6) ELSE D
          [] g = "T" -> IF some THEN TurnBy(AddTo(D, hit, 3), 1) ELSE D
          [] g = "CZ" -> TurnBy(AddTo(D, IF all THEN hit ELSE IF some THEN rest ELSE {}, 2),
                                IF all THEN 4 ELSE 0)
          [] g = "CS" -> IF all THEN TurnBy(AddTo(D, hit, 3), 2)
                         ELSE IF some THEN Flip(AddTo(D, rest, 1), {hit \cup rest}) ELSE D
          [] g = "CCZ" -> IF all THEN TurnBy(Flip(AddTo(D, hit, 2), PairsIn(hit)), 4)
                          ELSE CASE Cardinality(hit) = 2 ->
                                        Flip(AddTo(D, rest, 2), {rest \cup {q} : q \in hit})
                                 [] Cardinality(hit) = 1 -> Flip(D, {rest})
                                 [] OTHER -> D

ConjugateByGate(D, g, on) ==
    LET all == {on[i] : i \in DOMAIN on}
    IN  CASE g = "X"  -> Shift(D, on[1])
          [] g = "Y"  -> Shift(TurnBy(D, IF on[1] \in D.v THEN 4 ELSE 0), on[1])
          [] g = "H"  -> Swap(D, on[1])
          [] g = "CX" -> Controlled(D, on[1], on[2])
          [] OTHER    -> Dressed(D, g, on, all \cap D.v, all \ D.v)

-----------------------------------------------------------------------------
(* Quarter rotations. *)

\* The axis with phase 1 or i, -1 going to the exponent: <<axis, exponent>>.
Canonical(p, e) == IF p.ph >= 2 THEN <<Phased(p, 2), (8 - e) % 8>> ELSE <<p, e>>

\* exp(i pi/4 e p) joins the rotations; rots maps an axis to 1 .. 7.
MergeRot(rots, p, e) ==
    LET c == Canonical(p, e)
        sum == (c[2] + IF c[1] \in DOMAIN rots THEN rots[c[1]] ELSE 0) % 8
    IN  [r \in {r \in DOMAIN rots \cup {c[1]} : r # c[1] \/ sum # 0} |-> IF r = c[1] THEN sum ELSE rots[r]]

\* The terms of a diagonal gate, as exponents of Z products.
Generators(on) ==
    LET sets == SelectSeq(<<{1}, {2}, {3}, {1, 2}, {1, 3}, {2, 3}, {1, 2, 3}>>,
                          LAMBDA I : I \subseteq DOMAIN on)
    IN  [k \in DOMAIN sets |-> <<ZOn({on[i] : i \in sets[k]}, 1), IF Odd(sets[k]) THEN 1 ELSE 7>>]

\* One term: refused by an axis it would turn, a rotation if it meets P.
CrossTerm(R, t) ==
    CASE ~R.ok -> R
      [] R.ok /\ \E A \in DOMAIN R.rots : Anti(A, t[1]) -> [R EXCEPT !.ok = FALSE]
      [] OTHER -> IF Anti(R.P, t[1]) THEN [R EXCEPT !.rots = MergeRot(@, t[1], t[2])] ELSE R

ConjRots(rots, g, on) ==
    LET image == [A \in DOMAIN rots |-> Canonical(Conj(g, on, A), rots[A])]
    IN  [B \in {image[A][1] : A \in DOMAIN rots} |->
            (CHOOSE i \in {image[A] : A \in DOMAIN rots} : i[1] = B)[2]]

ConjResidual(R, g, on) == [R EXCEPT !.P = Conj(g, on, @), !.rots = ConjRots(@, g, on)]

\* CH is rot(-Y) CZ rot(Y) on its target.
PropagateResidual(R, g, on) ==
    LET Yt == Letters(<<on[Len(on)]>>, <<"Y">>)
        half == CrossTerm(R, <<Yt, 7>>)
    IN  CASE g \in Diagonal -> FoldLeft(CrossTerm, R, Generators(on))
          [] g = "CH" -> IF half.ok THEN CrossTerm(ConjResidual(half, "CZ", on), <<Yt, 1>>) ELSE half
          [] OTHER -> ConjResidual(R, g, on)

\* The Clifford gates of a residual, the phase of an axis taken from its
\* letters: W S^-e W^-1 for each rotation, W taking the axis to Z, then P.
AxisGates(p, e) ==
    LET on    == Ascending(p.x \cup p.z)
        turn  == FlattenSeq([k \in DOMAIN on |->
                     RotateToZ(IF on[k] \notin p.x THEN "Z" ELSE IF on[k] \in p.z THEN "Y" ELSE "X", on[k])])
        undo  == FlattenSeq([k \in DOMAIN on |->
                     RotateFromZ(IF on[k] \notin p.x THEN "Z" ELSE IF on[k] \in p.z THEN "Y" ELSE "X", on[k])])
        fan   == [k \in 1 .. Len(on) - 1 |-> Gate("CX", <<on[k + 1], on[1]>>)]
        minus == (p.ph - Cardinality(p.x \cap p.z)) % 4 = 2
    IN  IF on = <<>> THEN <<>>
        ELSE turn \o fan \o [k \in 1 .. (IF minus THEN 8 - e ELSE e) |-> Gate("SDG", <<on[1]>>)]
                 \o Reverse(fan) \o undo

ErrorGates(R) ==
    LET axes == SetToSeq(DOMAIN R.rots)
        On1(g, S) == [k \in 1 .. Cardinality(S) |-> Gate(g, <<Ascending(S)[k]>>)]
    IN  FlattenSeq([k \in DOMAIN axes |-> AxisGates(axes[k], R.rots[axes[k]])])
            \o On1("X", R.P.x) \o On1("Z", R.P.z)

-----------------------------------------------------------------------------
(* The table: atoms walked to the end of the circuit.                       *)

\* Mutant: CZ is skipped, being diagonal as the error.
SkippedOnX(g, on, touched) == g = "CZ" \/ (g # "CH" /\ \A i \in DOMAIN on : on[i] \notin touched)

\* A gate outside the wires the walk has touched is skipped, CH never.
Skipped(g, on, touched) == g # "CH" /\ \A i \in DOMAIN on : on[i] \notin touched

GatesAfter(c, i) == SelectSeq(SubSeq(c.stream, i + 1, Len(c.stream)), LAMBDA ins : ins.op = "gate")

WalkAtom(c, i, basis, q) ==
    LET Step(w, ins) ==
            IF ~w.ok \/ Skipped(ins.gate, ins.on, w.touched) THEN w
            ELSE IF Leaves(w.D, ins.gate, ins.on) THEN [w EXCEPT !.ok = FALSE]
            ELSE [w EXCEPT !.D = ConjugateByGate(@, ins.gate, ins.on), !.touched = @ \cup On(ins)]
    IN  FoldLeft(Step, [ok |-> TRUE, D |-> Seed(Wires(c), basis, q), touched |-> {q}], GatesAfter(c, i))

RetryAtom(c, i, basis, q) ==
    LET Step(w, ins) ==
            IF ~w.R.ok \/ Skipped(ins.gate, ins.on, w.touched) THEN w
            ELSE [R |-> PropagateResidual(w.R, ins.gate, ins.on), touched |-> w.touched \cup On(ins)]
        P == IF basis = "X" THEN Pauli({q}, {}, 0) ELSE ZOn({q}, 1)
    IN  FoldLeft(Step, [R |-> [ok |-> TRUE, P |-> P, rots |-> <<>>], touched |-> {q}], GatesAfter(c, i)).R

NoiseSites(c) == {i \in DOMAIN c.stream : c.stream[i].op = "noise"}

\* The atoms the terms of a channel are made of: <<position, basis, wire>>.
Support(c, i) ==
    LET ins == c.stream[i]
        Has(j, L) == \E t \in DOMAIN ins.terms : ins.terms[t][j] \in L
    IN  {<<i, "X", ins.on[j]>> : j \in {j \in DOMAIN ins.on : Has(j, {"X", "Y"})}}
            \cup {<<i, "Z", ins.on[j]>> : j \in {j \in DOMAIN ins.on : Has(j, {"Z", "Y"})}}

AllAtoms(c) == UNION {Support(c, i) : i \in NoiseSites(c)}

PropagationTable(c) == [at \in AllAtoms(c) |-> WalkAtom(c, at[1], at[2], at[3])]

InClass(table) == \A at \in DOMAIN table : table[at].ok

\* With the second try; an atom that fails both refuses the circuit.
Served(c) == \A at \in AllAtoms(c) : WalkAtom(c, at[1], at[2], at[3]).ok \/ RetryAtom(c, at[1], at[2], at[3]).ok

\* The error of the letters l on the wires "on" of the channel at i, factor by
\* factor, Y an X atom and then a Z atom.
AlternativeError(c, table, i, on, l) ==
    LET Factor(D, j) ==
            LET x == IF l[j] \in {"X", "Y"} THEN Then(D, table[<<i, "X", on[j]>>].D) ELSE D
            IN  IF l[j] \in {"Z", "Y"} THEN Then(x, table[<<i, "Z", on[j]>>].D) ELSE x
    IN  FoldLeft(Factor, NoError(Wires(c)), [j \in DOMAIN on |-> j])

-----------------------------------------------------------------------------
(* D^-1 p D *)

ConjugateThrough(D, p) ==
    LET meet == {e \in D.B : e \cap p.x # {}}
        z    == {q \in p.x : D.a[q] % 2 = 1}
        arms == {q \in DOMAIN D.a : Odd({e \in meet : q \in e /\ e \ {q} \subseteq p.x})}
    IN  Pauli(p.x, SymDiff(SymDiff(p.z, z), arms),
              p.ph + 2 * Cardinality(D.v \cap p.z)
                  + FoldSet(LAMBDA q, k : k + 4 - D.a[q], 0, p.x)
                  + 2 * Cardinality({e \in meet : e \subseteq p.x}))

\* The error on a state vector.
OnVector(D, vec) ==
    LET Q(y) == FoldSet(LAMBDA q, k : k + D.a[q], 0, y) + 2 * Cardinality({e \in D.B : e \subseteq y})
    IN  [s \in DOMAIN vec |-> LET from == SymDiff(s, D.v) IN X!Turn(vec[from], D.g + 2 * Q(from))]

=============================================================================
