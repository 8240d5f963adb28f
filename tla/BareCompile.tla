---------------------------- MODULE BareCompile ----------------------------
(***************************************************************************)
(* The bare state of a circuit.  The circuit becomes a list of Pauli       *)
(* rotations exp(i c pi/8 P), the first one applied first, followed by a   *)
(* list of Clifford gates and a phase (src/pauli_rotation_form.cpp).       *)
(* Commuting rotations are turned into rotations about products of Z, and  *)
(* those into the magic columns they are on the support of a stabilizer    *)
(* state (src/stab_disentangle.cpp, src/pauli_diagonalize.cpp,             *)
(* src/parity_support.cpp, settle_even_entries).  The columns are reduced  *)
(* to few (src/fast_todd.cpp); the even ones are folded into that state    *)
(* and the odd ones split it into rays, whose sum is moved by the output   *)
(* gates (src/normal_form.cpp, src/parity_assemble.cpp).  A Clifford gate  *)
(* is <<name, wires>>; a phase is a number of sixteenths of a turn, as     *)
(* coefficients are.                                                       *)
(***************************************************************************)
EXTENDS StabSums

Dagger(g) == CASE g = "S" -> "SDG" [] g = "SDG" -> "S" [] OTHER -> g

\* The gates that undo gs.
Undo(gs) == [i \in DOMAIN gs |-> <<Dagger(Reverse(gs)[i][1]), Reverse(gs)[i][2]>>]

-----------------------------------------------------------------------------
(* The Heisenberg images of X and Z of each wire, brought up to date gate   *)
(* by gate: with the gates C so far, p becomes C^-1 p C.                    *)

FrameOf(n) == [X |-> [q \in 0 .. (n - 1) |-> Pauli({q}, {}, 0)],
               Z |-> [q \in 0 .. (n - 1) |-> Pauli({}, {q}, 0)]]

Image(F, p) ==
    FoldLeft(LAMBDA r, q : Times(r, Times(IF q \in p.x THEN F.X[q] ELSE One,
                                          IF q \in p.z THEN F.Z[q] ELSE One)),
             Pauli({}, {}, p.ph), Ascending(p.x \cup p.z))

\* Only the images of the wires the gate touches change.
Appended(F, g, on) ==
    LET new(p) == Image(F, Conj(Dagger(g), on, p))
        touched(q) == q \in {on[i] : i \in DOMAIN on}
    IN  [X |-> [q \in DOMAIN F.X |-> IF touched(q) THEN new(Pauli({q}, {}, 0)) ELSE F.X[q]],
         Z |-> [q \in DOMAIN F.Z |-> IF touched(q) THEN new(Pauli({}, {q}, 0)) ELSE F.Z[q]]]

-----------------------------------------------------------------------------
(* Rotations. *)

\* Every entry holds the Hermitian Pauli of its bits; a sign goes to c.
Hermitian(p) == Pauli(p.x, p.z, Cardinality(p.x \cap p.z) % 2)
SignOf(p)    == IF p.ph = Hermitian(p).ph THEN 1 ELSE -1

Entry(p, c) == [p |-> Hermitian(p), c |-> (c * SignOf(p)) % 16]

\* The newest rotation slides from the back past what it commutes with, joins
\* an equal one, or stays behind the first it anticommutes with.
Fold(terms, e) ==
    LET stop   == {i \in DOMAIN terms : Alike(terms[i].p, e.p) \/ Anti(terms[i].p, e.p)}
        at     == IF stop = {} THEN 0 ELSE Max(stop)
        joined == (terms[at].c + e.c) % 16
    IN  IF at = 0 \/ Anti(terms[at].p, e.p) THEN InsertAt(terms, at + 1, e)
        ELSE IF joined = 0 THEN RemoveAt(terms, at)
        ELSE [terms EXCEPT ![at] = [@ EXCEPT !.c = joined]]

\* A gate as rotations and Clifford gates.
Turned(p, c)   == [op |-> "rotation", p |-> p, c |-> c]
Plain(g, on)   == [op |-> "gate", gate |-> g, on |-> on]
YOn(q)         == Pauli({q}, {q}, 1)

Pieces(ins) ==
    LET a == ins.on[1]   b == ins.on[Len(ins.on)]   m == ins.on[(Len(ins.on) + 1) \div 2]
    IN  CASE ins.gate = "T"   -> <<Turned(ZOn({a}, 1), -1)>>
          [] ins.gate = "CS"  -> <<Turned(ZOn({a}, 1), -1), Turned(ZOn({b}, 1), -1),
                                   Turned(ZOn({a, b}, 1), 1)>>
          [] ins.gate = "CCZ" -> <<Turned(ZOn({a}, 1), -1), Turned(ZOn({m}, 1), -1),
                                   Turned(ZOn({b}, 1), -1), Turned(ZOn({a, m}, 1), 1),
                                   Turned(ZOn({a, b}, 1), 1), Turned(ZOn({m, b}, 1), 1),
                                   Turned(ZOn({a, m, b}, 1), -1)>>
          [] ins.gate = "CH"  -> <<Turned(YOn(b), 1), Plain("CZ", <<a, b>>), Turned(YOn(b), -1)>>
          [] OTHER            -> <<Plain(ins.gate, ins.on)>>

EmptyForm(n) == [n |-> n, terms |-> <<>>, cliffords |-> <<>>, phase |-> 0, frame |-> FrameOf(n)]

AddPiece(f, piece) ==
    IF piece.op = "gate"
    THEN [f EXCEPT !.cliffords = Append(@, <<piece.gate, piece.on>>),
                   !.frame = Appended(@, piece.gate, piece.on)]
    ELSE [f EXCEPT !.terms = Fold(@, Entry(Image(f.frame, piece.p), piece.c))]

AddGate(f, ins) ==
    FoldLeft(AddPiece, [f EXCEPT !.phase = (@ + IF ins.gate \in Diagonal THEN 1 ELSE 0) % 16],
             Pieces(ins))

\* Instructions other than gates are passed over.
BuildForm(c) ==
    FoldLeft(LAMBDA f, ins : IF ins.op = "gate" THEN AddGate(f, ins) ELSE f,
             EmptyForm(c.n), c.stream)

\* The axes of the odd rotations once the even ones, Clifford operators, have
\* been pulled past them to the output.
OddAxes(f) ==
    LET Pass(e, p)  == IF e.c % 4 = 2 /\ Anti(e.p, p) THEN Times(e.p, p) ELSE p
        Step(w, e)  == LET p == FoldLeft(LAMBDA r, x : Pass(x, r), e.p, w.even)
                       IN  IF e.c % 2 = 0 THEN [w EXCEPT !.even = Append(@, [e EXCEPT !.p = p])]
                           ELSE [w EXCEPT !.odd = Append(@, p)]
    IN  FoldLeft(Step, [even |-> <<>>, odd |-> <<>>], f.terms).odd

Commuting(axes) == \A i, j \in DOMAIN axes : ~Anti(axes[i], axes[j])

\* Odd rotations that do not commute are refused.
RefusedForm(f) == ~Commuting(OddAxes(f))

-----------------------------------------------------------------------------
RECURSIVE ConjAll(_, _)
ConjAll(gs, p) == IF gs = <<>> THEN p ELSE ConjAll(Tail(gs), Conj(gs[1][1], gs[1][2], p))

-----------------------------------------------------------------------------
(* n independent commuting Paulis reduced to +Z_0 .. +Z_(n-1).              *)

Emitted(d, g, on) ==
    [rows  |-> Listed([i \in DOMAIN d.rows |-> Conj(g, on, d.rows[i])]),
     gates |-> Append(d.gates, <<g, on>>)]

EmittedFor(d, g, q, S) == FoldLeft(LAMBDA e, r : Emitted(e, g, <<q, r>>), d, Ascending(S))

Swapped(rows, i, k) == [rows EXCEPT ![i] = rows[k], ![k] = rows[i]]

\* The pivot row becomes X of the wire, then +Z.
OnlyX(d, q)    == EmittedFor(d, "CX", q, d.rows[q + 1].x \ {q})
NotY(d, q)     == IF q \in d.rows[q + 1].z THEN Emitted(d, "S", <<q>>) ELSE d
IntoZ(d, q)    == Emitted(EmittedFor(d, "CZ", q, d.rows[q + 1].z \ {q}), "H", <<q>>)
Positive(d, q) == IF d.rows[q + 1].ph = 2 THEN Emitted(d, "X", <<q>>) ELSE d

Straightened(d, q) == IntoZ(NotY(OnlyX(d, q), q), q)

\* Z of the wire is multiplied out of the later rows.
Cleared(d, q) ==
    [d EXCEPT !.rows = Listed([i \in DOMAIN @ |->
        IF i > q + 1 /\ q \in @[i].z THEN Times(@[i], @[q + 1]) ELSE @[i]])]

\* The later row that is up next becomes the pivot's.
Chosen(d, q, rows) == [d EXCEPT !.rows = Swapped(@, q + 1, Min(rows))]

WithX(d, q) == {i \in DOMAIN d.rows : i > q /\ q \in d.rows[i].x}
Lone(d, q)  == {i \in DOMAIN d.rows : i > q /\ Alike(d.rows[i], ZOn({q}, 1))}

Exposed(d, q) == IF WithX(d, q) # {} THEN d ELSE Emitted(d, "H", <<q>>)

Pivoted(d, q) ==
    IF Lone(d, q) # {} THEN Chosen(d, q, Lone(d, q))
    ELSE LET Straight(e) == Straightened(Chosen(e, q, WithX(e, q)), q) IN Straight(Exposed(d, q))

DisentangleWire(d, q) == Cleared(Positive(Pivoted(d, q), q), q)

RECURSIVE DisentangleFrom(_, _)
DisentangleFrom(d, q) ==
    IF q = Len(d.rows) THEN d ELSE DisentangleFrom(DisentangleWire(d, q), q + 1)

Disentangle(gens) == DisentangleFrom([rows |-> gens, gates |-> <<>>], 0)

-----------------------------------------------------------------------------
(* Diagonalization. *)

Dual(p) == Columns(Pauli(p.z, p.x, 0))

\* The Pauli that meets the duals nowhere but at their pivots and at f.
Extender(duals, pivots, f) ==
    LET u == CHOOSE u \in {{f} \cup w : w \in SUBSET pivots} :
                 \A d \in duals : ~Odd(d \cap u)
        half(k) == {c[2] : c \in {e \in u : e[1] = k}}
    IN  Pauli(half(1), half(2), 0)

\* The independent Paulis of the list, and what completes them to n.
Lagrangian(axes, n) ==
    LET cols   == [i \in DOMAIN axes |-> Columns(axes[i])]
        first  == [k \in 1 .. Cardinality(Leaders(cols)) |-> axes[Ascending(Leaders(cols))[k]]]
        duals  == {Dual(first[k]) : k \in DOMAIN first}
        span   == {FoldSet(SymDiff, {}, D) : D \in SUBSET duals} \ {{}}
        pivots == {CHOOSE c \in v : \A e \in v : c = e \/ Before(c, e) : v \in span}
        Join(gens, f) ==
            LET u == Extender(duals, pivots, f)
                all == Append([k \in DOMAIN gens |-> Columns(gens[k])], Columns(u))
            IN  IF Len(gens) < n /\ Len(all) \in Leaders(all) THEN Append(gens, u) ELSE gens
        free   == SelectSeq([k \in 1 .. 2 * n |-> <<1 + (k - 1) \div n, (k - 1) % n>>],
                            LAMBDA f : f \notin pivots)
    IN  FoldLeft(Join, first, free)

\* The term with the sign of its diagonal Pauli in the coefficient.
Signed(D, c) == [z |-> D.z, c |-> (IF D.ph = 2 THEN -c ELSE c) % 16]

\* The gates that make every term's Pauli a signed product of Z, and the terms.
Diagonalize(terms, n) ==
    LET With(G) == [gates |-> G,
                    tz |-> [k \in DOMAIN terms |-> Signed(ConjAll(G, terms[k].p), terms[k].c)]]
    IN  With(Disentangle(Lagrangian([k \in DOMAIN terms |-> terms[k].p], n)).gates)

-----------------------------------------------------------------------------
(* Even rotations, Clifford operators, moved past the later rotations to    *)
(* the Clifford list.                                                       *)

\* Mutant: G e G^-1.
PastEvenBackwards(E, c, e) ==
    LET t == (c \div 2) % 4
    IN  IF ~Anti(E, e.p) \/ t = 0 THEN e
        ELSE IF t = 2 THEN [e EXCEPT !.c = (-@) % 16]
        ELSE Entry(Phased(Times(E, e.p), IF t = 1 THEN 1 ELSE 3), e.c)

\* G^-1 e G where G = exp(i (c/2) pi/4 E): the rotation e is moved past G.
PastEven(E, c, e) ==
    LET t == (c \div 2) % 4
    IN  IF ~Anti(E, e.p) \/ t = 0 THEN e
        ELSE IF t = 2 THEN [e EXCEPT !.c = (-@) % 16]
        ELSE Entry(Phased(Times(E, e.p), IF t = 1 THEN 3 ELSE 1), e.c)

\* The even rotation d, once diagonalized, as gates, up to a phase of
\* sixteenths: on the parity of its wires, collected on the last.
GatesOf(d, z, c) ==
    LET fan == [k \in 1 .. (Cardinality(z) - 1) |-> <<"CX", <<Ascending(z)[k], Max(z)>>>>]
        mid == CASE (c \div 2) % 4 = 1 -> <<<<"SDG", <<Max(z)>>>>>>
                 [] (c \div 2) % 4 = 2 -> <<<<"Z", <<Max(z)>>>>>>
                 [] (c \div 2) % 4 = 3 -> <<<<"S", <<Max(z)>>>>>>
                 [] OTHER -> <<>>
    IN  [gates |-> d.gates \o (IF z = {} THEN <<>> ELSE fan \o mid \o fan) \o Undo(d.gates),
         phase |-> c]

EvenGates(e, n) ==
    LET Of(d) == GatesOf(d, d.tz[1].z, d.tz[1].c) IN Of(Diagonalize(<<e>>, n))

Settled1(f, p, e, g) ==
    [f EXCEPT !.terms = RemoveAt([r \in DOMAIN @ |->
                            IF r > p THEN PastEven(e.p, e.c, @[r]) ELSE @[r]], p),
              !.cliffords = g.gates \o @,
              !.phase = (@ + g.phase) % 16]

SettleOne(f, p) ==
    IF f.terms[p].c % 2 = 1 THEN f ELSE Settled1(f, p, f.terms[p], EvenGates(f.terms[p], f.n))

\* The last term first.
RECURSIVE SettleFrom(_, _)
SettleFrom(f, p) == IF p = 0 THEN f ELSE SettleFrom(SettleOne(f, p), p - 1)

SettleEven(f) == SettleFrom(f, Len(f.terms))

-----------------------------------------------------------------------------
(* Columns: on the point of the support with generators y, a column on the  *)
(* generators "on" with coefficient c gives exp(+- i c pi/8), minus when an *)
(* odd number of them is in y.                                              *)

Column(on, c) == [on |-> on, c |-> c % 16]

ColumnOf(s, t) ==
    LET sum == {j \in DOMAIN s.R : Odd(s.R[j] \cap t.z)}
    IN  Column(sum, IF Odd(s.b \cap t.z) THEN -t.c ELSE t.c)

\* Columns that are constant on the support go to the phase.
RestrictToSupport(gates, tz, n) ==
    LET s   == OnGates(gates, AllZero(n))
        all == [k \in DOMAIN tz |-> ColumnOf(s, tz[k])]
    IN  [support |-> s,
         cols    |-> SelectSeq(all, LAMBDA k : k.on # {}),
         phase   |-> FoldLeft(LAMBDA a, k : IF k.on = {} THEN (a + k.c) % 16 ELSE a, 0, all)]

-----------------------------------------------------------------------------
(***************************************************************************)
(* Fewer magic columns for the same state (src/fast_todd.cpp,              *)
(* src/residue_projection.cpp, fast_todd_reduce_columns).  A column is     *)
(* [on, c]: exp(+- i c pi/8), minus where an odd number of the generators  *)
(* "on" is 1.  Modulo Clifford columns only the odd ones count, and a set  *)
(* of them may be exchanged for a smaller one; what the exchange leaves    *)
(* behind is added as even columns, so that the phase is exact.            *)
(***************************************************************************)

\* Sets of generators as binary numbers, the order of std::map.
AsNumber(S) == FoldSet(LAMBDA j, acc : acc + 2 ^ j, 0, S)
InOrder(C)  ==
    LET less(v, w) == AsNumber(v) < AsNumber(w)
    IN  [k \in 1 .. Cardinality(C) |-> CHOOSE v \in C : Cardinality({w \in C : less(w, v)}) = k - 1]

\* Equal columns are added up.
Combined(cols) ==
    [v \in {cols[k].on : k \in DOMAIN cols} |->
        FoldLeft(LAMBDA a, k : IF k.on = v THEN (a + k.c) % 16 ELSE a, 0, cols)]

IsMagic(v, c) == v # {} /\ c % 2 = 1

-----------------------------------------------------------------------------
(* Elimination: rows [v, lead, from], "from" the inputs summed into v.      *)

Reduced(B, row) ==
    FoldLeft(LAMBDA r, b : IF b.lead \in r.v
                           THEN [r EXCEPT !.v = SymDiff(@, b.v), !.from = SymDiff(@, b.from)]
                           ELSE r,
             row, B)

\* The least set bit leads.
Led(row) == [row EXCEPT !.lead = CHOOSE e \in row.v : TRUE]

Grown(B, row) ==
    LET r == Reduced(B, row) IN IF r.v = {} THEN B ELSE Append(B, Led(r))

RowOf(v, from) == [v |-> v, from |-> from, lead |-> {}]

\* The same with the new lead cleared from the earlier rows; integers, so
\* that the least one leads.
Extended(B, v) ==
    LET r == Reduced(B, RowOf(v, {}))
        p == Min(r.v)
    IN  IF r.v = {} THEN B
        ELSE Append([i \in DOMAIN B |-> IF p \in B[i].v
                                        THEN [B[i] EXCEPT !.v = SymDiff(@, r.v)] ELSE B[i]],
                    [r EXCEPT !.lead = p])

Projected(B, v)     == {i \in DOMAIN B : B[i].lead \in v}
Reconstructed(B, m) == FoldSet(LAMBDA i, acc : SymDiff(B[i].v, acc), {}, m)

-----------------------------------------------------------------------------
(* FastTODD.  A table is a sequence of columns, each a set of coordinates.  *)

\* A column with the pairs of its coordinates.
Quad(col) == {e \in SUBSET col : Cardinality(e) \in {1, 2}}

\* Zero columns go, equal ones cancel.
Proper(table) ==
    LET count(i) == Cardinality({k \in 1 .. i : table[k] = table[i]})
        total(i) == Cardinality({k \in DOMAIN table : table[k] = table[i]})
        keep == {i \in DOMAIN table : table[i] # {} /\ total(i) % 2 = 1 /\ count(i) = total(i)}
    IN  [k \in 1 .. Cardinality(keep) |-> table[Ascending(keep)[k]]]

\* z is added to the columns of y, and is a column of its own if y is odd.
Moved(table, y, z) ==
    Proper([i \in DOMAIN table |-> IF i \in y THEN SymDiff(table[i], z) ELSE table[i]]
           \o IF Odd(y) THEN <<z>> ELSE <<>>)

\* The columns y add up to nothing: how many columns go if z is added to them.
TohpeScore(table, y) ==
    LET once  == {i \in DOMAIN table : (i \in y) # Odd(y)}
        pairs == {<<i, j>> \in y \X DOMAIN table : j \notin y}
        sum(e) == SymDiff(table[e[1]], table[e[2]])
    IN  [z \in {table[i] : i \in once} \cup {sum(e) : e \in pairs} |->
            Cardinality({i \in once : table[i] = z}) + 2 * Cardinality({e \in pairs : sum(e) = z})]

\* The best z, the least number on a tie.
BestOf(score) ==
    LET top == Max({score[z] : z \in DOMAIN score})
    IN  InOrder({z \in DOMAIN score : score[z] = top})[1]

\* The columns with no pair of them left that add up to nothing; which of
\* several dependencies is used first is left open.
RECURSIVE Tohpe(_)
Tohpe(table) ==
    LET quads == [i \in DOMAIN table |-> Quad(table[i])]
        ys == {y \in SUBSET DOMAIN table : y # {} /\ RowSum(quads, y) = {}}
        Next(y) == LET s == TohpeScore(table, y)
                   IN  IF DOMAIN s = {} THEN {table} ELSE Tohpe(Moved(table, y, BestOf(s)))
    IN  IF ys = {} THEN {table} ELSE UNION {Next(y) : y \in ys}

\* What adding z to columns y changes, one row per coordinate and one for z:
\* a combination of rows that the columns span allows the exchange.
ChangeRows(z, r) ==
    [k \in 1 .. r |-> {{k, q} : q \in z \ {k}}] \o <<Quad(z)>>

\* The exchanges the rows of z give, each a set y of columns.
Exchanges(B, z, r) ==
    LET Step(acc, v) ==
            LET b == Reduced(acc.B, RowOf(v, {}))
            IN  IF b.v = {} THEN [acc EXCEPT !.ys = Append(@, b.from)]
                ELSE [acc EXCEPT !.B = Append(@, Led(b))]
    IN  FoldLeft(Step, [B |-> B, ys |-> <<>>], ChangeRows(z, r)).ys

ExchangeScore(table, y, z) ==
    LET at(v) == {i \in DOMAIN table : table[i] = v}
    IN  2 * Cardinality({l \in y : \E i \in at(SymDiff(table[l], z)) : i \notin y})
        + IF ~Odd(y) THEN 0 ELSE IF at(z) # {} THEN 1 ELSE -1

BestExchange(table, r) ==
    LET B == FoldLeft(LAMBDA b, i : Grown(b, RowOf(Quad(table[i]), {i})), <<>>,
                      [i \in DOMAIN table |-> i])
        n == Len(table)
        Of(i, j) ==
            LET z == SymDiff(table[i], table[j])
            IN  FoldLeft(LAMBDA s, y : IF (i \in y) # (j \in y)
                                       THEN Append(s, [y |-> y, z |-> z, score |-> ExchangeScore(table, y, z)])
                                       ELSE s,
                         <<>>, Exchanges(B, z, r))
        all == FlattenSeq([k \in 1 .. n * n |->
                   LET i == 1 + (k - 1) \div n   j == 1 + ((k - 1) % n)
                   IN  IF i < j THEN Of(i, j) ELSE <<>>])
    IN  FoldLeft(LAMBDA b, x : IF x.score > b.score THEN x ELSE b,
                 [y |-> {}, z |-> {}, score |-> 0], all)

\* The reduced tables the search may end with.
RECURSIVE FastTodd(_, _)
FastTodd(table, r) ==
    UNION {LET x == BestExchange(t, r)
           IN  IF x.score = 0 THEN {t} ELSE FastTodd(Moved(t, x.y, x.z), r)
           : t \in Tohpe(Proper(table))}

-----------------------------------------------------------------------------
(* What the exchange leaves behind.                                         *)

\* The coefficient of the monomial S in Sum c p(on), p the parity.
Monomial(cols, S) ==
    FoldSet(LAMBDA k, acc : acc + (CASE Cardinality(S) = 1 -> 1
                                     [] Cardinality(S) = 2 -> -2
                                     [] OTHER -> 4) * k.c,
            0, {k \in cols : S \subseteq k.on})

Monomials(r) == {S \in SUBSET (1 .. r) : Cardinality(S) \in 1 .. 3}

\* f - f1, mod 8.
Residue(f, f1, r) == [S \in Monomials(r) |-> (Monomial(f, S) - Monomial(f1, S)) % 8]

EvenGraded(g) ==
    \A S \in DOMAIN g : CASE Cardinality(S) = 1 -> g[S] % 2 = 0
                          [] Cardinality(S) = 2 -> g[S] % 4 = 0
                          [] OTHER -> g[S] = 0

\* One even column for a linear monomial, three for a product of two.
EvenColumns(g) ==
    LET Col(S, c) == [on |-> S, c |-> c % 8]
        Of(S) == IF Cardinality(S) = 1 THEN <<Col(S, 8 - g[S])>>
                 ELSE <<Col({Min(S)}, 6), Col({Max(S)}, 6), Col(S, 2)>>
        used  == InOrder({S \in DOMAIN g : g[S] # 0})
    IN  FlattenSeq([i \in DOMAIN used |-> Of(used[i])])

\* The column lists the reduction may give.
ReduceColumns(cols) ==
    LET comb  == Combined(cols)
        magic == {v \in DOMAIN comb : IsMagic(v, comb[v])}
        B     == FoldLeft(Extended, <<>>, InOrder(magic))
        proj  == [k \in DOMAIN InOrder(magic) |-> Projected(B, InOrder(magic)[k])]
        f     == {[on |-> Projected(B, v), c |-> -comb[v]] : v \in magic}
        keep  == InOrder({v \in DOMAIN comb : comb[v] # 0 /\ v \notin magic})
        With(red) ==
            LET g == Residue(f, {[on |-> red[k], c |-> 1] : k \in DOMAIN red}, Len(B))
                back(k) == [k EXCEPT !.on = Reconstructed(B, @)]
            IN  [even |-> EvenGraded(g),
                 cols |-> [k \in DOMAIN red |-> back([on |-> red[k], c |-> 7])]
                          \o [k \in DOMAIN EvenColumns(g) |-> back(EvenColumns(g)[k])]
                          \o [k \in DOMAIN keep |-> [on |-> keep[k], c |-> comb[keep[k]]]]]
    IN  IF magic = {} THEN {[even |-> TRUE, cols |-> cols]}
        ELSE {With(red) : red \in FastTodd(proj, Len(B))}

-----------------------------------------------------------------------------
(* The assembly. *)

\* Some wires on whose parity, but for a constant, the column is.
WiresOf(psi, col) == Solve([q \in 0 .. (psi.n - 1) |-> Row(psi, q)], col).part

Minus(psi, m) == Odd(m \cap psi.b)

\* The parity of the wires is collected on the first of them.
Fan(m) == LET rest == Ascending(m \ {Min(m)})
          IN  [k \in DOMAIN rest |-> <<"CX", <<rest[k], Min(m)>>>>]

\* An even column is a power of S on its wires, and a phase.
FoldEven(st, col) ==
    LET m   == WiresOf(st.psi, col.on)
        c   == (IF Minus(st.psi, m) THEN -col.c ELSE col.c) % 16
        pow == [k \in 1 .. (-(c \div 2)) % 4 |-> <<"S", <<Min(m)>>>>]
    IN  [psi |-> OnGates(Fan(m) \o pow \o Fan(m), st.psi), phase |-> (st.phase + c) % 16]

ProjectParity(st, m, bit) ==
    LET p == ProjectZ(OnGates(Fan(m), st.state), Min(m), bit)
    IN  [state |-> OnGates(Fan(m), p.state), amp |-> AmpTimes(st.amp, p.amp)]

\* Independent columns, each led by its least generator.
BasisOf(vs) ==
    LET Step(B, v) == LET r == Reduced(B, RowOf(v, {}))
                      IN  IF r.v = {} THEN B
                          ELSE Append(B, [v |-> r.v, from |-> {Len(B) + 1}, lead |-> Min(r.v)])
    IN  FoldLeft(Step, <<>>, vs)

ColumnsIn(comb, D) == [k \in 1 .. Cardinality(D) |-> [on |-> InOrder(D)[k], c |-> comb[InOrder(D)[k]]]]

Constants(comb) == {v \in DOMAIN comb : v = {} \/ comb[v] = 8}

OddOnes(comb)  == {v \in DOMAIN comb : IsMagic(v, comb[v])}
EvenOnes(comb) == {v \in DOMAIN comb : comb[v] % 2 = 0 /\ comb[v] # 0} \ Constants(comb)

Folded(support, comb, phase) ==
    FoldLeft(FoldEven,
             [psi |-> support, phase |-> FoldSet(LAMBDA v, acc : acc + comb[v], phase, Constants(comb))],
             ColumnsIn(comb, EvenOnes(comb)))

\* The part of psi on which the basis column i reads 1, i in g.
RayOf(psi, zs, g) ==
    FoldLeft(LAMBDA s, i : ProjectParity(s, zs[i], (Bit(g, i) + IF Minus(psi, zs[i]) THEN 1 ELSE 0) % 2),
             [state |-> psi, amp |-> Amp(0, 0)], [i \in DOMAIN zs |-> i])

PhaseOf(odd, member, phase, g) ==
    FoldLeft(LAMBDA a, k : a + IF Odd(member[k] \cap g) THEN -odd[k].c ELSE odd[k].c,
             phase, [k \in DOMAIN odd |-> k])

RaysOf(psi, zs, odd, member, phase) ==
    FromCosetFamily(psi, zs, [g \in SUBSET DOMAIN zs |-> RayOf(psi, zs, g)],
                    [g \in SUBSET DOMAIN zs |-> PhaseOf(odd, member, phase, g) \div 2])

OnBasis(st, odd, B) ==
    RaysOf(st.psi, Listed([i \in DOMAIN B |-> WiresOf(st.psi, B[i].v)]), odd,
           Listed([k \in DOMAIN odd |-> Reduced(B, RowOf(odd[k].on, {})).from]), st.phase)

SumOfOdd(st, odd) == OnBasis(st, odd, BasisOf([k \in DOMAIN odd |-> odd[k].on]))

AssembleColumns(support, comb, phase) ==
    SumOfOdd(Folded(support, comb, phase), ColumnsIn(comb, OddOnes(comb)))

\* The sum for the support and its columns; phases are sixteenths of a turn,
\* of which all coefficients have an even or all an odd number.
Assemble(support, cols, phase) == AssembleColumns(support, Combined(cols), phase)

-----------------------------------------------------------------------------

TermsCommute(f) == Commuting([k \in DOMAIN f.terms |-> f.terms[k].p])

StateFrom(f, gates, red, a) ==
    [kind |-> "state", sound |-> red.even /\ a.sound,
     sum |-> FoldLeft(LAMBDA S, g : SumGate(S, g[1], g[2]), a.sum, Undo(gates) \o f.cliffords)]

CompiledOn(f, gates, ps) ==
    {StateFrom(f, gates, red, Assemble(ps.support, red.cols, ps.phase + f.phase)) :
        red \in ReduceColumns(ps.cols)}

CompiledFrom(f, d) == CompiledOn(f, d.gates, RestrictToSupport(d.gates, d.tz, f.n))

\* The states the reduction may lead to.
Compiled(f) == CompiledFrom(f, Diagonalize(f.terms, f.n))

\* The family sampler settles the even rotations when they are in the way.
BuildFrom(f, t) ==
    IF RefusedForm(f) THEN {[kind |-> "magic"]}
    ELSE IF ~TermsCommute(t) THEN {[kind |-> "ladder"]}
    ELSE Compiled(t)

BuildForms(f, family) == BuildFrom(f, IF TermsCommute(f) \/ ~family THEN f ELSE SettleEven(f))

BuildBare(c, family) == BuildForms(BuildForm(c), family)

=============================================================================
