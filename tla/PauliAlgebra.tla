---------------------------- MODULE PauliAlgebra ----------------------------
(***************************************************************************)
(* Signed Paulis and the certified group of a clean state (src/pauli.cpp,  *)
(* src/clifford_tableau.cpp, src/twirl_planes.cpp).  The Pauli p is the    *)
(* operator i^ph X^x Z^z, x and z sets of wires.  Bit rows are sets and    *)
(* their sums symmetric differences; what an elimination returns is named  *)
(* by what determines it, a combination of independent rows being unique.  *)
(***************************************************************************)
EXTENDS CircuitIR, FiniteSetsExt

Pauli(x, z, ph) == [x |-> x, z |-> z, ph |-> ph % 4]

One     == Pauli({}, {}, 0)
ZOn(S, sign) == Pauli({}, S, IF sign = 1 THEN 0 ELSE 2)

Odd(S) == Cardinality(S) % 2 = 1

Anti(p, r) == Odd(p.x \cap r.z) # Odd(p.z \cap r.x)

Times(p, r) ==
    Pauli(SymDiff(p.x, r.x), SymDiff(p.z, r.z),
          p.ph + r.ph + 2 * Cardinality(p.z \cap r.x))

Phased(p, k) == [p EXCEPT !.ph = (@ + k) % 4]

\* Equal up to phase.
Alike(p, r) == p.x = r.x /\ p.z = r.z

ModPhase(p) == [p EXCEPT !.ph = 0]

\* A function on 1 .. n as the list it is (TLC evaluates its members here).
Listed(f) == <<>> \o f

\* The product of f[i] over the numbers i of S, in order.
ProductOver(f, S) == FoldLeft(LAMBDA p, i : Times(p, f[i]), One, Ascending(S))

\* The sum of the rows f[i], i in S.
RowSum(f, S) == {e \in UNION {f[i] : i \in S} : Odd({i \in S : e \in f[i]})}

\* The Pauli the letters l fire on the wires "on": Y is iXZ.
Letters(on, l) ==
    LET In(L) == {on[i] : i \in {j \in DOMAIN l : l[j] \in L}}
    IN  Pauli(In({"X", "Y"}), In({"Z", "Y"}), Cardinality(In({"Y"})))

-----------------------------------------------------------------------------
(* g p g^-1, with the exact phase. *)

Toggle(S, q, b) == IF b THEN SymDiff(S, {q}) ELSE S

Conj(g, on, p) ==
    LET a  == on[1]           b  == on[Len(on)]
        xa == a \in p.x       za == a \in p.z
        xb == b \in p.x       zb == b \in p.z
        k(c, n) == IF c THEN n ELSE 0
    IN  CASE g = "X"   -> Phased(p, k(za, 2))
          [] g = "Z"   -> Phased(p, k(xa, 2))
          [] g = "Y"   -> Phased(p, k(xa # za, 2))
          [] g = "S"   -> Pauli(p.x, Toggle(p.z, a, xa), p.ph + k(xa, 1))
          [] g = "SDG" -> Pauli(p.x, Toggle(p.z, a, xa), p.ph + k(xa, 3))
          [] g = "H"   -> Pauli(Toggle(p.x, a, xa # za), Toggle(p.z, a, xa # za),
                                p.ph + k(xa /\ za, 2))
          [] g = "CX"  -> Pauli(Toggle(p.x, b, xa), Toggle(p.z, a, zb), p.ph)
          [] g = "CZ"  -> Pauli(p.x, Toggle(Toggle(p.z, b, xa), a, xb), p.ph + k(xa /\ xb, 2))

-----------------------------------------------------------------------------
(* Combinations of rows. *)

\* The sets of rows that sum to v: at most one when the rows are independent.
Combinations(f, v) == {c \in SUBSET DOMAIN f : RowSum(f, c) = v}

\* The indices whose row is not a sum of earlier ones, in index order.
Leading(f, L, j) == Combinations([i \in L |-> f[i]], f[j]) = {}

RECURSIVE LeadersUpTo(_, _, _)
LeadersUpTo(f, js, L) ==
    IF js = <<>> THEN L
    ELSE LeadersUpTo(f, Tail(js), IF Leading(f, L, Head(js)) THEN L \cup {Head(js)} ELSE L)

Leaders(f) == LeadersUpTo(f, Ascending(DOMAIN f), {})

-----------------------------------------------------------------------------
(* The certified group: generators g with g|psi> = |psi>. *)

\* X of wire q comes first, then Z; a column is <<block, wire>>.
Columns(p) == ({1} \X p.x) \cup ({2} \X p.z)

Before(c, d) == c[1] < d[1] \/ (c[1] = d[1] /\ c[2] < d[2])

Lead(p) == CHOOSE c \in Columns(p) : \A d \in Columns(p) : c = d \/ Before(c, d)

GroupOf(gens) == {ProductOver(gens, c) : c \in SUBSET DOMAIN gens}

PivotColumns(group) == {Lead(g) : g \in {h \in group : Columns(h) # {}}}

\* What build() keeps of the generators.
Planes(gens) ==
    LET group == GroupOf(gens)
    IN  [gens |-> gens, group |-> group, pivots |-> PivotColumns(group)]

\* p times the one element of the group that clears its pivot columns.
Reduce(G, p) ==
    LET cleared == {r \in {Times(p, g) : g \in G.group} : Columns(r) \cap G.pivots = {}}
    IN  CHOOSE r \in cleared : TRUE

InGroup(G, p) == Columns(Reduce(G, p)) = {}

\* The generators p anticommutes with.
Plane(G, p) == {i \in DOMAIN G.gens : Anti(p, G.gens[i])}

\* A product wire is one of which +Z or -Z is in the group, 0 if it is not.
ProductSign(G, q) ==
    IF ZOn({q}, 1) \in G.group THEN 1
    ELSE IF ZOn({q}, -1) \in G.group THEN -1 ELSE 0

=============================================================================
