----------------------------- MODULE CircuitLaw -----------------------------
(***************************************************************************)
(* What a circuit means, independently of how the front end rewrites it:   *)
(* a stabilizer tableau whose signs are symbolic.  A sign is a set of      *)
(* symbols, added as sets (symmetric difference): one symbol per random    *)
(* outcome (a coin), one per term of a noise site, and Minus.              *)
(*                                                                         *)
(* The law of a circuit is everything that is certain about it once the    *)
(* coins are summed out: every set of records, expectations and Paulis on  *)
(* the output wires whose parity is fixed, with the faults that flip it.   *)
(* Two circuits of equal law have the same records, expectations and       *)
(* output states for every fault that may happen.                          *)
(*                                                                         *)
(* The passes take a non-Clifford gate as a gate they know nothing about   *)
(* but, for T, CS and CCZ, that it is diagonal.  Here T acts as S, CS and  *)
(* CCZ as CZ on their first wires, CH as CX: gates of that kind on which a *)
(* wrong rewriting shows.                                                  *)
(***************************************************************************)
EXTENDS CircuitIR, FiniteSetsExt

Minus        == <<"minus", 0, 0>>
Coin(k)      == <<"coin", k, 0>>
Fault(s, t)  == <<"fault", s, t>>

\* The Hermitian Pauli with X on x, Z on z, Y on both, and sign f.
Pauli(x, z, f) == [x |-> x, z |-> z, f |-> f]

XLike == {"X", "Y"}
ZLike == {"Y", "Z"}

\* The product of Paulis l[i] on the wires on[i].
Product(on, l) == Pauli({on[i] : i \in {j \in DOMAIN on : l[j] \in XLike}},
                        {on[i] : i \in {j \in DOMAIN on : l[j] \in ZLike}}, {})

Anti(p, r) == (Cardinality(p.x \cap r.z) + Cardinality(p.z \cap r.x)) % 2 = 1

If(b, f) == IF b THEN f ELSE {}

Times(p, r) ==
    LET x == SymDiff(p.x, r.x)
        z == SymDiff(p.z, r.z)
        k == Cardinality(p.x \cap p.z) + Cardinality(r.x \cap r.z)
             + 2 * Cardinality(p.z \cap r.x) - Cardinality(x \cap z)
    IN  Pauli(x, z, SymDiff(SymDiff(p.f, r.f), If(k % 4 = 2, {Minus})))

Toggle(S, q, b) == SymDiff(S, If(b, {q}))

Signed(p, b) == SymDiff(p.f, If(b, {Minus}))

Meaning(g) == CASE g = "T" -> "S" [] g \in {"CS", "CCZ"} -> "CZ" [] g = "CH" -> "CX"
                [] OTHER -> g

\* g p g^-1
Conjugate(g, on, p) ==
    LET a == on[1]   b == on[2]
        xa == a \in p.x   za == a \in p.z
        xb == b \in p.x   zb == b \in p.z
    IN  CASE g = "X" -> [p EXCEPT !.f = Signed(p, za)]
          [] g = "Y" -> [p EXCEPT !.f = Signed(p, xa # za)]
          [] g = "Z" -> [p EXCEPT !.f = Signed(p, xa)]
          [] g = "H" -> Pauli(Toggle(p.x, a, xa # za), Toggle(p.z, a, xa # za),
                              Signed(p, xa /\ za))
          [] g = "S" -> Pauli(p.x, Toggle(p.z, a, xa), Signed(p, xa /\ za))
          [] g = "SDG" -> Pauli(p.x, Toggle(p.z, a, xa), Signed(p, xa /\ ~za))
          [] g = "CX" -> Pauli(Toggle(p.x, b, xa), Toggle(p.z, a, zb),
                               Signed(p, xa /\ zb /\ (xb = za)))
          [] g = "CZ" -> Pauli(p.x, Toggle(Toggle(p.z, b, xa), a, xb),
                               Signed(p, xa /\ xb /\ (za # zb)))

-----------------------------------------------------------------------------
(* A tableau is a set of pairs: a stabilizer s and its destabilizer d. *)

Zeros(n) == {[s |-> Pauli({}, {q}, {}), d |-> Pauli({q}, {}, {})] : q \in 0 .. (n - 1)}

\* The Pauli w is applied when the parity f is odd.
Apply(tab, w, f) ==
    {[r EXCEPT !.s.f = SymDiff(@, If(Anti(r.s, w), f))] : r \in tab}

Random(tab, p) == \E r \in tab : Anti(r.s, p)

Value(tab, p) ==
    FoldSet(LAMBDA r, acc : Times(r.s, acc), Pauli({}, {}, {}),
            {r \in tab : Anti(r.d, p)}).f

Project(tab, p, coin) ==
    LET g == CHOOSE r \in tab : Anti(r.s, p)
        By(w) == IF Anti(w, p) THEN Times(w, g.s) ELSE w
    IN  {[s |-> [p EXCEPT !.f = {coin}], d |-> g.s]}
        \cup {[s |-> By(r.s), d |-> By(r.d)] : r \in tab \ {g}}

\* The state while a circuit runs: recs are the records, exps the
\* expectations; an expectation that is not fixed is a coin of its own.
Measured(st, p) ==
    IF Random(st.tab, p)
    THEN [val |-> {Coin(st.coins)},
          st  |-> [st EXCEPT !.tab = Project(@, p, Coin(st.coins)), !.coins = @ + 1]]
    ELSE [val |-> Value(st.tab, p), st |-> st]

Parity(tab, p, fresh) == IF Random(tab, p) THEN {fresh} ELSE Value(tab, p)

Run1(st, ins) ==
    CASE ins.op = "gate" ->
             LET g == Meaning(ins.gate)
             IN  [st EXCEPT !.tab = {[s |-> Conjugate(g, ins.on, r.s),
                                      d |-> Conjugate(g, ins.on, r.d)] : r \in @}]
      [] ins.op = "noise" ->
             LET Hit(p) == {Fault(ins.site, t) :
                              t \in {u \in DOMAIN ins.terms :
                                        Anti(p, Product(ins.on, ins.terms[u]))}}
             IN  [st EXCEPT !.tab = {[r EXCEPT !.s.f = SymDiff(@, Hit(r.s))] : r \in @}]
      [] ins.op = "measure" ->
             LET m == Measured(st, Product(ins.on, <<ins.basis>>))
             IN  [m.st EXCEPT !.recs = Append(@,
                     SymDiff(SymDiff(m.val, If(ins.invert, {Minus})),
                             If(ins.noisy, {Fault(ins.site, 1)})))]
      [] ins.op = "reset" ->
             LET m == Measured(st, Product(ins.on, <<"Z">>))
             IN  [m.st EXCEPT !.tab = Apply(@, Product(ins.on, <<"X">>), m.val)]
      [] ins.op = "observable" ->
             [st EXCEPT !.exps = Append(@,
                 Parity(st.tab, Product(ins.on, ins.paulis), Coin(-1 - Len(@))))]
      [] ins.op = "feedback" ->
             [st EXCEPT !.tab = Apply(@, Product(ins.on, <<ins.basis>>),
                                      st.recs[Len(st.recs) - ins.back + 1])]

RECURSIVE RunFrom(_, _, _)
RunFrom(st, stream, i) ==
    IF i > Len(stream) THEN st ELSE RunFrom(Run1(st, stream[i]), stream, i + 1)

Final(c) == RunFrom([tab |-> Zeros(c.n), recs |-> <<>>, exps |-> <<>>, coins |-> 1],
                    c.stream, 1)

-----------------------------------------------------------------------------

Sum(forms, W) == FoldSet(LAMBDA i, acc : SymDiff(forms[i], acc), {}, W)

Certain(f) == \A s \in f : s[1] # "coin"

\* Every certain parity of the forms and of the Paulis on the wires that the
\* function "ports" names: which forms, which Pauli, and its value.
Relations(tab, forms, ports) ==
    LET Port(S) == {ports[i] : i \in S}
        P(x, z) == Pauli(Port(x), Port(z), {})
        Free   == Coin(0)
        paulis == {[x |-> x, z |-> z, f |-> Parity(tab, P(x, z), Free)] :
                      x \in SUBSET DOMAIN ports, z \in SUBSET DOMAIN ports}
        parities == {[of |-> W, f |-> Sum(forms, W)] : W \in SUBSET DOMAIN forms}
        all == {[of |-> w.of, x |-> p.x, z |-> p.z, f |-> SymDiff(w.f, p.f)] :
                   w \in parities, p \in {u \in paulis : Free \notin u.f}}
    IN  {r \in all : Certain(r.f)}

=============================================================================
