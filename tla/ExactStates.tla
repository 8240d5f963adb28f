---------------------------- MODULE ExactStates ----------------------------
(***************************************************************************)
(* State vectors, exactly: what a circuit does to them, independently of   *)
(* the sampler's algebra.  <<a, b, c, d>> is the amplitude                 *)
(* a + b w + c w^2 + d w^3, w = exp(i pi/4); a vector maps the set of      *)
(* wires that are 1 to an amplitude.  Vectors are not normalized: H is     *)
(* without its 1/sqrt2, CH and the rotations are times sqrt2.              *)
(***************************************************************************)
EXTENDS CircuitIR, FiniteSetsExt, TLC

Nought == <<0, 0, 0, 0>>
Sqrt2  == <<0, 1, 0, -1>>

\* a w^k
Turn(a, k) == [i \in 1 .. 4 |-> LET e == (i - 1 - k) % 8 IN IF e < 4 THEN a[e + 1] ELSE -a[e - 3]]

Plus(a, b) == <<a[1] + b[1], a[2] + b[2], a[3] + b[3], a[4] + b[4]>>

Mult(a, b) ==
    <<a[1] * b[1] - a[2] * b[4] - a[3] * b[3] - a[4] * b[2],
      a[1] * b[2] + a[2] * b[1] - a[3] * b[4] - a[4] * b[3],
      a[1] * b[3] + a[2] * b[2] + a[3] * b[1] - a[4] * b[4],
      a[1] * b[4] + a[2] * b[3] + a[3] * b[2] + a[4] * b[1]>>

Conjugated(a) == <<a[1], -a[4], -a[3], -a[2]>>

Zeros(n) == [s \in SUBSET (0 .. (n - 1)) |-> IF s = {} THEN <<1, 0, 0, 0>> ELSE Nought]

\* The same function (TLC evaluates its values here).
Tabulated(v) == v @@ <<>>

Sum(v, w) == Tabulated([s \in DOMAIN v |-> Plus(v[s], w[s])])

Scaled(a, v) == [s \in DOMAIN v |-> Mult(a, v[s])]

\* <v|w>
Inner(v, w) ==
    LET Over(k, sum) ==
            FoldSet(LAMBDA s, acc : Plus(acc, Mult(Conjugated(v[s]), w[s])), sum,
                    {s \in DOMAIN v : Cardinality(s) = k /\ v[s] # Nought})
    IN  FoldSet(Over, Nought, {Cardinality(s) : s \in DOMAIN v})

\* Equal up to a factor; neither is the zero vector.
Proportional(v, w) ==
    LET p == CHOOSE p \in DOMAIN v : v[p] # Nought
    IN  /\ w[p] # Nought
        /\ \A s \in DOMAIN v : Mult(v[s], w[p]) = Mult(w[s], v[p])

\* The operator i^ph X^x Z^z.
Apply(p, v) ==
    [s \in DOMAIN v |->
        LET from == SymDiff(s, p.x)
        IN  Turn(v[from], 2 * p.ph + 4 * Cardinality(p.z \cap from))]

\* 1 + i p
Rotate(p, v) ==
    [s \in DOMAIN v |->
        LET from == SymDiff(s, p.x)
        IN  Plus(v[s], Turn(v[from], 2 + 2 * p.ph + 4 * Cardinality(p.z \cap from)))]

Expect(p, v) == Inner(v, Apply(p, v))

Eighths(g) == CASE g = "T" -> 1 [] g \in {"S", "CS"} -> 2 [] g = "SDG" -> 6
                [] g \in {"Z", "CZ", "CCZ"} -> 4

Hadamard(v, a, s) == IF a \in s THEN Plus(v[s \ {a}], Turn(v[s], 4)) ELSE Plus(v[s], v[s \cup {a}])

Through(g, on, v) ==
    LET a == on[1]   b == on[Len(on)]
        all == {on[i] : i \in DOMAIN on}
    IN  CASE g = "X"  -> [s \in DOMAIN v |-> v[SymDiff(s, {a})]]
          [] g = "Y"  -> [s \in DOMAIN v |-> Turn(v[SymDiff(s, {a})], IF a \in s THEN 2 ELSE 6)]
          [] g = "H"  -> Tabulated([s \in DOMAIN v |-> Hadamard(v, a, s)])
          [] g = "CX" -> [s \in DOMAIN v |-> v[IF a \in s THEN SymDiff(s, {b}) ELSE s]]
          [] g = "CH" -> Tabulated([s \in DOMAIN v |->
                             IF a \in s THEN Hadamard(v, b, s) ELSE Mult(v[s], Sqrt2)])
          [] OTHER    -> [s \in DOMAIN v |-> Turn(v[s], IF all \subseteq s THEN Eighths(g) ELSE 0)]

\* The state after the circuit when the noise site s fires the Pauli
\* fired[s]; reads are left to the end.
FinalState(c, fired) ==
    FoldLeft(LAMBDA v, ins :
                 CASE ins.op = "gate" -> Through(ins.gate, ins.on, v)
                   [] ins.op = "noise" /\ ins.site \in DOMAIN fired -> Apply(fired[ins.site], v)
                   [] OTHER -> v,
             Zeros(c.n), c.stream)

=============================================================================
