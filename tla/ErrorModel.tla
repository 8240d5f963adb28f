----------------------------- MODULE ErrorModel -----------------------------
(***************************************************************************)
(* The detector error model of a circuit (src/dem_export.cpp,              *)
(* src/dem_solve_channel.cpp, src/dem_decompose.cpp): independent          *)
(* mechanisms, each flipping a set of targets, that have the law of the    *)
(* circuit's faults.  Targets are parities of records (detectors,          *)
(* observables, decisions) and the Pauli frames of the output wires.  The  *)
(* alternatives of a channel exclude each other; what one of them does to  *)
(* the targets may itself be random.  Also the test which parities are     *)
(* certain without noise (detector_determinism).                           *)
(*                                                                         *)
(* A mechanism of probability q is kept as what 1 - 2q is: a product of    *)
(* numbers with exponents in eighths.  A number is <<p, q, d>>,            *)
(* (p + q sqrt2) / d in lowest terms.                                      *)
(***************************************************************************)
EXTENDS RecordSampler

D == INSTANCE DiagonalErrors

CONSTANT Exports    \* theme -> what is asked of its circuits: models and diagnoses

VARIABLE dem        \* the answer to one of them

NoAnswer == [at |-> "none"]

EInit == SInit /\ dem = NoAnswer

-----------------------------------------------------------------------------
(* Numbers. *)

RECURSIVE Gcd(_, _)
Gcd(a, b) == IF b = 0 THEN a ELSE Gcd(b, a % b)

Abs(k) == IF k < 0 THEN -k ELSE k

Num(p, q, d) ==
    LET g == Gcd(Gcd(Abs(p), Abs(q)), d) IN <<p \div g, q \div g, d \div g>>

Unity == <<1, 0, 1>>
Zero  == <<0, 0, 1>>

NumAdd(x, y)   == Num(x[1] * y[3] + y[1] * x[3], x[2] * y[3] + y[2] * x[3], x[3] * y[3])
Mul(x, y)   == Num(x[1] * y[1] + 2 * x[2] * y[2], x[1] * y[2] + x[2] * y[1], x[3] * y[3])
Less(x, y)  == NumAdd(x, <<-y[1], -y[2], y[3]>>)
Total(f, S) == FoldSet(LAMBDA s, acc : NumAdd(f[s], acc), Zero, S)

\* 1 - 2x
Bias(x) == Less(Unity, NumAdd(x, x))

RECURSIVE Above(_, _)
\* a > b sqrt2, for positive numbers
Above(a, b) == IF a >= 2 * b THEN TRUE ELSE IF a <= b THEN FALSE ELSE ~Above(2 * b - a, a - b)

Positive(x) ==
    IF x[1] >= 0 /\ x[2] >= 0 THEN x # Zero
    ELSE IF x[1] > 0 THEN Above(x[1], -x[2]) ELSE x[2] > 0 /\ ~Above(-x[1], x[2])

\* The real amplitude a over the real amplitude w.
Ratio(a, w) ==
    LET d == w[1] * w[1] - 2 * w[2] * w[2]
        s == IF d < 0 THEN -1 ELSE 1
    IN  Num(s * (a[1] * w[1] - 2 * a[2] * w[2]), s * (a[2] * w[1] - a[1] * w[2]), s * d)

\* Products of numbers: number -> exponent.
AddLog(a, b) ==
    LET Exp(l, x) == IF x \in DOMAIN l THEN l[x] ELSE 0
    IN  [x \in {x \in DOMAIN a \cup DOMAIN b : Exp(a, x) + Exp(b, x) # 0} |-> Exp(a, x) + Exp(b, x)]

LogOf(x, k) == IF x = Unity THEN <<>> ELSE x :> k

-----------------------------------------------------------------------------
(* The circuit. *)

InClass(c) == D!InClass(D!PropagationTable(c))

Mean(p) == Ratio(L!Expectation(bare.F, p), L!Weight(bare.F.c))

Sharp(p) == Mean(p) \in {Unity, <<-1, 0, 1>>}

\* Reads are on wires of their own.
OwnWires == \A j, k \in DOMAIN Records(work) : Records(work)[j].on = Records(work)[k].on => j = k

\* The code keeps a model's dead sites out of the way of frames, and copies
\* reads with diagonal gates if that alone keeps faults in the class; a
\* diagnosis does neither.  Here either circuit may be asked, for both.
Unasked == bare.at = "framed" /\ bare.how = "unread" /\ ~view.armed /\ dem.at = "none" /\ mode = "crossing"

-----------------------------------------------------------------------------
(* A model is asked for with                                                *)
(*   parities: target -> set of records; a target is <<kind, index>>,       *)
(*   weights:  noise site -> the probabilities of its terms,                *)
(*   readout:  site of a noisy read -> the probability of its flip,         *)
(*   chains:   the sites whose terms are tried one after the other,         *)
(*   drop:     leave out observables that are not certain,                  *)
(*   disjoint: {the largest probability that may be treated as independent} *)
(*             or {},                                                       *)
(*   graphlike: "no", "yes", or "try".                                      *)

Loose(r, kind) == {t \in DOMAIN r.parities : t[1] = kind /\ ~Sharp(Column(work, r.parities[t]))}

NoiseInOrder == SelectSeq([i \in DOMAIN work.stream |-> i], LAMBDA i : work.stream[i].op = "noise")

Refusal(why) == [at |-> "declined", why |-> why]

Opened(r) ==
    IF plan # <<>> THEN Refusal("feedback")
    ELSE IF ~InClass(work) THEN Refusal("class")
    ELSE IF ~OwnWires THEN Refusal("wires")
    ELSE IF Loose(r, "detector") # {} THEN Refusal("detector")
    ELSE IF Loose(r, "observable") # {} /\ ~r.drop THEN Refusal("observable")
    ELSE [at |-> "converting", r |-> r, table |-> D!PropagationTable(work), left |-> NoiseInOrder,
          reads |-> [t \in DOMAIN r.parities \ Loose(r, "observable") |-> r.parities[t]],
          errors |-> <<>>, exact |-> TRUE]

OpenModel(r) ==
    /\ Unasked /\ r.ask = "model"
    /\ dem' = Opened(r)
    /\ UNCHANGED <<vars, bareVars, samplerVars>>

-----------------------------------------------------------------------------
(* One alternative: an error E of the diagonal class at the end. *)

ReadWire(k) == Records(work)[k].on[1]

\* Reads turned into each other or entangled by E are no longer fixed.
Randomized(E) ==
    {k \in DOMAIN Records(work) :
        Records(work)[k].basis # "Z" /\ (E.a[ReadWire(k)] % 2 = 1 \/ D!Coupled(E, ReadWire(k)) # {})}

FlippedBy(E) ==
    {k \in DOMAIN Records(work) \ Randomized(E) :
        LET q == ReadWire(k)
        IN  IF Records(work)[k].basis = "Z" THEN q \in E.v
            ELSE (E.a[q] = 2) # (Records(work)[k].basis = "Y" /\ q \in E.v)}

FrameFlips(E) ==
    {<<"frameX", q>> : q \in {q \in DOMAIN ports : ports[q] \in E.v}}
    \cup {<<"frameZ", q>> : q \in {q \in DOMAIN ports :
             LET w == ports[q]
             IN  ((E.a[w] >= 2) # (E.a[w] % 2 = 1 /\ w \in E.v)) # T!Odd(D!Coupled(E, w) \cap E.v)}}

OddOver(S) == {t \in DOMAIN dem.reads : T!Odd(dem.reads[t] \cap S)}

Signature(E) == OddOver(FlippedBy(E)) \cup FrameFlips(E)

\* The targets a randomized read is part of, even if two of them cancel.
RandomTargets(E) == {t \in DOMAIN dem.reads : dem.reads[t] \cap Randomized(E) # {}}

TargetPauli(t) == Column(work, dem.reads[t])

SignOf(p) == IF Mean(p) = Unity THEN 0 ELSE 2

\* What target t reads behind E, +1 when it is not flipped.
Behind(E, t) == T!Phased(D!ConjugateThrough(E, TargetPauli(t)), SignOf(TargetPauli(t)))

\* Only products that move no generator all branches share have a mean.
FourierSupport(A) ==
    LET Over(S) == FoldSet(LAMBDA t, p : T!Times(A[t], p), T!One, S)
        Kept    == {S \in SUBSET DOMAIN A : L!InFrame(bare.F, Over(S)).x \subseteq bare.F.free}
    IN  X!Tabulated([S \in Kept |-> Mean(Over(S))])

Negated(x, odd) == IF odd THEN <<-x[1], -x[2], x[3]>> ELSE x

\* The probability that exactly the targets of f, out of m, are flipped.
Pattern(mu, m, f) ==
    Mul(Total([S \in DOMAIN mu |-> Negated(mu[S], T!Odd(S \cap f))], DOMAIN mu), <<1, 0, 2 ^ m>>)

\* What an alternative flips: signature -> probability.
SpreadLaw(E, rt, mu) ==
    LET fixed == Signature(E) \ rt
        p     == X!Tabulated([f \in SUBSET rt |-> Pattern(mu, Cardinality(rt), f)])
        drawn == {f \in SUBSET rt : p[f] # Zero}
    IN  [kind |-> IF \A S \in DOMAIN mu : mu[S] \in {Zero, Unity, Negated(Unity, TRUE)}
                  THEN "coset" ELSE "support",
         law  |-> X!Tabulated([s \in {fixed \cup f : f \in drawn} |-> p[s \cap rt]])]

AlternativeLaw(E) ==
    LET rt == RandomTargets(E)
    IN  IF Randomized(E) = {} THEN [kind |-> "pauli", law |-> Signature(E) :> Unity]
        ELSE IF \E t \in rt : ~Sharp(TargetPauli(t)) THEN [kind |-> "undefined", law |-> <<>>]
        ELSE SpreadLaw(E, rt, FourierSupport(X!Tabulated([t \in rt |-> Behind(E, t)])))

-----------------------------------------------------------------------------
(* One channel: disjoint alternatives to independent mechanisms. *)

Solved(errors) == [ok |-> TRUE, errors |-> errors]
Failed(why)    == [ok |-> FALSE, why |-> why]

Span(sigs) == FoldSet(LAMBDA s, G : G \cup {SymDiff(s, g) : g \in G}, {{}}, sigs)

\* Targets that tell the elements of a group apart, as few as there can be.
Coordinates(group) ==
    CHOOSE U \in SUBSET UNION group :
        2 ^ Cardinality(U) = Cardinality(group) /\ Cardinality({g \cap U : g \in group}) = Cardinality(group)

\* x > 1 for the product x that l stands for.
AboveOne(l) ==
    LET Side(keys, e(_)) == FoldSet(LAMBDA x, acc : FoldLeft(LAMBDA y, k : Mul(y, x), acc, [k \in 1 .. e(x) |-> k]),
                                    Unity, keys)
    IN  Positive(Less(Side({x \in DOMAIN l : l[x] > 0}, LAMBDA x : l[x]),
                      Side({x \in DOMAIN l : l[x] < 0}, LAMBDA x : -l[x])))

\* The exponents of the coefficients hat in those of the mechanism h.
Weights(hat, h) ==
    FoldSet(LAMBDA c, l : AddLog(LogOf(hat[c], IF T!Odd(c \cap h) THEN 1 ELSE -1), l), <<>>, DOMAIN hat)

\* Mutant: the inverse transform is not divided by the size of the group.
MechanismUnscaled(size, l) == [x \in DOMAIN l |-> 16 * l[x]]

Mechanism(size, l) == [x \in DOMAIN l |-> (16 \div size) * l[x]]

SolveOn(hat, group) ==
    LET l == X!Tabulated([h \in group \ {{}} |-> Weights(hat, h)])
    IN  IF \E c \in DOMAIN hat : ~Positive(hat[c]) THEN Failed("over-mixing")
        ELSE IF \E h \in DOMAIN l : AboveOne(l[h]) THEN Failed("negative")
        ELSE Solved([h \in {h \in DOMAIN l : l[h] # <<>>} |-> Mechanism(Cardinality(group), l[h])])

\* The Walsh transform of a law of signatures that sums to at most 1.
Transform(law, U) ==
    X!Tabulated([c \in SUBSET U |-> Bias(Total(law, {s \in DOMAIN law : T!Odd(s \cap c)}))])

\* direct: a single signature is a mechanism, whatever its probability.
Solve(law, direct) ==
    LET group == Span(DOMAIN law)
    IN  IF direct /\ Cardinality(DOMAIN law) = 1 THEN Solved([s \in DOMAIN law |-> LogOf(Bias(law[s]), 8)])
        ELSE SolveOn(Transform(law, Coordinates(group)), group)

\* One alternative, uniform on the signatures of "sup", in closed form; apart
\* from the empty one, its differences would need a negative probability.
SolveCoset(sup, p) ==
    IF Cardinality(sup) = 1 THEN Solved([s \in sup \ {{}} |-> LogOf(Bias(p), 8)])
    ELSE IF {} \in sup
    THEN IF Positive(Less(Unity, p)) THEN Solved([s \in sup \ {{}} |-> LogOf(Less(Unity, p), 16 \div Cardinality(sup))])
         ELSE Failed("over-mixing")
    ELSE IF Positive(Bias(p)) THEN Failed("negative") ELSE Failed("over-mixing")

\* The law of a channel whose alternative t has probability p[t].
Disjoint(alts, p) ==
    LET Has(s) == {t \in DOMAIN alts : s \in DOMAIN alts[t].law}
    IN  X!Tabulated([s \in UNION {DOMAIN alts[t].law : t \in DOMAIN alts} \ {{}} |->
            Total([t \in Has(s) |-> Mul(p[t], alts[t].law[s])], Has(s))])

\* The dimension of what a law is spread over.
Spread(law) ==
    LET one == CHOOSE s \in DOMAIN law : TRUE
    IN  CHOOSE k \in 0 .. Cardinality(DOMAIN law) :
            2 ^ k = Cardinality(Span({SymDiff(s, one) : s \in DOMAIN law}))

Converted(alts, p) ==
    LET spread == {t \in DOMAIN alts : alts[t].kind # "pauli"}
        paulis == {t \in DOMAIN alts : alts[t].kind = "pauli" /\ {} \notin DOMAIN alts[t].law}
        rank   == FoldSet(LAMBDA t, k : k + Spread(alts[t].law) + 1, 0, spread \cup paulis)
    IN  IF spread = {} /\ paulis = {} THEN Solved(<<>>)
        ELSE IF paulis = {} /\ \E t \in spread : spread = {t} /\ alts[t].kind = "coset"
        THEN LET t == CHOOSE t \in spread : TRUE IN SolveCoset(DOMAIN alts[t].law, p[t])
        ELSE Solve(Disjoint(alts, p), spread = {} \/ rank <= 4)

\* Mechanisms of one signature are composed: either, but not both.
Composed(errors, new) ==
    LET Of(e, s) == IF s \in DOMAIN e THEN e[s] ELSE <<>>
    IN  X!Tabulated([s \in DOMAIN errors \cup DOMAIN new |-> AddLog(Of(errors, s), Of(new, s))])

ErrorOf(i, t) == D!AlternativeError(work, dem.table, i, work.stream[i].on, work.stream[i].terms[t])

Exceeds(r, x) == \A most \in r.disjoint : Positive(Less(x, most))

\* What cannot be converted exactly is refused, or, if all its probabilities
\* are small, treated as independent.
Take(m, alts, p, solved) ==
    IF \E t \in DOMAIN alts : alts[t].kind = "undefined" THEN Refusal("decision")
    ELSE IF solved.ok THEN [m EXCEPT !.errors = Composed(@, solved.errors)]
    ELSE IF \E t \in DOMAIN alts : Exceeds(m.r, p[t]) THEN Refusal(solved.why)
    ELSE LET law == Disjoint(alts, p)
         IN  [m EXCEPT !.errors = Composed(@, [s \in DOMAIN law |-> LogOf(Bias(law[s]), 8)]), !.exact = FALSE]

Flush(m, i, ts, p) ==
    LET alts == X!Tabulated([t \in {t \in ts : p[t] # Zero} |-> AlternativeLaw(ErrorOf(i, t))])
    IN  IF m.at = "declined" THEN m ELSE Take(m, alts, p, Converted(alts, p))

Terms(i)     == DOMAIN work.stream[i].terms
WeightsAt(i) == dem.r.weights[work.stream[i].site]
IsChain(i)   == work.stream[i].site \in dem.r.chains /\ Len(work.stream[i].terms) > 1

Rest == [dem EXCEPT !.left = Tail(@)]

ConvertChannel ==
    /\ dem.at = "converting" /\ dem.left # <<>>
    /\ LET i == Head(dem.left) IN ~IsChain(i) /\ dem' = Flush(Rest, i, Terms(i), WeightsAt(i))
    /\ UNCHANGED <<vars, bareVars, samplerVars>>

\* The probability that the t-th line of a chain is the one that fires.
ChainWeight(p, t) == FoldLeft(LAMBDA x, q : Mul(x, Less(Unity, q)), p[t], SubSeq(p, 1, t - 1))

\* Its lines are treated as independent, if that is allowed at all.
ConvertChain ==
    /\ dem.at = "converting" /\ dem.left # <<>>
    /\ LET i == Head(dem.left)
           q == [t \in Terms(i) |-> ChainWeight(WeightsAt(i), t)]
           Line(m, t) == Flush(m, i, {t}, q)
       IN  /\ IsChain(i)
           /\ dem' = IF \E t \in Terms(i) : Exceeds(dem.r, q[t]) THEN Refusal("chain")
                     ELSE FoldLeft(Line, [Rest EXCEPT !.exact = FALSE], [t \in Terms(i) |-> t])
    /\ UNCHANGED <<vars, bareVars, samplerVars>>

\* A flipped record flips the targets it is part of, and no frame.
FoldReadouts ==
    /\ dem.at = "converting" /\ dem.left = <<>>
    /\ LET Flip(k, e) == Composed(e, IF OddOver({k}) = {} THEN <<>>
                                     ELSE OddOver({k}) :> LogOf(Bias(dem.r.readout[flips[k].site]), 8))
       IN  dem' = [dem EXCEPT !.at = "folded",
                              !.errors = FoldSet(Flip, @, {k \in DOMAIN flips : flips[k].noisy})]
    /\ UNCHANGED <<vars, bareVars, samplerVars>>

-----------------------------------------------------------------------------
(* Mechanisms of more than two detectors, written as several of at most two. *)

Detectors(s) == {t \in s : t[1] = "detector"}

Edges == {s \in DOMAIN dem.errors : Cardinality(Detectors(s)) \in {1, 2}}

Within(s) == {e \in Edges : Detectors(e) \subseteq Detectors(s)}

\* Into at most n + 1 mechanisms the model has; the code takes the one that
\* has most of the observables' probability, here it is any.
RECURSIVE Splits(_, _)
Splits(s, n) ==
    IF Cardinality(Detectors(s)) <= 2 THEN IF s \in Edges THEN {<<s>>} ELSE {}
    ELSE IF n = 0 THEN {}
    ELSE UNION {{<<e>> \o rest : rest \in Splits(SymDiff(s, e), n - 1)} : e \in Within(s)}

\* Otherwise edge by edge, to a rest that need not be in the model.
Preference(s, e) ==
    (IF SymDiff(s, e) \in Edges THEN 4 ELSE 0)
        + (IF e \ Detectors(e) \subseteq s THEN 2 ELSE 0) + Cardinality(Detectors(e))

RECURSIVE Peeled(_)
Peeled(s) ==
    IF Cardinality(Detectors(s)) <= 2 THEN <<s>>
    ELSE IF Within(s) = {} THEN <<>>
    ELSE LET e == CHOOSE e \in Within(s) : \A f \in Within(s) : Preference(s, f) <= Preference(s, e)
             rest == Peeled(SymDiff(s, e))
         IN  IF rest = <<>> THEN <<>> ELSE <<e>> \o rest

\* Empty if there is no way.
Decomposed(s) == IF Splits(s, 3) # {} THEN CHOOSE p \in Splits(s, 3) : TRUE ELSE Peeled(s)

Hyper(s) == Cardinality(Detectors(s)) > 2

Parts(s) ==
    IF dem.r.graphlike = "no" \/ ~Hyper(s) \/ (dem.r.graphlike = "try" /\ Decomposed(s) = <<>>) THEN <<s>>
    ELSE Decomposed(s)

Emit ==
    /\ dem.at = "folded"
    /\ dem' = IF \E s \in DOMAIN dem.errors : Parts(s) = <<>> THEN Refusal("decomposition")
              ELSE [dem EXCEPT !.at = "emitted",
                               !.errors = {[parts |-> Parts(s), q |-> dem.errors[s]] :
                                              s \in {s \in DOMAIN dem.errors : dem.errors[s] # <<>>}}]
    /\ UNCHANGED <<vars, bareVars, samplerVars>>

-----------------------------------------------------------------------------
(* Which parities of records are certain without noise. *)

\* Mutant: the feedback is folded in the order it acts.
RelabelledForward(S, p) ==
    FoldLeft(LAMBDA s, op : IF T!Odd(s \cap op.reads) THEN SymDiff(s, {op.control}) ELSE s, S, p)

\* The relabel of records, transposed: the records that a parity of reported
\* ones is made of.
RelabelledParity(S, p) ==
    FoldRight(LAMBDA op, s : IF T!Odd(s \cap op.reads) THEN SymDiff(s, {op.control}) ELSE s, p, S)

Diagnose(r) ==
    /\ Unasked /\ r.ask = "diagnosis"
    /\ UNION {r.parities[k] : k \in DOMAIN r.parities} \subseteq DOMAIN Records(work)
    /\ dem' = IF ~D!Served(work) THEN Refusal("class") ELSE IF ~OwnWires THEN Refusal("wires")
              ELSE [at |-> "diagnosed", r |-> r,
                    mean |-> [k \in DOMAIN r.parities |->
                                 Mean(Column(work, RelabelledParity(r.parities[k], plan)))]]
    /\ UNCHANGED <<vars, bareVars, samplerVars>>

-----------------------------------------------------------------------------

Asked == IF Unasked /\ theme \in DOMAIN Exports THEN Exports[theme] ELSE {}

ENext == \/ dem.at = "none" /\ SNext /\ UNCHANGED dem
         \/ \E r \in Asked : OpenModel(r) \/ Diagnose(r)
         \/ ConvertChannel
         \/ ConvertChain
         \/ FoldReadouts
         \/ Emit

ESpec == EInit /\ [][ENext]_<<vars, bareVars, samplerVars, dem>>

-----------------------------------------------------------------------------

\* The state after one alternative.
AfterFault(i, t) ==
    X!FinalState(work, work.stream[i].site :> T!Letters(work.stream[i].on, work.stream[i].terms[t]))

OnGates(v, gates) == FoldLeft(LAMBDA w, g : X!Through(g.gate, g.on, w), v, gates)

AfterAtom(at) == X!FinalState(work, work.stream[at[1]].site :> T!Letters(<<at[3]>>, <<at[2]>>))

AtomExact(at, clean) ==
    LET walk  == D!WalkAtom(work, at[1], at[2], at[3])
        retry == D!RetryAtom(work, at[1], at[2], at[3])
    IN  /\ walk.ok => X!Proportional(D!OnVector(walk.D, clean), AfterAtom(at))
        /\ retry.ok => X!Proportional(OnGates(clean, D!ErrorGates(retry)), AfterAtom(at))

\* Every fault, and every alternative composed of several, leaves at the end
\* of the circuit the error the table has for it, in the diagonal class or as a
\* Pauli and quarter rotations.
FaultExact ==
    /\ dem.at = "converting" /\ dem.left # <<>> =>
           \E clean \in {Clean} : \A t \in Terms(Head(dem.left)) :
               X!Proportional(D!OnVector(ErrorOf(Head(dem.left), t), clean), AfterFault(Head(dem.left), t))
    /\ dem.at = "diagnosed" =>
           \E clean \in {Clean} : \A at \in D!AllAtoms(work) : AtomExact(at, clean)

Frames == {<<f, q>> : f \in {"frameX", "frameZ"}, q \in DOMAIN ports}

\* What anticommutes with the faults that flip a target.
Probe(t) ==
    CASE t[1] = "frameX" -> T!ZOn({ports[t[2]]}, 1)
      [] t[1] = "frameZ" -> T!Pauli({ports[t[2]]}, {}, 0)
      [] OTHER -> TargetPauli(t)

ProbeOver(W) == FoldSet(LAMBDA t, p : T!Times(Probe(t), p), T!One, W)

DenseMean(p, v) == Ratio(X!Expect(p, v), X!Inner(v, v))

Happening == {a \in UNION {{<<i, t>> : t \in Terms(i)} : i \in D!NoiseSites(work)} : WeightsAt(a[1])[a[2]] # Zero}

\* A fault no term of the circuit turns is a Pauli at the end.
Crossed(a) ==
    LET ops == T!BuildOps(work)
    IN  T!Propagate(ops, T!SiteAt(ops, work.stream[a[1]].site),
                    T!Letters(work.stream[a[1]].on, work.stream[a[1]].terms[a[2]]))

\* The mean of (-1)^(how many targets of W one alternative flips).
FlipMean(W, pauli, noisy, clean) ==
    IF pauli.S = {} THEN Negated(Unity, T!Anti(pauli.P, ProbeOver(W)))
    ELSE Mul(DenseMean(ProbeOver(W), noisy), DenseMean(ProbeOver(W), clean))

\* The same for all faults and readout flips of the circuit.
LogOfFaults(W, pauli, noisy, clean) ==
    LET Of(i)   == {a \in Happening : a[1] = i}
        Miss(a) == Mul(WeightsAt(a[1])[a[2]], Less(Unity, FlipMean(W, pauli[a], noisy[a], clean)))
        Site(i, l) == AddLog(l, LogOf(Less(Unity, Total([a \in Of(i) |-> Miss(a)], Of(i))), 8))
        Flipped(k) == flips[k].noisy /\ T!Odd({t \in W \cap DOMAIN dem.reads : k \in dem.reads[t]})
        Readout(k, l) == AddLog(l, LogOf(Bias(dem.r.readout[flips[k].site]), 8))
    IN  FoldSet(Readout, FoldSet(Site, <<>>, D!NoiseSites(work)), {k \in DOMAIN flips : Flipped(k)})

LogOfModel(W) ==
    LET Hit == {e \in dem.errors : T!Odd(W \cap T!RowSum(e.parts, DOMAIN e.parts))}
    IN  FoldSet(LAMBDA e, l : AddLog(e.q, l), <<>>, Hit)

SameLaw(pauli, noisy, clean) ==
    LET certain == {t \in DOMAIN dem.reads : Sharp(TargetPauli(t))}
        all == IF \A a \in Happening : pauli[a].S = {} THEN DOMAIN dem.reads \cup Frames ELSE certain
    IN  \A W \in SUBSET all : LogOfModel(W) = LogOfFaults(W, pauli, noisy, clean)

Graphlike(e) == \A k \in DOMAIN e.parts : ~Hyper(e.parts[k])

\* Unless something was knowingly treated as independent, the mechanisms have,
\* for every set of targets, the joint law that the faults and readout flips of
\* the circuit have in its exact noisy states; mechanisms asked to be graphlike
\* are.
ModelExact ==
    dem.at = "emitted" =>
        /\ dem.r.graphlike = "yes" => \A e \in dem.errors : Graphlike(e)
        /\ dem.exact =>
               \E pauli \in {X!Tabulated([a \in Happening |-> Crossed(a)])},
                  noisy \in {X!Tabulated([a \in Happening |-> AfterFault(a[1], a[2])])},
                  clean \in {Clean} : SameLaw(pauli, noisy, clean)

\* The user's circuit, branch by branch: every outcome of every measurement
\* and reset, with the vector left and the records reported.
BranchesOf(c) ==
    LET Step(bs, ins) ==
            LET p == T!Letters(ins.on, <<ins.basis>>)
                z == T!ZOn({ins.on[1]}, 1)
                Seen(b, m) == [v |-> Onto(b.v, p, m), R |-> Append(b.R, (m = -1) # ins.invert),
                               path |-> Append(b.path, m)]
                Clear(b, m) == [b EXCEPT !.v = IF m = 1 THEN Onto(@, z, m) ELSE X!Through("X", ins.on, Onto(@, z, m)),
                                         !.path = Append(@, m)]
                Live(S) == {b \in S : ~IsZero(b.v)}
            IN  CASE ins.op = "gate" -> {[b EXCEPT !.v = X!Through(ins.gate, ins.on, @)] : b \in bs}
                  [] ins.op = "measure" -> Live({Seen(b, m) : b \in bs, m \in {1, -1}})
                  [] ins.op = "reset" -> Live({Clear(b, m) : b \in bs, m \in {1, -1}})
                  [] ins.op = "feedback" ->
                         {IF b.R[Len(b.R) - ins.back + 1] THEN [b EXCEPT !.v = X!Apply(p, @)] ELSE b : b \in bs}
                  [] OTHER -> bs
    IN  FoldLeft(Step, {[v |-> Basis(c.n, {}), R |-> <<>>, path |-> <<>>]}, c.stream)

MeanIn(bs, S) ==
    LET Norm(B) == FoldSet(LAMBDA b, acc : X!Plus(acc, X!Inner(b.v, b.v)), X!Nought, B)
        odd     == {b \in bs : T!Odd({k \in S : b.R[k]})}
    IN  Ratio(X!Plus(Norm(bs \ odd), X!Turn(Norm(odd), 4)), Norm(bs))

\* A parity of records has the mean that it has in the user's circuit, with
\* its feedback, up to the sign that inverted records give it: it is certain
\* there if and only if it is found to be.
DeterminismExact ==
    dem.at = "diagnosed" =>
        \E bs \in {BranchesOf(user)} : \A k \in DOMAIN dem.mean :
            \/ dem.mean[k] = MeanIn(bs, dem.r.parities[k])
            \/ /\ \E i \in DOMAIN Records(user) : Records(user)[i].invert
               /\ dem.mean[k] = Negated(MeanIn(bs, dem.r.parities[k]), TRUE)

=============================================================================
