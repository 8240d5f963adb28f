--------------------------- MODULE RecordSampler ---------------------------
(***************************************************************************)
(* The family sampler's term route                                         *)
(* (src/twirl_sampler.cpp, src/twirl_sampler_fam.cpp): a normalized        *)
(* circuit whose bare state is built is armed with its term view, its      *)
(* certified group and its record columns; a shot composes the faults that *)
(* fire, is reduced, may be rejected early, is served by a record table,   *)
(* and draws the table's directions on the bare state.  What is served and *)
(* drawn must be the law of the noisy state, computed exactly              *)
(* (ExactStates).                                                          *)
(***************************************************************************)
EXTENDS BareStates

VARIABLES
    view,       \* what the sampler keeps of the circuit
    shot        \* the shot in progress

samplerVars == <<view, shot>>

NoView == [armed |-> FALSE]

NoShot == [at |-> "idle", fired |-> <<>>, P |-> T!One, S |-> {}]

SInit == BInit /\ view = NoView /\ shot = NoShot

-----------------------------------------------------------------------------
(* Arming.                                                                  *)

Column(c, reads) ==
    T!ProductOver([k \in DOMAIN Records(c) |-> ReadPauli(Records(c)[k])], reads)

\* The clean values of the flagged channels are those of the plan without
\* noise; a channel that plan draws is not tested early.
EarlySet(G, cols, flagged, clean) ==
    [c \in {c \in flagged : clean.A[c] = {} /\ clean.B[c] = {}} |->
        clean.beta[c] # T!Ref(G, cols[c])]

Armed(G, cols, postselect) ==
    [armed |-> TRUE, G |-> G, cols |-> cols,
     early |-> EarlySet(G, cols, {c \in DOMAIN cols : postselect /\ T!IsChannel(G, cols[c])},
                        T!DiagonalTable(G, cols, [a |-> {}, cz |-> {}]))]

\* parities are the sets of records of the detectors and observables, in
\* record order; postselect says whether the channels among them are flagged.
Arm(parities, postselect) ==
    /\ bare.at = "framed" /\ bare.how = "unread" /\ ~view.armed
    /\ UNION {parities[k] : k \in DOMAIN parities} \subseteq DOMAIN Records(work)
    /\ ~T!ZOnly(work)
    /\ view' = Armed(T!Planes(L!Certified(bare.F)), [k \in DOMAIN parities |-> Column(work, parities[k])],
                     postselect) @@ T!View(work)
    /\ UNCHANGED <<vars, bareVars, shot>>

-----------------------------------------------------------------------------
(* A shot.                                                                  *)

Position(s) == CHOOSE i \in DOMAIN work.stream :
                   work.stream[i].op = "noise" /\ work.stream[i].site = s

Ready == view.armed /\ ~view.refused

\* The alternatives of a shot come in time order, one per site.
Fire(a) ==
    /\ Ready /\ shot.at \in {"idle", "composing"}
    /\ \A s \in DOMAIN shot.fired : Position(s) < Position(a.site)
    /\ LET r == T!Compose(view.B, [P |-> shot.P, S |-> shot.S], view.atom[a])
       IN  shot' = [at |-> "composing", fired |-> (a.site :> a.fires) @@ shot.fired,
                    P |-> r.P, S |-> r.S]
    /\ UNCHANGED <<vars, bareVars, view>>

Meets(p, q) == (p.x \cup p.z) \cap (q.x \cup q.z) # {}

\* Mutant: the axes of S are not compared with the channel.
EarlyRejectsBlind(v, P, S) ==
    \E c \in DOMAIN v.early : v.early[c] # T!Anti(P, v.cols[c])

\* A flagged channel that shares no wire with an axis of S has its value.
EarlyRejects(v, P, S) ==
    \E c \in DOMAIN v.early :
        /\ \A j \in S : ~Meets(v.B[j], v.cols[c])
        /\ v.early[c] # T!Anti(P, v.cols[c])

\* Reduced modulo the kernel; then the early test.
Reduce ==
    /\ Ready /\ shot.at \in {"idle", "composing"}
    /\ LET r == T!ReduceKey(view.B, view.kernel, [P |-> shot.P, S |-> shot.S])
       IN  shot' = [shot EXCEPT !.at = IF EarlyRejects(view, r.P, r.S) THEN "rejected" ELSE "reduced",
                                !.P = r.P, !.S = r.S]
    /\ UNCHANGED <<vars, bareVars, view>>

RotImages(B, S, wires) ==
    [V \in {T!XOn(q) : q \in wires} \cup {T!ZOn({q}, 1) : q \in wires} |-> T!RotImage(B, S, V)]

Kind0Form(v, S, wires) ==
    T!Canonical(v.G, T!DiagonalForm(RotImages(v.B, S, wires), wires))

Served(emitted, table) == [at |-> "served", emitted |-> emitted, table |-> table]

\* A diagonal rot(S) goes to the diagonal plan of its normal form, whose
\* prefix joins the Pauli.
ServeDiagonal ==
    /\ shot.at = "reduced" /\ T!IsDiagonal(view.B, shot.S, Wires(work))
    /\ \E nf \in {Kind0Form(view, shot.S, Wires(work))} :
           shot' = Served(T!ModPhase(T!Times(nf.prefix, shot.P)),
                          T!DiagonalTable(view.G, view.cols, nf)) @@ [nf |-> nf] @@ shot
    /\ UNCHANGED <<vars, bareVars, view>>

\* Any other, and a diagonal one with a pair no diagonal plan has, goes to
\* the general plan of S.
ServeGeneral ==
    /\ shot.at = "reduced"
    /\ T!IsDiagonal(view.B, shot.S, Wires(work)) => Kind0Form(view, shot.S, Wires(work)).cz # {}
    /\ shot' = Served(shot.P, T!GeneralTable(view.G, view.cols, view.B, shot.S)) @@ shot
    /\ UNCHANGED <<vars, bareVars, view>>

Outcomes == IF shot.at = "drawing" THEN shot.outcomes ELSE <<>>

Amplitudes == IF shot.at = "drawing" THEN shot.psi ELSE bare.F.c

\* The next direction of the table is drawn; what has no probability is not.
Draw(m) ==
    /\ shot.at \in {"served", "drawing"} /\ Len(Outcomes) < Len(shot.table.lam)
    /\ \E psi \in {L!Walked(Amplitudes,
                            L!FreeDir(bare.F, shot.table.lam[Len(Outcomes) + 1]), m)} :
           /\ DOMAIN psi # {}
           /\ shot' = [at |-> "drawing", psi |-> psi, outcomes |-> Append(Outcomes, m)] @@ shot
    /\ UNCHANGED <<vars, bareVars, view>>

Sample ==
    \/ \E p \in Theme.columns, f \in BOOLEAN : Arm(p, f)
    \/ \E a \in IF Ready THEN view.alts ELSE {} : Fire(a)
    \/ Reduce
    \/ ServeDiagonal
    \/ ServeGeneral
    \/ \E m \in {1, -1} : Draw(m)

SNext == \/ BNext /\ ~view.armed /\ UNCHANGED samplerVars
         \/ Sample

SSpec == SInit /\ [][SNext]_<<vars, bareVars, samplerVars>>

-----------------------------------------------------------------------------

NoisyState == X!FinalState(work, shot.fired)

Rotated(B, S, v) == FoldLeft(LAMBDA w, j : X!Rotate(B[j], w), v, Ascending(S))

\* S^a CZ
DiagonalOn(nf, v) ==
    LET dressed == FoldSet(LAMBDA q, w : X!Through("S", <<q>>, w), v, nf.a)
    IN  FoldSet(LAMBDA e, w : X!Through("CZ", Ascending(e), w), dressed, nf.cz)

IsResidual(noisy, clean) ==
    /\ X!Proportional(noisy, X!Apply(shot.P, Rotated(view.B, shot.S, clean)))
    /\ "nf" \in DOMAIN shot =>
           X!Proportional(noisy, X!Apply(shot.emitted, DiagonalOn(shot.nf, clean)))

\* What a shot has composed, reduced and rewritten as a diagonal normal form
\* is, up to a phase, the noisy state of the faults that fired.
ResidualExact == shot.at # "idle" => IsResidual(NoisyState, Clean)

\* The mean of (-1)^(the sum of the served columns W): a column is beta, the
\* coins of A, the outcomes of B, and whether the emitted Pauli flips it.
MeanServed(t, W, clean) ==
    IF T!RowSum(t.A, W) # {} THEN X!Nought
    ELSE X!Expect(T!Times(T!ProductOver(t.lam, T!RowSum(t.B, W)),
                          T!ZOn({}, IF T!Odd({c \in W : t.beta[c] # T!Anti(shot.emitted, view.cols[c])})
                                    THEN -1 ELSE 1)), clean)

HasLaw(t, noisy, clean) ==
    \A W \in SUBSET DOMAIN view.cols :
        X!Expect(T!ProductOver(view.cols, W), noisy) = MeanServed(t, W, clean)

\* The columns a table serves, its coins fair and its directions measured on
\* the clean state, have the joint law of those records in the noisy state.
RecordsExact == shot.at = "served" => HasLaw(shot.table, NoisyState, Clean)

AfterDraws(v) ==
    FoldLeft(LAMBDA w, k : Onto(w, shot.table.lam[k], Outcomes[k]), v,
             [k \in DOMAIN Outcomes |-> k])

\* The directions move no generator the branches share, and the walk along
\* them on the free coordinates alone is their measurement on the bare state.
WalkExact ==
    shot.at = "drawing" =>
        /\ \A k \in DOMAIN shot.table.lam : L!FreeDir(bare.F, shot.table.lam[k]).ok
        /\ \E w \in {AfterDraws(Clean)} :
               /\ X!Proportional(w, DenseOf([bare.F EXCEPT !.c = shot.psi]))
               /\ X!Mult(L!Weight(shot.psi), X!Inner(Clean, Clean))
                      = X!Mult(X!Inner(w, w), L!Weight(bare.F.c))

DiffersForSure(c, noisy, clean) ==
    X!Expect(T!Phased(view.cols[c], 2), noisy) = X!Expect(view.cols[c], clean)

\* A shot rejected before it is served has a flagged channel that is certain
\* to differ from its clean value.
EarlyRejectSound ==
    shot.at = "rejected" =>
        \E c \in DOMAIN view.early : DiffersForSure(c, NoisyState, Clean)

=============================================================================
