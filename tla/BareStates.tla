----------------------------- MODULE BareStates -----------------------------
(***************************************************************************)
(* The exact state of a normalized circuit: built as a sum of stabilizer   *)
(* states (BareCompile), handed to the samplers as a framed state, read by *)
(* one of the two collapses, the rest in one batch, or once for the        *)
(* reference (FramedStates).  What the reads give must be what a dense     *)
(* simulation of the circuit gives (ExactStates), and the reference that   *)
(* of the circuit as the user wrote it.                                    *)
(***************************************************************************)
EXTENDS FrontEnd

T == INSTANCE TermRoute
N == INSTANCE BareCompile
L == INSTANCE FramedStates
X == INSTANCE ExactStates

VARIABLES
    user,       \* the circuit as it was written
    bare        \* what is built from the normalized one

bareVars == <<user, bare>>

NoBare == [at |-> "none"]

BInit == Init /\ user = <<>> /\ bare = NoBare

Exact == Theme.exact # {}

BFrontEnd ==
    /\ Next
    /\ user' = IF Exact /\ stage = "user" /\ stage' # "user" THEN work ELSE user
    /\ UNCHANGED bare

-----------------------------------------------------------------------------

\* A circuit that has no such sum is refused.
Compile(family) ==
    /\ stage = "normalized" /\ bare.at = "none"
    /\ \E built \in {N!BuildBare(work, family)} : \E r \in built :
           bare' = IF r.kind = "state" THEN [at |-> "compiled", sum |-> r.sum, sound |-> r.sound]
                   ELSE [at |-> "refused", why |-> r.kind]
    /\ UNCHANGED <<vars, user>>

Frame ==
    /\ bare.at = "compiled"
    /\ bare' = [at |-> "framed", F |-> L!Framed(bare.sum), how |-> "unread", done |-> <<>>]
    /\ UNCHANGED <<vars, user>>

\* The Pauli a terminal read measures.
ReadPauli(ins) == T!Letters(ins.on, <<ins.basis>>)

ReadAt(k) == ReadPauli(Records(work)[k])

Unread ==
    {k \in IF bare.at = "framed" THEN DOMAIN Records(work) ELSE {} :
        \A i \in DOMAIN bare.done : bare.done[i].read # k}

Coupled == {k \in Unread : L!Couples(bare.F, ReadAt(k))}

Collapse(how, p, m) ==
    IF how = "merging" THEN L!MeasureMerging(bare.F, p, m) ELSE L!MeasurePauli(bare.F, p, m)

\* The first pass of a batch: the first read that tells branches apart.
ReadCoupled(how, m) ==
    /\ bare.at = "framed" /\ bare.how \in {"unread", how} /\ Coupled # {}
    /\ LET k == CHOOSE k \in Coupled : \A j \in Coupled : k <= j
       IN  /\ L!MayRead(bare.F, ReadAt(k), m)
           /\ \E F2 \in {Collapse(how, ReadAt(k), m)} :
                  bare' = [bare EXCEPT !.F = F2, !.how = how,
                                       !.done = Append(@, [read |-> k, m |-> m])]
    /\ UNCHANGED <<vars, user>>

\* The second pass: the others, in order, behind the coins drawn for them.
ReadRest(ones) ==
    /\ bare.at = "framed" /\ Coupled = {} /\ Unread # {}
    /\ LET rest == Ascending(Unread)
           Step(st, k) == L!ReadNext(bare.F, st, ReadAt(k), k \in ones)
       IN  \E st \in {FoldLeft(Step, L!NoReads, rest)} :
               bare' = [at |-> "read", done |-> bare.done, coins |-> Len(st.coins),
                        rest |-> [i \in DOMAIN rest |->
                                     [read |-> rest[i], m |-> IF st.out[i] THEN -1 ELSE 1]]]
    /\ UNCHANGED <<vars, user>>

\* Mutant: the bias is not moved through the sign stamped on the read.
TowardPlus(k) == FALSE

\* The outcome of read k the user would call +1.
Toward(k) == Records(work)[k].invert

\* The recorded bits: the read's sign, the inversion, the relabel's flips.
RECURSIVE ReferenceFrom(_, _)
ReferenceFrom(acc, k) ==
    IF k > Len(flips) THEN acc.R
    ELSE ReferenceFrom(L!ReferenceStep(acc, ReadAt(k), Toward(k),
                                       flips[k].invert # Records(work)[k].invert, plan), k + 1)

ReferenceRecords(S) == ReferenceFrom(L!ReferenceStart(S), 1)

TakeReference ==
    /\ bare.at = "framed" /\ bare.how = "unread"
    /\ bare' = [at |-> "referenced", R |-> ReferenceRecords(bare.F)]
    /\ UNCHANGED <<vars, user>>

BNext ==
    \/ BFrontEnd
    \/ \E f \in Theme.exact : Compile(f)
    \/ Frame
    \/ \E how \in {"projecting", "merging"}, m \in {1, -1} : ReadCoupled(how, m)
    \/ \E ones \in SUBSET Unread : ReadRest(ones)
    \/ TakeReference

-----------------------------------------------------------------------------
(* Dense states. *)

Clean == X!FinalState(work, <<>>)

\* Twice the projection onto the outcome m of p.
Onto(v, p, m) == X!Sum(v, X!Apply(IF m = 1 THEN p ELSE T!Phased(p, 2), v))

AfterReads(v, reads) == FoldLeft(LAMBDA w, r : Onto(w, ReadAt(r.read), r.m), v, reads)

Basis(n, b) == [s \in SUBSET (0 .. (n - 1)) |-> IF s = b THEN <<1, 0, 0, 0>> ELSE X!Nought]

IsZero(v) == \A s \in DOMAIN v : v[s] = X!Nought

\* The state on which every generator has the sign of the frame.
FrameOrigin(S) ==
    LET Fixed(b) == FoldLeft(LAMBDA w, a : Onto(w, L!SignedRow(S, a), 1), Basis(S.n, b),
                             [a \in 1 .. S.n |-> a])
    IN  Fixed(CHOOSE b \in SUBSET (0 .. (S.n - 1)) : ~IsZero(Fixed(b)))

\* The vector a framed state stands for, up to a factor.
DenseOf(S) ==
    LET Around(o) == FoldSet(LAMBDA v, acc : X!Sum(acc, X!Scaled(S.c[v], X!Apply(L!Flip(S, v), o))),
                             [s \in DOMAIN o |-> X!Nought], DOMAIN S.c)
    IN  Around(FrameOrigin(S))

Alive(vs) == {v \in vs : ~IsZero(v)}

\* The user's circuit, every measurement taking +1 when it can: the vectors
\* are the outcomes of its resets, all of which may have happened.
ReferenceOf(c) ==
    LET Step(st, ins) ==
            LET p    == T!Letters(ins.on, <<ins.basis>>)
                plus == Alive({Onto(v, p, 1) : v \in st.vs})
                z    == T!ZOn({ins.on[1]}, 1)
            IN  CASE ins.op = "gate" -> [st EXCEPT !.vs = {X!Through(ins.gate, ins.on, v) : v \in @}]
                  [] ins.op = "measure" ->
                         [vs |-> IF plus # {} THEN plus ELSE {Onto(v, p, -1) : v \in st.vs},
                          R  |-> Append(st.R, (plus = {}) # ins.invert)]
                  [] ins.op = "reset" ->
                         [st EXCEPT !.vs = Alive({Onto(v, z, 1) : v \in @}
                              \cup {X!Through("X", ins.on, Onto(v, z, -1)) : v \in @})]
                  [] ins.op = "feedback" ->
                         IF st.R[Len(st.R) - ins.back + 1]
                         THEN [st EXCEPT !.vs = {X!Apply(p, v) : v \in @}] ELSE st
                  [] OTHER -> st
    IN  FoldLeft(Step, [vs |-> {Basis(c.n, {})}, R |-> <<>>], c.stream).R

-----------------------------------------------------------------------------

\* Reduced, split into rays and summed, with every relative phase: the sum is
\* the circuit's state, nothing in its construction failed, and no generator
\* of its frame is redundant.
BareExact ==
    bare.at = "compiled" =>
        bare.sound /\ N!Minimal(bare.sum) /\ X!Proportional(Clean, N!VectorOf(bare.sum))

\* Whichever collapse is used and whatever was read before, the framed state
\* is the projection of the circuit's; merging leaves no redundant generator.
CollapseExact ==
    bare.at = "framed" =>
        /\ X!Proportional(AfterReads(Clean, bare.done), DenseOf(bare.F))
        /\ bare.how # "projecting" => N!Minimal(bare.F)

\* The reads have the probabilities of Born's rule: each of those left, whatever
\* was read before it; and those no branch tells apart together, as the coins
\* drawn for them make it.
BornExact ==
    /\ bare.at = "framed" =>
           \E v \in {AfterReads(Clean, bare.done)} : \A k \in Unread :
               X!Mult(L!Expectation(bare.F, ReadAt(k)), X!Inner(v, v))
                   = X!Mult(X!Expect(ReadAt(k), v), L!Weight(bare.F.c))
    /\ bare.at = "read" =>
           \E v \in {AfterReads(Clean, bare.done)} : \E w \in {AfterReads(v, bare.rest)} :
               X!Mult(X!Inner(w, w), <<2 ^ bare.coins, 0, 0, 0>>)
                   = X!Mult(X!Inner(v, v), <<4 ^ Len(bare.rest), 0, 0, 0>>)

\* The reference is the noiseless sample of the user's circuit in which every
\* measurement is +1 if it can be, whatever was rewritten, deferred or left to
\* the relabel.
ReferenceExact == bare.at = "referenced" => bare.R = ReferenceOf(user)

=============================================================================
