------------------------------ MODULE FrontEnd ------------------------------
(***************************************************************************)
(* From a user circuit to the normalized circuit the samplers run          *)
(* (src/normalize.cpp, src/feedback.cpp): feedback is made coherent, what  *)
(* is left of it is stripped and kept as a plan that relabels the records, *)
(* measurements are deferred, Hadamards pushed to the reads.  Circuits are *)
(* written one instruction at a time; every pass is a step, and must keep  *)
(* the law of the circuit (CircuitLaw).                                    *)
(***************************************************************************)
EXTENDS CircuitLaw

F == INSTANCE Feedback
C == INSTANCE CliffordFrames

CONSTANTS
    Themes,     \* name -> [n, outs, start, alphabet, length, columns]: circuits to
                \*         write, and the parities of records a sampler is asked for
    Modes,      \* ways to coherentize: subset of {"crossing", "all", "hoist"}
    Copies,     \* diagonal_copy: subset of BOOLEAN
    Dead        \* zero_noise_transparent: subset of BOOLEAN

VARIABLES
    theme,      \* which circuits are being written
    stage,      \* how far the circuit is in the pipeline
    mode,       \* how its feedback was made coherent
    work,       \* the circuit at this stage
    ports,      \* the wire of work each output wire of the user is on
    plan,       \* the feedback left to the relabel
    flips       \* how the reported records differ from the reads of work

vars == <<theme, stage, mode, work, ports, plan, flips>>

Theme == Themes[theme]

Init ==
    /\ theme \in DOMAIN Themes
    /\ stage = "user"   /\ mode = "none"
    /\ work = [n |-> Theme.n, stream |-> Theme.start, outs |-> Theme.outs]
    /\ ports = [q \in Theme.outs |-> q]
    /\ plan = <<>>   /\ flips = <<>>

-----------------------------------------------------------------------------
(* A user circuit, one instruction at a time.  A site is named by its       *)
(* position.  The parser refuses a record that is not there yet and a       *)
(* measurement of an output wire.                                           *)

Records(c) == SelectSeq(c.stream, LAMBDA ins : ins.op = "measure")

Add(ins) ==
    /\ stage = "user" /\ Len(work.stream) < Theme.length
    /\ work' = [work EXCEPT !.stream = Append(@,
           IF ins.op \in {"noise", "measure"} THEN [ins EXCEPT !.site = Len(work.stream) + 1]
           ELSE ins)]
    /\ UNCHANGED <<theme, stage, mode, ports, plan, flips>>

Kind(op) == {ins \in Theme.alphabet : ins.op = op}

AddGate       == \E ins \in Kind("gate") : Add(ins)
AddNoise      == \E ins \in Kind("noise") : Add(ins)
AddReset      == \E ins \in Kind("reset") : Add(ins)
AddObservable == \E ins \in Kind("observable") : Add(ins)
AddMeasure    == \E ins \in Kind("measure") : On(ins) \cap work.outs = {} /\ Add(ins)
AddFeedback   == \E ins \in Kind("feedback") : ins.back <= Len(Records(work)) /\ Add(ins)

-----------------------------------------------------------------------------
(* The relabel of the records by the feedback that is left.                 *)

ProbeSite(i) == -i

ProbeCircuit(c) ==
    [c EXCEPT !.stream = [i \in DOMAIN @ |->
        IF @[i].op = "feedback" THEN Noise(ProbeSite(i), @[i].on, <<<<@[i].basis>>>>)
        ELSE @[i]]]

\* A Pauli carried forward from position i of c to its end, up to sign.
Propagated(c, i) ==
    LET carried[j \in i .. Len(c.stream)] ==
            IF j = i THEN F!Seed(c.stream[i].terms[1][1], c.stream[i].on[1])
            ELSE IF carried[j - 1].ok /\ c.stream[j].op = "gate"
                 THEN F!BackThroughGate(c.stream[j].gate, c.stream[j].on, carried[j - 1])
                 ELSE carried[j - 1]
    IN  carried[Len(c.stream)]

\* Mutant: only the X part of a byproduct flips a read.
FlippedByX(c, Q) ==
    LET reads == Records(c)
    IN  {j \in DOMAIN reads : F!Letter(Q, reads[j].on[1]) \in {"X", "Y"}}

FlippedReads(c, Q) ==
    LET reads == Records(c)
    IN  {j \in DOMAIN reads : F!Letter(Q, reads[j].on[1]) \notin {"I", reads[j].basis}}

FeedbackPlan(c) ==
    LET probe == F!Deferred(ProbeCircuit(c), FALSE).circuit
        At(i) == CHOOSE j \in DOMAIN probe.stream :
                    probe.stream[j].op = "noise" /\ probe.stream[j].site = ProbeSite(i)
        Op(i) == LET Q == Propagated(probe, At(i))
                 IN  [ok |-> Q.ok, control |-> F!SourceRecord(c, i),
                      reads |-> FlippedReads(probe, Q)]
        at == Ascending(F!Feedbacks(c))
    IN  [k \in DOMAIN at |-> Op(at[k])]

Causal(op) == \A j \in op.reads : j > op.control

Refused(p) == \E k \in DOMAIN p : ~p[k].ok \/ ~Causal(p[k])

\* One forward pass over the reported records.
RECURSIVE RelabelFrom(_, _, _)
RelabelFrom(recs, p, k) ==
    IF k > Len(p) THEN recs
    ELSE RelabelFrom([j \in DOMAIN recs |->
                         IF j \in p[k].reads THEN SymDiff(recs[j], recs[p[k].control])
                         ELSE recs[j]], p, k + 1)

-----------------------------------------------------------------------------
(* The passes of normalize. *)

Coherentize(m) ==
    /\ stage = "user" /\ Records(work) # <<>>
    /\ m = "crossing" \/ F!HasFeedback(work)
    /\ work' = F!Coherentized(work, m)
    /\ stage' = "coherent" /\ mode' = m
    /\ UNCHANGED <<theme, ports, plan, flips>>

\* The plan is built, the feedback taken out; a plan that cannot be built
\* refuses the circuit.
Strip ==
    /\ stage = "coherent"
    /\ plan' = FeedbackPlan(work)
    /\ work' = F!StripFeedback(work)
    /\ flips' = [k \in DOMAIN Records(work) |->
                    LET m == Records(work)[k]
                    IN  [invert |-> m.invert, noisy |-> m.noisy, site |-> m.site]]
    /\ stage' = IF Refused(plan') THEN "refused" ELSE "stripped"
    /\ UNCHANGED <<theme, mode, ports>>

Defer(diagonal) ==
    LET d == F!Deferred(work, diagonal)
    IN  /\ stage = "stripped"
        /\ diagonal => mode = "crossing"
        /\ work' = d.circuit
        /\ ports' = [q \in DOMAIN ports |-> d.finalWire[q]]
        /\ stage' = "deferred"
        /\ UNCHANGED <<theme, mode, plan, flips>>

Eliminate(dead) ==
    /\ stage = "deferred"
    /\ work' = C!WithoutHadamards(work, dead)
    /\ stage' = "normalized"
    /\ UNCHANGED <<theme, mode, ports, plan, flips>>

Next ==
    \/ AddGate \/ AddNoise \/ AddReset \/ AddObservable \/ AddMeasure \/ AddFeedback
    \/ \E m \in Modes : Coherentize(m)
    \/ Strip
    \/ \E d \in Copies : Defer(d)
    \/ \E d \in Dead : Eliminate(d)

Spec == Init /\ [][Next]_vars

-----------------------------------------------------------------------------
(* Laws.  Records, expectations and outputs; records and outputs; records.  *)

FullLaw(c, out) ==
    LET st == Final(c) IN Relations(st.tab, st.recs \o st.exps, out)

StateLaw(c, out) == LET st == Final(c) IN Relations(st.tab, st.recs, out)

\* The law of the reported records of a circuit whose reads are plain.
Reported(recs, fl) ==
    [k \in DOMAIN recs |-> SymDiff(SymDiff(recs[k], If(fl[k].invert, {Minus})),
                                   If(fl[k].noisy, {Fault(fl[k].site, 1)}))]

ReportedLaw(c, out, fl) ==
    LET st == Final(c) IN Relations(st.tab, Reported(st.recs, fl), out)

RelabelledLaw(c, p) ==
    LET st == Final(c) IN Relations(st.tab, RelabelFrom(st.recs, p, 1), <<>>)

RecordLaw(c) == LET st == Final(c) IN Relations(st.tab, st.recs, <<>>)

-----------------------------------------------------------------------------

\* Feedback driven from its control wire, from a copy of it, past an undone
\* readout flip, or moved to its source measurement among others, leaves every
\* record, expectation and output as the classical feedback did, for every fault.
CoherentExact ==
    [][stage' = "coherent" /\ stage # stage' => FullLaw(work', ports) = FullLaw(work, ports)]_vars

\* Sampling without the feedback that was left in place and relabelling the
\* reported records afterwards gives the records of the circuit with it.
RelabelExact ==
    [][stage' = "stripped" /\ stage # stage' => RelabelledLaw(work', plan') = RecordLaw(work)]_vars

\* Deferred reads, reported with their inversions and readout flips, and the
\* wires of final_wire are what the circuit measured and left.
DeferExact ==
    [][stage' = "deferred" /\ stage # stage' =>
           ReportedLaw(work', ports', flips) = StateLaw(work, ports)]_vars

\* Frames pushed, absorbed and flushed leave every read, expectation and
\* output as it was, for every fault at its place.
EliminateExact ==
    [][stage' = "normalized" /\ stage # stage' =>
           FullLaw(work', ports) = FullLaw(work, ports)]_vars

\* The relabel never meets a byproduct that is not a Pauli.
RelabelNeverRefused == stage # "refused"

=============================================================================
