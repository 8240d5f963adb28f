----------------------------- MODULE Feedback ------------------------------
(***************************************************************************)
(* Classically controlled Paulis rewritten as coherent gates               *)
(* (src/coherentize_feedback.cpp): which feedbacks are rewritten, from     *)
(* which wire each is driven, how the noisy read that controls it is       *)
(* folded into the state and undone, and the hoist of a feedback to its    *)
(* source measurement.  And every measurement moved to the end of the      *)
(* stream (src/deferral.cpp): a measured wire that nothing uses again is   *)
(* read at the end as it stands and its wire replaced by a fresh one; a    *)
(* wire still in use is copied onto a fresh wire and the copy is read; a   *)
(* reset wire is replaced.                                                 *)
(***************************************************************************)
EXTENDS CircuitIR, FiniteSetsExt

\* The wires a byproduct seeded on q just after position i may have reached
\* after position j: a gate that touches the cone spreads it.
Cone(c, i, q) ==
    LET cone[j \in i .. Len(c.stream)] ==
            IF j = i THEN {q}
            ELSE LET ins == c.stream[j]
                 IN  IF ins.op = "gate" /\ On(ins) \cap cone[j - 1] # {}
                     THEN cone[j - 1] \cup On(ins) ELSE cone[j - 1]
    IN  cone

CrossesNonClifford(c, i) ==
    LET cone == Cone(c, i, c.stream[i].on[1])
    IN  \E j \in (i + 1) .. Len(c.stream) :
            /\ c.stream[j].op = "gate" /\ c.stream[j].gate \in NonClifford
            /\ On(c.stream[j]) \cap cone[j - 1] # {}

\* Is the state of wire q looked at after position i: by anything but noise,
\* and before a reset retires it; or by an output port.
ObservedAfter(c, i, q) ==
    LET looks == {j \in (i + 1) .. Len(c.stream) :
                     c.stream[j].op # "noise" /\ Touches(c.stream[j], q)}
    IN  IF looks = {} THEN q \in c.outs
        ELSE c.stream[Min(looks)].op # "reset"

-----------------------------------------------------------------------------
(* The measurement that controls a feedback. *)

SourceRecord(c, i) == Cardinality(MeasuresBefore(c, i)) - c.stream[i].back + 1

SourceOf(c, i) ==
    CHOOSE m \in MeasuresBefore(c, i) :
        Cardinality(MeasuresBefore(c, m)) = SourceRecord(c, i) - 1

Control(c, i) == c.stream[SourceOf(c, i)].on[1]

Idle(c, i) ==
    \A j \in (SourceOf(c, i) + 1) .. (i - 1) :
        c.stream[j].op # "observable" => ~Touches(c.stream[j], Control(c, i))

-----------------------------------------------------------------------------
(* Gates that apply the Pauli p to q when the b-measured value of a is -1:  *)
(* rotated on the control, and rotated on the target.                       *)

IfInverted(invert, p, q) == IF invert THEN <<Gate(p, <<q>>)>> ELSE <<>>

Controlled(a, p, q) ==
    CASE p = "X" -> <<Gate("CX", <<a, q>>)>>
      [] p = "Z" -> <<Gate("CZ", <<a, q>>)>>
      [] p = "Y" -> <<Gate("SDG", <<q>>), Gate("CX", <<a, q>>), Gate("S", <<q>>)>>

CoherentGates(a, b, q, p, invert) ==
    RotateToZ(b, a) \o Controlled(a, p, q) \o RotateFromZ(b, a) \o IfInverted(invert, p, q)

HoistedGates(a, b, q, p, invert) ==
    IF b = "Z" THEN CoherentGates(a, b, q, p, invert)
    ELSE RotateToZ(p, q) \o Controlled(q, b, a) \o RotateFromZ(p, q)
         \o IfInverted(invert, p, q)

-----------------------------------------------------------------------------
(* The backward conjugation of a feedback to its source.  A moved Pauli is  *)
(* held up to sign, as the wires where it has an X and where it has a Z.    *)

Moved(x, z) == [ok |-> TRUE, x |-> x, z |-> z]

Stuck == [ok |-> FALSE, x |-> {}, z |-> {}]

Letter(Q, q) == CASE q \in Q.x /\ q \in Q.z -> "Y" [] q \in Q.x -> "X" [] q \in Q.z -> "Z"
                  [] OTHER -> "I"

Seed(p, q) == Moved(IF p \in {"X", "Y"} THEN {q} ELSE {},
                    IF p \in {"Y", "Z"} THEN {q} ELSE {})

Xor(S, q, b) == SymDiff(S, IF b THEN {q} ELSE {})

BackThroughGate(g, on, Q) ==
    LET a == on[1]   b == on[2]
        swap == (a \in Q.x) # (a \in Q.z)
    IN  CASE g \in {"X", "Y", "Z"}        -> Q
          [] g \in {"S", "SDG"}           -> [Q EXCEPT !.z = Xor(@, a, a \in Q.x)]
          [] g = "H"                      -> Moved(Xor(Q.x, a, swap), Xor(Q.z, a, swap))
          [] g = "CX"                     -> Moved(Xor(Q.x, b, a \in Q.x),
                                                   Xor(Q.z, a, b \in Q.z))
          [] g = "CZ"                     -> [Q EXCEPT !.z = Xor(Xor(@, a, b \in Q.x),
                                                                 b, a \in Q.x)]
          [] g \in Diagonal               -> IF {on[k] : k \in DOMAIN on} \cap Q.x = {}
                                             THEN Q ELSE Stuck
          [] g = "CH"                     -> IF {a, b} \cap (Q.x \cup Q.z) = {}
                                             THEN Q ELSE Stuck

BackThrough(ins, Q) ==
    LET at(i) == Letter(Q, ins.on[i])
        q == ins.on[1]
    IN  CASE ins.op = "gate" -> BackThroughGate(ins.gate, ins.on, Q)
          [] ins.op \in {"noise", "feedback"} -> Q
          [] ins.op = "measure" -> IF at(1) \in {"I", ins.basis} THEN Q ELSE Stuck
          [] ins.op = "reset" -> IF at(1) = "I" THEN Q
                                 ELSE IF at(1) = "Z" THEN [Q EXCEPT !.z = @ \ {q}] ELSE Stuck
          [] ins.op = "observable" ->
                 IF Cardinality({i \in DOMAIN ins.on : at(i) \notin {"I", ins.paulis[i]}}) % 2 = 0
                 THEN Q ELSE Stuck

\* W^-1 P W for the window W between the source of feedback i and i, without
\* its factor on the control wire; Stuck when the feedback cannot move.
MovedPauli(c, i) ==
    LET m  == SourceOf(c, i)
        cp == c.stream[i]
        a  == Control(c, i)
        back[j \in m + 1 .. i] ==
            IF j = i
            THEN IF ObservedAfter(c, i, cp.on[1]) THEN Seed(cp.basis, cp.on[1])
                 ELSE Moved({}, {})
            ELSE IF back[j + 1].ok THEN BackThrough(c.stream[j], back[j + 1]) ELSE Stuck
        Q == back[m + 1]
    IN  IF Q.ok /\ Letter(Q, a) \in {"I", c.stream[m].basis}
        THEN Moved(Q.x \ {a}, Q.z \ {a}) ELSE Stuck

-----------------------------------------------------------------------------
(* The plan of one feedback, and the circuit rebuilt from all plans. *)

Feedbacks(c) == {i \in DOMAIN c.stream : c.stream[i].op = "feedback"}

\* The fold of a noisy read is undone after it where the state of the
\* control wire is looked at again.
FoldIsUndone(c, m) == c.stream[m].noisy /\ ObservedAfter(c, m, c.stream[m].on[1])

\* Mutant: a feedback on its own control wire is driven from that wire.
NeedsCopyOfOther(c, i) ==
    \/ ~Idle(c, i)
    \/ FoldIsUndone(c, SourceOf(c, i))

NeedsCopyAlone(c, i) ==
    \/ ~Idle(c, i)
    \/ FoldIsUndone(c, SourceOf(c, i))
    \/ c.stream[i].on[1] = Control(c, i)

\* A gate moved to a measurement between the source of feedback i and i, on
\* the control wire of i.
Disturbed(c, i, hoisted) ==
    \E h \in hoisted :
        /\ SourceOf(c, i) < SourceOf(c, h) /\ SourceOf(c, h) < i
        /\ Control(c, i) \in MovedPauli(c, h).x \cup MovedPauli(c, h).z

Rank(k, S) == Cardinality({j \in S : j < k})

\* The wires the copies and the held flips are put on.
PlanWires(c, wanted, hoisted, copied, folded) ==
    LET undone  == {m \in folded : FoldIsUndone(c, m)}
        first(m) == Min({i \in copied : SourceOf(c, i) = m})
        firsts  == {first(SourceOf(c, i)) : i \in copied}
        copies  == {SourceOf(c, i) : i \in copied}
    IN  [wanted |-> wanted, hoisted |-> hoisted, copied |-> copied, folded |-> folded,
         copyOn |-> [m \in copies |-> c.n + Rank(first(m), firsts)],
         flipOn |-> [m \in undone |-> c.n + Cardinality(copies) + Rank(m, undone)],
         n      |-> c.n + Cardinality(copies) + Cardinality(undone)]

PlanHoisting(c, wanted, hoisted) ==
    PlanWires(c, wanted, hoisted,
              {i \in wanted \ hoisted : NeedsCopyAlone(c, i) \/ Disturbed(c, i, hoisted)},
              {m \in {SourceOf(c, i) : i \in wanted} : c.stream[m].noisy})

PlanWanted(c, wanted, mode) ==
    PlanHoisting(c, wanted, {i \in wanted : mode = "hoist" /\ MovedPauli(c, i).ok})

\* Everything the passes before the rebuild decide.  "mode" is "crossing"
\* (only feedbacks that cross a non-Clifford gate), "all", or "hoist".
Plan(c, mode) ==
    PlanWanted(c, {i \in Feedbacks(c) : mode # "crossing" \/ CrossesNonClifford(c, i)}, mode)

HeldFlip(ins, f) == <<Gate(IF ins.basis = "X" THEN "CZ" ELSE "CX", <<f, ins.on[1]>>)>>

Fold(ins, m, plan) ==
    IF m \notin plan.folded THEN <<>>
    ELSE IF m \in DOMAIN plan.flipOn
         THEN <<Noise(ins.site, <<plan.flipOn[m]>>, <<<<"X">>>>)>>
              \o HeldFlip(ins, plan.flipOn[m])
         ELSE <<Noise(ins.site, ins.on, <<<<IF ins.basis = "X" THEN "Z" ELSE "X">>>>)>>

HoistsAt(c, m, plan) ==
    LET from == Ascending({i \in plan.hoisted : SourceOf(c, i) = m})
        s == c.stream[m]
        Gates(i) ==
            LET Q  == MovedPauli(c, i)
                at == Ascending(Q.x \cup Q.z)
            IN  FlattenSeq([k \in DOMAIN at |->
                    HoistedGates(s.on[1], s.basis, at[k], Letter(Q, at[k]), s.invert)])
    IN  FlattenSeq([k \in DOMAIN from |-> Gates(from[k])])

Copy(ins, m, plan) ==
    LET q == ins.on[1]
        a == plan.copyOn[m]
    IN  IF m \notin DOMAIN plan.copyOn THEN <<>>
        ELSE IF ins.basis = "X" THEN <<Gate("H", <<a>>), Gate("CX", <<a, q>>)>>
        ELSE RotateToZ(ins.basis, q) \o <<Gate("CX", <<q, a>>)>> \o RotateFromZ(ins.basis, q)

RewriteMeasure(c, m, plan) ==
    LET ins == c.stream[m]
    IN  Fold(ins, m, plan) \o HoistsAt(c, m, plan) \o Copy(ins, m, plan)
        \o <<[ins EXCEPT !.noisy = @ /\ m \notin plan.folded]>>
        \o (IF m \in DOMAIN plan.flipOn THEN HeldFlip(ins, plan.flipOn[m]) ELSE <<>>)

RewriteFeedback(c, i, plan) ==
    LET ins == c.stream[i]
        s   == c.stream[SourceOf(c, i)]
    IN  IF i \notin plan.wanted THEN <<ins>>
        ELSE IF i \in plan.hoisted THEN <<>>
        ELSE IF i \in plan.copied
        THEN CoherentGates(plan.copyOn[SourceOf(c, i)], IF s.basis = "X" THEN "X" ELSE "Z",
                           ins.on[1], ins.basis, s.invert)
        ELSE CoherentGates(s.on[1], s.basis, ins.on[1], ins.basis, s.invert)

Rewritten(c, plan) ==
    LET Rewrite(i) == CASE c.stream[i].op = "measure"  -> RewriteMeasure(c, i, plan)
                        [] c.stream[i].op = "feedback" -> RewriteFeedback(c, i, plan)
                        [] OTHER -> <<c.stream[i]>>
    IN  [c EXCEPT !.n = plan.n,
                  !.stream = FlattenSeq([i \in DOMAIN c.stream |-> Rewrite(i)])]

Coherentized(c, mode) == IF HasFeedback(c) THEN Rewritten(c, Plan(c, mode)) ELSE c

StripFeedback(c) ==
    [c EXCEPT !.stream = SelectSeq(@, LAMBDA ins : ins.op # "feedback")]

-----------------------------------------------------------------------------
(* Measurements deferred to the end. *)

\* Mutant: a second measurement of the wire is not a use of it.
AbandonedUnlessGate(c, i, q) ==
    LET uses == {j \in (i + 1) .. Len(c.stream) :
                    c.stream[j].op \notin {"noise", "measure"} /\ Touches(c.stream[j], q)}
    IN  uses # {} => \E j \in uses : (\A k \in uses : j <= k) /\ c.stream[j].op = "reset"

\* Nothing but noise touches wire q between position i and its next reset
\* or the end of the stream.
AbandonedAfter(c, i, q) ==
    LET uses == {j \in (i + 1) .. Len(c.stream) :
                    c.stream[j].op # "noise" /\ Touches(c.stream[j], q)}
    IN  uses # {} => \E j \in uses : (\A k \in uses : j <= k) /\ c.stream[j].op = "reset"

DiagonalCopy(q, a, basis) ==
    <<Gate("H", <<a>>)>>
    \o (IF basis = "Y" THEN <<Gate("SDG", <<q>>)>> ELSE <<>>)
    \o <<Gate("CX", <<a, q>>)>>
    \o (IF basis = "Y" THEN <<Gate("S", <<q>>)>> ELSE <<>>)

ZCopy(q, a, basis) ==
    RotateToZ(basis, q) \o <<Gate("CX", <<q, a>>)>> \o RotateFromZ(basis, q)

\* One instruction: w2q maps the wires of c to those of the deferred circuit.
DeferStep(c, i, diagonal, st) ==
    LET ins  == c.stream[i]
        q    == st.w2q[ins.on[1]]
        live == ~AbandonedAfter(c, i, ins.on[1])
        byX  == diagonal /\ ins.basis # "Z"
    IN  CASE ins.op \in {"gate", "noise", "observable"} ->
                 [st EXCEPT !.out = Append(@, [ins EXCEPT !.on =
                                        [k \in DOMAIN @ |-> st.w2q[@[k]]]])]
          [] ins.op = "measure" /\ ~live ->
                 [st EXCEPT !.reads = Append(@, Read(q, ins.basis)),
                            !.w2q[ins.on[1]] = st.fresh, !.fresh = @ + 1]
          [] ins.op = "measure" /\ live ->
                 [st EXCEPT !.out = @ \o (IF byX THEN DiagonalCopy(q, st.fresh, ins.basis)
                                                 ELSE ZCopy(q, st.fresh, ins.basis)),
                            !.reads = Append(@, Read(st.fresh, IF byX THEN "X" ELSE "Z")),
                            !.fresh = @ + 1]
          [] ins.op = "reset" ->
                 [st EXCEPT !.w2q[ins.on[1]] = st.fresh, !.fresh = @ + 1]

RECURSIVE DeferFrom(_, _, _, _)
DeferFrom(c, diagonal, st, i) ==
    IF i > Len(c.stream) THEN st
    ELSE DeferFrom(c, diagonal, DeferStep(c, i, diagonal, st), i + 1)

\* The deferred circuit and the map of the wires it ends on (final_wire).
Deferred(c, diagonal) ==
    LET st == DeferFrom(c, diagonal,
                        [w2q |-> [q \in Wires(c) |-> q], fresh |-> c.n,
                         out |-> <<>>, reads |-> <<>>], 1)
    IN  [circuit |-> [c EXCEPT !.n = st.fresh, !.stream = st.out \o st.reads],
         finalWire |-> st.w2q]

=============================================================================
