--------------------------- MODULE CliffordFrames ---------------------------
(***************************************************************************)
(* Hadamards pushed to the reads (src/clifford_frames.cpp).  Each wire     *)
(* carries a pending single-qubit Clifford, its frame, which moves right   *)
(* through CX and CZ by a table, is absorbed into the basis of a read, and *)
(* is written out as gates wherever it cannot move.                        *)
(*                                                                         *)
(* A frame F is the pair of the signed Paulis F X F^-1 and F Z F^-1; a     *)
(* signed Pauli is <<letter, minus>>.                                      *)
(***************************************************************************)
EXTENDS CircuitIR, FiniteSetsExt, Functions, TLC

Letters == {"X", "Y", "Z"}

Other(l, k) == CHOOSE m \in Letters : m \notin {l, k}

\* XY = iZ, YZ = iX, ZX = iY; the reverse products carry -i.
Cyclic(l, k) == <<l, k>> \in {<<"X", "Y">>, <<"Y", "Z">>, <<"Z", "X">>}

Identity == [x |-> <<"X", FALSE>>, z |-> <<"Z", FALSE>>]

\* F Y F^-1 = i (F X F^-1)(F Z F^-1).
Image(F, l) ==
    CASE l = "X" -> F.x
      [] l = "Z" -> F.z
      [] l = "Y" -> <<Other(F.x[1], F.z[1]), (F.x[2] # F.z[2]) # Cyclic(F.x[1], F.z[1])>>

Times(s, minus) == <<s[1], s[2] # minus>>
ImageOf(F, s) == Times(Image(F, s[1]), s[2])

\* The frame that applies F first.
Then(F, G) == [x |-> ImageOf(G, F.x), z |-> ImageOf(G, F.z)]

FrameOf(g) ==
    CASE g = "H"   -> [x |-> <<"Z", FALSE>>, z |-> <<"X", FALSE>>]
      [] g = "S"   -> [x |-> <<"Y", FALSE>>, z |-> <<"Z", FALSE>>]
      [] g = "SDG" -> [x |-> <<"Y", TRUE>>,  z |-> <<"Z", FALSE>>]
      [] g = "X"   -> [x |-> <<"X", FALSE>>, z |-> <<"Z", TRUE>>]
      [] g = "Y"   -> [x |-> <<"X", TRUE>>,  z |-> <<"Z", TRUE>>]
      [] g = "Z"   -> [x |-> <<"X", TRUE>>,  z |-> <<"Z", FALSE>>]

OneQubit == {"H", "S", "SDG", "X", "Y", "Z"}

IsDiagonal(F) == F.z[1] = "Z"

\* The letter whose image is the letter l, and whether with a minus.
Preimage(F, l)   == CHOOSE m \in Letters : Image(F, m)[1] = l
PreimageSign(F, l) == Image(F, Preimage(F, l))[2]

\* A shortest word over {H, S, X} of every frame, found breadth first.
Words ==
    LET Wider(w) ==
            LET next == {p \in (DOMAIN w) \X {"H", "S", "X"} :
                            Then(p[1], FrameOf(p[2])) \notin DOMAIN w}
                new  == {Then(p[1], FrameOf(p[2])) : p \in next}
            IN  w @@ [F \in new |->
                        LET p == CHOOSE r \in next : Then(r[1], FrameOf(r[2])) = F
                        IN  Append(w[p[1]], p[2])]
        reach[k \in 0 .. 6] == IF k = 0 THEN Identity :> <<>> ELSE Wider(reach[k - 1])
    IN  reach[6]

Frames == DOMAIN Words

-----------------------------------------------------------------------------
(* Two wires: a signed Pauli is <<l0, l1, k>> for i^k l0 l1, letters in     *)
(* {I, X, Y, Z}; a tableau is its images of X0, Z0, X1, Z1.                 *)

Mul1(l, k) ==
    CASE l = "I" -> <<k, 0>>
      [] k = "I" -> <<l, 0>>
      [] l = k   -> <<"I", 0>>
      [] OTHER   -> <<Other(l, k), IF Cyclic(l, k) THEN 1 ELSE 3>>

Mul(p, r) ==
    LET a == Mul1(p[1], r[1])   b == Mul1(p[2], r[2])
    IN  <<a[1], b[1], (p[3] + r[3] + a[2] + b[2]) % 4>>

One == <<"I", "I", 0>>

Factor(im, l, w) ==
    LET x == im[2 * w + 1]   z == im[2 * w + 2]
    IN  CASE l = "I" -> One
          [] l = "X" -> x
          [] l = "Z" -> z
          [] l = "Y" -> LET p == Mul(x, z) IN <<p[1], p[2], (p[3] + 1) % 4>>

Substitute(im, p) ==
    LET r == Mul(Factor(im, p[1], 0), Factor(im, p[2], 1))
    IN  <<r[1], r[2], (r[3] + p[3]) % 4>>

\* The images of "first then after".
Compose(after, first) ==
    <<Substitute(after, first[1]), Substitute(after, first[2]),
      Substitute(after, first[3]), Substitute(after, first[4])>>

Sign(minus) == IF minus THEN 2 ELSE 0

Tensor(F, G) ==
    <<<<F.x[1], "I", Sign(F.x[2])>>, <<F.z[1], "I", Sign(F.z[2])>>,
      <<"I", G.x[1], Sign(G.x[2])>>, <<"I", G.z[1], Sign(G.z[2])>>>>

\* CZ, CX from wire 0 to 1, CX from wire 1 to 0.
Bare(g) ==
    CASE g = "CZ"   -> <<<<"X", "Z", 0>>, <<"Z", "I", 0>>, <<"Z", "X", 0>>, <<"I", "Z", 0>>>>
      [] g = "CX"   -> <<<<"X", "X", 0>>, <<"Z", "I", 0>>, <<"I", "X", 0>>, <<"Z", "Z", 0>>>>
      [] g = "CX10" -> <<<<"X", "I", 0>>, <<"Z", "Z", 0>>, <<"X", "X", 0>>, <<"I", "Z", 0>>>>

\* G after F0 (x) F1 = (F0' (x) F1') after G' for a bare G'.  Every candidate
\* is its own inverse, so the residues can be read off L G'.
Residues(T) ==
    LET fits == {h \in DOMAIN T : /\ \A k \in {1, 2} : T[h][k][2] = "I"
                                  /\ \A k \in {3, 4} : T[h][k][1] = "I"}
        Best(h) == h = "CZ" \/ (h = "CX" /\ "CZ" \notin fits) \/ fits = {"CX10"}
    IN  {[g  |-> h,
          F0 |-> [x |-> <<T[h][1][1], T[h][1][3] = 2>>, z |-> <<T[h][2][1], T[h][2][3] = 2>>],
          F1 |-> [x |-> <<T[h][3][2], T[h][3][3] = 2>>, z |-> <<T[h][4][2], T[h][4][3] = 2>>]]
            : h \in {k \in fits : Best(k)}}

TryPush(g, F0, F1) ==
    Residues([h \in {"CZ", "CX", "CX10"} |-> Compose(Compose(Bare(g), Tensor(F0, F1)), Bare(h))])

PushTable == [p \in {"CZ", "CX"} \X Frames \X Frames |-> TryPush(p[1], p[2], p[3])]

-----------------------------------------------------------------------------
(* Which pending frames move past a channel or an expectation on other      *)
(* wires: those that the next read of the wire absorbs, or whose basis      *)
(* change the gates before the next boundary undo.                          *)

Fate(s, q, j) ==
    LET on == {i \in (j + 1) .. Len(s) : s[i].op # "noise" /\ Touches(s[i], q)}
        stops == {i \in on : ~(s[i].op = "gate" /\ s[i].gate \in OneQubit)}
        stop == IF stops = {} THEN Len(s) + 1 ELSE Min(stops)
        word == Ascending({i \in on : i < stop})
        P[k \in 0 .. Len(word)] ==
            IF k = 0 THEN Identity ELSE Then(P[k - 1], FrameOf(s[word[k]].gate))
    IN  [absorbed |-> stop <= Len(s) /\ s[stop].op = "measure", P |-> P[Len(word)]]

KeepPending(s, q, j, F) ==
    /\ ~IsDiagonal(F)
    /\ \/ Fate(s, q, j).absorbed
       \/ IsDiagonal(Then(F, Fate(s, q, j).P))

\* Mutant: letters become their images.
NoiseBackwards(ins, frame) ==
    [ins EXCEPT !.terms = [t \in DOMAIN @ |->
        [k \in DOMAIN ins.on |-> IF @[t][k] = "I" THEN "I"
                                 ELSE Image(frame[ins.on[k]], @[t][k])[1]]]]

\* F q; N = N'; F q: every term's letters become their preimages.
NoiseThrough(ins, frame) ==
    [ins EXCEPT !.terms = [t \in DOMAIN @ |->
        [k \in DOMAIN ins.on |-> IF @[t][k] = "I" THEN "I"
                                 ELSE Preimage(frame[ins.on[k]], @[t][k])]]]

\* A read of P_b after F is a read of F^-1 P_b F before it.
Absorb(ins, F) ==
    [ins EXCEPT !.basis = Preimage(F, ins.basis), !.invert = @ # PreimageSign(F, ins.basis)]

-----------------------------------------------------------------------------

WordGates(F, q) == [k \in DOMAIN Words[F] |-> Gate(Words[F][k], <<q>>)]

\* The frames of the wires in S written out as gates.
Flush(st, S) ==
    LET seq == Ascending(S)
    IN  [frame |-> [q \in DOMAIN st.frame |-> IF q \in S THEN Identity ELSE st.frame[q]],
         out   |-> st.out \o FlattenSeq([k \in DOMAIN seq |->
                                            WordGates(st.frame[seq[k]], seq[k])])]

Emit(st, ins) == [st EXCEPT !.out = Append(@, ins)]

Pending(st) == {q \in DOMAIN st.frame : st.frame[q] # Identity}

Pushed(st, ins, found) ==
    IF found = {} THEN Emit(Flush(st, On(ins)), ins)
    ELSE CHOOSE next \in {[frame |-> [st.frame EXCEPT ![ins.on[1]] = r.F0, ![ins.on[2]] = r.F1],
                           out   |-> Append(st.out, IF r.g = "CX10" THEN Gate("CX", Reverse(ins.on))
                                                    ELSE Gate(r.g, ins.on))] : r \in found} : TRUE

PushNoise(s, i, dead, st) ==
    LET ins   == s[i]
        stuck == {q \in On(ins) \cap Pending(st) : ~KeepPending(s, q, i, st.frame[q])}
        f     == Flush(st, stuck)
    IN  IF dead /\ ins.terms = <<>> THEN Emit(st, ins)
        ELSE Emit(f, NoiseThrough(ins, f.frame))

PushObservable(s, i, st) ==
    LET ins   == s[i]
        stuck == {q \in Pending(st) \ On(ins) : ~KeepPending(s, q, i, st.frame[q])}
    IN  Emit(Flush(st, (On(ins) \cap Pending(st)) \cup stuck), ins)

PushStep(s, i, dead, st) ==
    LET ins == s[i]
        q   == ins.on[1]
    IN  CASE ins.op = "gate" /\ ins.gate \in OneQubit ->
                 [st EXCEPT !.frame[q] = Then(@, FrameOf(ins.gate))]
          [] ins.op = "gate" /\ ins.gate \in {"CX", "CZ"} ->
                 Pushed(st, ins, PushTable[<<ins.gate, st.frame[q], st.frame[ins.on[2]]>>])
          [] ins.op = "measure" ->
                 [frame |-> [st.frame EXCEPT ![q] = Identity],
                  out   |-> Append(st.out, Absorb(ins, st.frame[q]))]
          [] ins.op = "noise" -> PushNoise(s, i, dead, st)
          [] ins.op = "observable" -> PushObservable(s, i, st)
          [] OTHER -> Emit(Flush(st, On(ins) \cap Pending(st)), ins)

RECURSIVE PushFrom(_, _, _, _)
PushFrom(s, dead, st, i) ==
    IF i > Len(s) THEN st ELSE PushFrom(s, dead, PushStep(s, i, dead, st), i + 1)

PushFrames(c, dead) ==
    LET FlushAll(st) == Flush(st, Pending(st)).out
    IN  [c EXCEPT !.stream = FlushAll(PushFrom(c.stream, dead,
                       [frame |-> [q \in Wires(c) |-> Identity], out |-> <<>>], 1))]

-----------------------------------------------------------------------------
(* H q; ...; M q, nothing else on q between or after, becomes MX q; with an *)
(* SDG just before the H, MY q.  A reset followed by its basis rotation is  *)
(* written back as it was.                                                  *)

FoldedRead(s, i) ==
    LET q    == s[i].on[1]
        next == {j \in (i + 1) .. Len(s) : Touches(s[j], q)}
    IN  IF IsGate(s[i], "H") /\ Cardinality(next) = 1
           /\ s[Min(next)].op = "measure" /\ s[Min(next)].basis = "Z"
        THEN Min(next) ELSE 0

SdgBefore(s, i) == i > 1 /\ IsGate(s[i - 1], "SDG") /\ s[i - 1].on = s[i].on

BoundaryFolds(c) ==
    LET s     == c.stream
        folds == {i \in DOMAIN s : FoldedRead(s, i) # 0}
        gone  == folds \cup {i - 1 : i \in {k \in folds : SdgBefore(s, k)}}
        Basis(j) == IF \E i \in folds : FoldedRead(s, i) = j /\ SdgBefore(s, i)
                    THEN "Y" ELSE "X"
        Folded(j) == IF \E i \in folds : FoldedRead(s, i) = j
                     THEN [s[j] EXCEPT !.basis = Basis(j)] ELSE s[j]
        kept  == Ascending(DOMAIN s \ gone)
    IN  [c EXCEPT !.stream = [k \in DOMAIN kept |-> Folded(kept[k])]]

WithoutHadamards(c, dead) ==
    IF HasH(c) THEN BoundaryFolds(PushFrames(c, dead)) ELSE c

=============================================================================
