----------------------------- MODULE MCFrontEnd -----------------------------
(* Circuits of a few instructions, each alphabet about one mechanism; all  *)
(* themes but the first four go on to the bare state, six of them to the   *)
(* sampler, and those of Questions to an error model or a diagnosis.  A    *)
(* fault at a position is named by it.                                     *)
EXTENDS ErrorModel, TLC

M(q, b)    == Measure(0, q, b, FALSE, FALSE)
MN(q, b)   == Measure(0, q, b, FALSE, TRUE)
MI(q, b)   == Measure(0, q, b, TRUE, FALSE)
E(q, l)    == Noise(0, <<q>>, <<<<l>>>>)
At(i, q, l) == Noise(i, <<q>>, <<<<l>>>>)
G(g, q)    == Gate(g, <<q>>)
CX(a, b)   == Gate("CX", <<a, b>>)
CZ(a, b)   == Gate("CZ", <<a, b>>)
CS(a, b)   == Gate("CS", <<a, b>>)
CP(k, p, q) == ControlledPauli(k, p, q)

\* A circuit to be asked for an error model.
Fixed(n, outs, start) ==
    [n |-> n, outs |-> outs, length |-> Len(start), alphabet |-> {}, exact |-> {TRUE}, columns |-> {},
     start |-> start]

Circuits ==
    [ \* Feedback moved to its source past gates, reads and other feedback.
      moved |->
        [n |-> 3, outs |-> {2}, start |-> <<G("H", 1)>>, length |-> 5, columns |-> {}, exact |-> {},
         alphabet |-> {M(0, "X"), M(1, "Y"), CX(1, 2), G("T", 1),
                       CP(1, "X", 1), CP(2, "X", 1), CP(2, "Z", 1), CP(2, "Y", 2)}],
      \* A control wire read by one feedback and hit by another.
      shared |->
        [n |-> 3, outs |-> {2}, start |-> <<G("H", 0), M(0, "Z"), G("T", 2)>>, length |-> 7, columns |-> {}, exact |-> {},
         alphabet |-> {M(0, "Z"), MI(1, "X"), CP(1, "X", 0), CP(2, "X", 2), CP(1, "Y", 2),
                       CX(0, 2)}],
      \* Noisy reads, what is looked at after them, resets.
      noisy |->
        [n |-> 2, outs |-> {1}, start |-> <<CX(0, 1)>>, length |-> 5, columns |-> {}, exact |-> {},
         alphabet |-> {MN(0, "Z"), MN(0, "Y"), E(0, "X"), Reset(0), CX(0, 1),
                       CP(1, "X", 0), CP(1, "Y", 1), CP(2, "Z", 1), G("T", 1)}],
      \* Frames through gates, channels, expectations, to reads or outputs.
      frames |->
        [n |-> 2, outs |-> {1}, start |-> <<G("H", 0), CX(0, 1), G("H", 1)>>, length |-> 7, columns |-> {}, exact |-> {},
         alphabet |-> {G("H", 0), G("S", 0), CZ(1, 0), CX(0, 1),
                       Noise(0, <<0, 1>>, <<<<"X", "Z">>, <<"Y", "I">>>>),
                       Noise(0, <<0>>, <<>>), Observable(<<1>>, <<"X">>), M(0, "Y"), M(0, "Z")}],
      \* Doubled Ts with faults between them, on a state that is fixed by one
      \* Pauli only: what a fault adds to it is drawn.
      drawn |->
        [n |-> 3, outs |-> {2}, length |-> 19, alphabet |-> {}, exact |-> {TRUE},
         columns |-> {<<{1}, {2}, {1, 2}>>, <<{1, 2}, {1}>>},
         start |-> <<G("H", 0), G("H", 1), G("H", 2), CX(0, 1), G("T", 1), CX(0, 1),
                     G("T", 0), G("T", 1), At(9, 0, "X"), At(10, 1, "X"), At(11, 2, "X"),
                     G("T", 0), G("T", 1), G("T", 2), G("H", 2), G("Z", 0), At(17, 0, "X"),
                     M(0, "Y"), M(1, "Y")>>],
      \* The same on a Bell pair: what faults add is fixed or a coin.
      bell |->
        [n |-> 3, outs |-> {2}, length |-> 16, alphabet |-> {}, exact |-> {TRUE},
         columns |-> {<<{1}, {2}, {1, 2}>>, <<{1, 2}, {1}>>},
         start |-> <<G("H", 0), CX(0, 1), G("H", 2), G("T", 0), G("T", 1), At(6, 0, "X"),
                     At(7, 1, "Y"), At(8, 2, "X"), G("T", 0), G("T", 1), G("T", 2), G("H", 2),
                     G("Z", 0), At(14, 0, "X"), M(0, "Y"), M(1, "Y")>>],
      \* Controlled phases with faults between them, and on a product wire.
      phases |->
        [n |-> 3, outs |-> {2}, length |-> 11, alphabet |-> {}, exact |-> {TRUE}, columns |-> {<<{1, 2}, {2}>>},
         start |-> <<G("H", 0), G("H", 1), G("H", 2), CS(0, 1), At(5, 1, "X"), At(6, 0, "Y"),
                     CS(0, 1), G("T", 2), G("H", 2), M(0, "X"), M(1, "Z")>>],
      product |->
        [n |-> 3, outs |-> {2}, length |-> 10, alphabet |-> {}, exact |-> {TRUE}, columns |-> {<<{1}, {2}>>},
         start |-> <<G("H", 0), G("H", 2), CS(0, 1), At(4, 1, "X"), At(5, 0, "Y"),
                     CS(0, 1), G("T", 2), G("H", 2), M(0, "X"), M(1, "Z")>>],
      \* Terms that do not commute: joined, cancelled, kept apart, refused.
      merged |->
        [n |-> 3, outs |-> {}, length |-> 12, exact |-> {TRUE, FALSE}, columns |-> {<<{1, 2}, {2}>>},
         alphabet |-> {G("T", 1), G("X", 1), E(1, "Y")},
         start |-> <<G("H", 0), G("H", 1), At(3, 0, "X"), CX(0, 1), Gate("CH", <<0, 1>>),
                     At(6, 1, "X"), CX(1, 2), M(0, "X"), M(2, "Y")>>],
      \* Reads of a superposition, coins among them, in every order.
      reads |->
        [n |-> 4, outs |-> {}, length |-> 11, exact |-> {TRUE}, columns |-> {},
         alphabet |-> {M(0, "X"), M(1, "Y"), M(2, "X"), M(3, "Z")},
         start |-> <<G("H", 0), G("H", 1), G("T", 0), G("T", 1), CS(0, 1), CX(1, 2),
                     G("H", 3), CX(3, 2)>>],
      \* References of circuits with feedback, inverted reads and resets.
      reference |->
        [n |-> 3, outs |-> {}, length |-> 6, exact |-> {FALSE}, columns |-> {},
         start |-> <<G("H", 0), G("T", 0), CX(0, 1)>>,
         alphabet |-> {MI(0, "X"), M(1, "Z"), CP(1, "X", 1), CP(2, "Z", 2), CP(1, "Y", 2),
                       Reset(1), CS(0, 2), G("H", 2)}],
      \* Doubled Ts, which are Clifford, in the way of later ones.
      settled |->
        [n |-> 2, outs |-> {}, length |-> 7, exact |-> {TRUE, FALSE}, columns |-> {},
         start |-> <<G("H", 0), G("T", 0), G("T", 0)>>,
         alphabet |-> {G("H", 0), G("T", 0), CX(0, 1), G("T", 1), M(0, "X")}],
      \* A CCZ between faults, read in several orders and places.
      ccz |->
        [n |-> 3, outs |-> {}, length |-> 10, exact |-> {TRUE}, columns |-> {<<{1, 2}, {2}>>},
         alphabet |-> {M(1, "Z"), M(0, "X"), M(2, "X"), G("T", 0)},
         start |-> <<G("H", 0), G("H", 1), At(3, 1, "X"), Gate("CCZ", <<0, 1, 2>>), CX(0, 1),
                     CX(0, 2), At(7, 0, "X"), G("H", 1)>>],
      \* Faults that are Paulis at the end, on records and an output's frame.
      mechanisms |->
        Fixed(3, {2},
              <<G("H", 0), CX(0, 1),
                Noise(3, <<0, 1>>, <<<<"X", "Z">>, <<"Y", "X">>, <<"Z", "Y">>>>), G("H", 2), G("T", 2),
                At(6, 2, "X"), CX(0, 2), Noise(8, <<2>>, <<<<"Z">>, <<"X">>>>), CX(0, 2),
                Measure(10, 0, "Z", TRUE, TRUE), M(1, "Z")>>),
      \* Faults that randomize one read, or two independently.
      cosets |->
        Fixed(2, {},
              <<G("H", 0), G("H", 1), G("T", 0), G("T", 1), At(5, 0, "X"),
                Noise(6, <<0, 1>>, <<<<"X", "I">>, <<"I", "X">>, <<"X", "Y">>, <<"Z", "I">>>>),
                G("SDG", 0), G("T", 0), G("SDG", 1), G("T", 1), M(0, "X"), M(1, "X")>>),
      \* Faults that randomize two reads together.
      crosstalk |->
        Fixed(2, {},
              <<G("H", 0), G("H", 1), G("T", 0), G("T", 1), CS(0, 1),
                Noise(6, <<0, 1>>, <<<<"X", "I">>, <<"I", "X">>, <<"X", "Z">>>>),
                CZ(0, 1), CS(0, 1), G("SDG", 0), G("T", 0), G("SDG", 1), G("T", 1),
                M(0, "X"), M(1, "X")>>),
      \* A read that is randomized, but no fair coin.
      support |->
        Fixed(2, {},
              <<G("H", 1), G("T", 1), G("H", 1), G("H", 0), CS(0, 1), Noise(6, <<0>>, <<<<"X">>, <<"Z">>>>),
                CS(0, 1), CZ(0, 1), M(0, "X"), M(1, "Z")>>),
      \* Reads of a wire that lives on, to be copied with diagonal gates.
      copied |->
        Fixed(1, {},
              <<G("H", 0), G("T", 0), At(3, 0, "X"), G("SDG", 0), G("T", 0), M(0, "X"),
                At(7, 0, "Z"), M(0, "X")>>),
      \* Mechanisms of four and three detectors.
      hyper |->
        Fixed(4, {},
              <<Noise(1, <<0, 1, 2, 3>>, <<<<"X", "X", "X", "X">>>>), Noise(2, <<0, 1>>, <<<<"X", "X">>>>),
                Noise(3, <<2, 3>>, <<<<"X", "X">>>>), Noise(4, <<0, 1, 2>>, <<<<"X", "X", "X">>>>),
                G("H", 0), G("T", 0), G("SDG", 0), G("T", 0), G("H", 0),
                M(0, "Z"), M(1, "Z"), M(2, "Z"), M(3, "Z")>>),
      \* Feedback that flips the record which controls the next one.
      relabelled |->
        Fixed(3, {},
              <<G("H", 0), At(2, 0, "X"), G("T", 0), G("H", 0), M(0, "Z"), CP(1, "X", 1), MI(1, "Z"),
                CP(1, "X", 2), Reset(0), M(2, "Z"), At(11, 0, "Y"), M(0, "Z")>>),
      \* Faults a Hadamard takes out of the diagonal class, served by the
      \* second try; and one that is not.
      turned |->
        Fixed(3, {},
              <<G("H", 0), G("H", 1), At(3, 0, "X"), G("T", 0), G("H", 0),
                Noise(6, <<1, 2>>, <<<<"Y", "Z">>>>), CX(1, 0), G("T", 1), Gate("CH", <<1, 2>>),
                At(10, 2, "Y"), G("S", 0), M(0, "Z"), M(1, "X"), M(2, "Y")>>),
      barred |->
        Fixed(1, {},
              <<G("H", 0), At(2, 0, "X"), G("T", 0), G("H", 0), G("T", 0), G("T", 0), M(0, "X")>>)]

Detector(k)   == <<"detector", k>>
Observed(k)   == <<"observable", k>>
Decision(k)   == <<"decision", k>>

Over(k) == <<1, 0, k>>      \* the probability 1/k
None    == <<0, 0, 1>>
Three4  == <<3, 0, 4>>

\* A model with every option at its default.
Model(parities, weights) ==
    [ask |-> "model", parities |-> parities, weights |-> weights, readout |-> <<>>, chains |-> {},
     drop |-> FALSE, disjoint |-> {}, graphlike |-> "no"]

Diagnosis(parities) == [ask |-> "diagnosis", parities |-> parities]

Pair == Detector(1) :> {1} @@ Detector(2) :> {2}

Questions ==
    [mechanisms |->
        {[Model(Detector(1) :> {1, 2} @@ t :> {1},
                3 :> w @@ 6 :> <<Over(8)>> @@ 8 :> <<Over(4), Over(8)>>)
             EXCEPT !.readout = 10 :> Over(8), !.chains = c, !.disjoint = d, !.drop = t = Observed(1)] :
            t \in {Decision(1), Observed(1)}, c \in {{}, {3}}, d \in {{}, {Over(4)}},
            w \in {<<Over(16), Over(16), Over(16)>>, <<Over(4), Over(2), None>>}}
        \cup {Model(t :> {1}, 3 :> <<None, None, None>> @@ 6 :> <<None>> @@ 8 :> <<None, None>>) :
                  t \in {Detector(1), Observed(1)}},
     cosets |->
        {Model(Pair @@ Observed(1) :> {1, 2}, 5 :> <<Over(8)>> @@ 6 :> w) :
            w \in {<<Over(8), Over(8), Over(8), Over(8)>>, <<Over(4), Over(2), None, None>>,
                   <<Over(16), Over(16), Over(4), None>>, <<Three4, None, Over(8), None>>}},
     crosstalk |->
        {[Model(Pair, 6 :> w) EXCEPT !.disjoint = d] :
            d \in {{}, {Over(8)}},
            w \in {<<Over(8), Over(8), None>>, <<Over(8), Over(8), Over(8)>>, <<Over(16), None, Over(8)>>,
                   <<None, Over(4), None>>}},
     support |->
        {Model(Detector(1) :> {1} @@ t, 6 :> <<Over(8), x>>) :
            x \in {None, Over(8)}, t \in {<<>>, Decision(1) :> {2}, Decision(1) :> {1, 2}}},
     copied |-> {Model(Detector(1) :> {1, 2} @@ Observed(1) :> {1}, 3 :> <<Over(8)>> @@ 7 :> <<Over(8)>>)},
     hyper |->
        {[Model([t \in {Detector(k) : k \in 1 .. 4} |-> {t[2]}] @@ Observed(1) :> {2},
                1 :> <<Over(8)>> @@ 2 :> <<x>> @@ 3 :> <<y>> @@ 4 :> <<Over(4)>>)
             EXCEPT !.graphlike = g] :
            x \in {None, Over(8)}, y \in {None, Over(8)}, g \in {"no", "yes", "try"}},
     relabelled |->
        {Diagnosis(<<{3}, {2, 3}, {1, 3}, {4}, {1}, {1, 2, 3}, {1, 2}>>), Model(Detector(1) :> {1, 2}, <<>>)},
     turned |-> {Diagnosis(<<{1}, {2}, {3}, {1, 2}>>)},
     barred |-> {Diagnosis(<<{1}>>), Model(Detector(1) :> {1}, 2 :> <<Over(8)>>)},
     reference |-> {Diagnosis(<<{1}, {2}, {1, 2}>>)}]

\* A feedback that flips the record which controls the next one.
MCChain ==
    [chain |->
        [n |-> 3, outs |-> {2}, start |-> <<G("H", 0)>>, length |-> 6, columns |-> {}, exact |-> {},
         alphabet |-> {M(0, "Z"), CP(1, "X", 1), M(1, "Z"), CP(1, "X", 2), G("T", 2)}]]

(* TLC evaluates the two once when they are named by another definition.   *)
MCThemes == Circuits
MCExports == Questions

=============================================================================
