----------------------------- MODULE CircuitIR -----------------------------
(***************************************************************************)
(* The instruction stream every pass of the front end reads and writes     *)
(* (include/qeccore/circuit_ir.hpp).  A circuit is a record of its wire    *)
(* count n (wires are 0..n-1), its stream, and the wires of its output     *)
(* ports.  Every instruction names its wires in "on", in order.            *)
(*                                                                         *)
(* A Pauli channel is the sequence of its terms, each the Paulis it fires  *)
(* on the wires of "on": X_ERROR has one term, PAULI_CHANNEL_1 three, a    *)
(* correlated chain one per line; probabilities are left out, and a        *)
(* channel whose every probability is zero has no term.  "site" is the     *)
(* provenance tag of a noise site or of a noisy read.                      *)
(***************************************************************************)
EXTENDS Integers, Sequences, SequencesExt

\* The numbers of S in order.
Ascending(S) ==
    [k \in 1 .. Cardinality(S) |-> CHOOSE i \in S : Cardinality({j \in S : j < i}) = k - 1]

Wires(c) == 0 .. (c.n - 1)

Gate(g, on)               == [op |-> "gate", gate |-> g, on |-> on]
Noise(site, on, terms)    == [op |-> "noise", site |-> site, on |-> on, terms |-> terms]
Reset(q)                  == [op |-> "reset", on |-> <<q>>]
Observable(on, paulis)    == [op |-> "observable", on |-> on, paulis |-> paulis]

\* CX/CY/CZ rec[-back] q: the Pauli "basis" on q when that record is 1.
ControlledPauli(back, basis, q) ==
    [op |-> "feedback", on |-> <<q>>, basis |-> basis, back |-> back]

\* M/MX/MY, with the two ways a reported bit differs from the projected
\* outcome: "!" (invert) and M(p) (noisy).
Measure(site, q, basis, invert, noisy) ==
    [op |-> "measure", site |-> site, on |-> <<q>>, basis |-> basis,
     invert |-> invert, noisy |-> noisy]

Read(q, basis) == Measure(0, q, basis, FALSE, FALSE)

On(ins) == {ins.on[i] : i \in DOMAIN ins.on}

Touches(ins, q) == q \in On(ins)

IsGate(ins, g) == ins.op = "gate" /\ ins.gate = g

Diagonal == {"T", "CS", "CCZ"}

NonClifford == Diagonal \cup {"CH"}

HasFeedback(c) == \E i \in DOMAIN c.stream : c.stream[i].op = "feedback"

HasH(c) == \E i \in DOMAIN c.stream : IsGate(c.stream[i], "H")

MeasuresBefore(c, i) ==
    {j \in DOMAIN c.stream : j < i /\ c.stream[j].op = "measure"}

\* R with R (+-P) R^-1 = +-Z, and its inverse.
RotateToZ(basis, q) ==
    CASE basis = "Z" -> <<>>
      [] basis = "X" -> <<Gate("H", <<q>>)>>
      [] basis = "Y" -> <<Gate("SDG", <<q>>), Gate("H", <<q>>)>>

RotateFromZ(basis, q) ==
    CASE basis = "Z" -> <<>>
      [] basis = "X" -> <<Gate("H", <<q>>)>>
      [] basis = "Y" -> <<Gate("H", <<q>>), Gate("S", <<q>>)>>

=============================================================================
