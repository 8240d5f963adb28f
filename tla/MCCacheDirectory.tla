------------------------- MODULE MCCacheDirectory ---------------------------
(* Two threads of one process and a third of another, whose sampler has the *)
(* same circuit and other term axes; circuits of one key from two files.     *)
EXTENDS CacheDirectory, FiniteSets, TLC

CONSTANTS t1, t2, t3, one, two, k1, k2, k3, a, b

MCProcess == t1 :> one @@ t2 :> one @@ t3 :> two
Law(term) == [engine |-> "e", group |-> "g", term |-> term]
MCLawOf == t1 :> Law("a") @@ t2 :> Law("a") @@ t3 :> Law("b")
MCSize == [S \in SUBSET {k1, k2, k3} |-> Cardinality(S) + 1]
MCKeys == Law("a") :> {k1, k2} @@ Law("b") :> {k3}

=============================================================================
