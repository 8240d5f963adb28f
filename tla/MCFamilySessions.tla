------------------------- MODULE MCFamilySessions --------------------------
(* Two threads, a sampler with three branches of an empty E_min and one   *)
(* with a per-E consumer; the payload of the third is as large as those of  *)
(* the others, and the budget, together.                                    *)
EXTENDS FamilySessions

CONSTANTS t1, t2, ideal, p, q, s, r, plain, rowsE, none, nobody

MCEmin == p :> plain @@ q :> plain @@ s :> plain @@ r :> rowsE
MCBytes == p :> 1 @@ q :> 1 @@ s :> 2 @@ r :> 1
MCAsks == {<<0>>, <<1, 0>>, <<3, 1, 2>>, <<2, 3>>}

=============================================================================
