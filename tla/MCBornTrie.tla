---------------------------- MODULE MCBornTrie ----------------------------
(* A plan of three directions, and one of one direction: the same root up  *)
(* to its sign.                                                            *)
EXTENDS BornTrie, TLC

CONSTANTS p1, p2, x1, x2

MCLam == (p1 :> << [axis |-> x1, sign |-> 0], [axis |-> x2, sign |-> 0],
                   [axis |-> x1, sign |-> 1] >>)
      @@ (p2 :> << [axis |-> x1, sign |-> 1] >>)

=============================================================================
