----------------------------- MODULE MCShotLoop -----------------------------
(* Two seeds and three channels: the first may fire at every shot, the     *)
(* second at some, the third is term-routed.                               *)
EXTENDS ShotLoop, TLC

CONSTANTS s1, s2

MCFires ==
    (s1 :> << (0 :> 0 @@ 1 :> 1 @@ 2 :> 3 @@ 3 :> 4 @@ 4 :> 6 @@ 5 :> 9),
              (0 :> 1 @@ 1 :> 2 @@ 2 :> 4 @@ 3 :> 5 @@ 4 :> 7 @@ 5 :> 9),
              (0 :> 2 @@ 1 :> 4 @@ 2 :> 7 @@ 3 :> 8 @@ 4 :> 9 @@ 5 :> 10) >>)
 @@ (s2 :> << (0 :> 1 @@ 1 :> 4 @@ 2 :> 7 @@ 3 :> 8 @@ 4 :> 9 @@ 5 :> 10),
              (0 :> 0 @@ 1 :> 1 @@ 2 :> 2 @@ 3 :> 3 @@ 4 :> 6 @@ 5 :> 9),
              (0 :> 5 @@ 1 :> 6 @@ 2 :> 7 @@ 3 :> 8 @@ 4 :> 9 @@ 5 :> 10) >>)

MCEarlyBad == {{2}}
MCBad == {{2}, {1, 2}}

=============================================================================
