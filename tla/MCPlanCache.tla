---------------------------- MODULE MCPlanCache ----------------------------
(* The plan cache with two diagonal keys, one arena key and three plan files. *)
EXTENDS PlanCache

CONSTANTS d1, d2, g1

MCFiles == {<<>>, <<d2>>, <<d1, g1>>}

=============================================================================
