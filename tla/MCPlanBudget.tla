---------------------------- MODULE MCPlanBudget ----------------------------
(* Two contents whose tables are of different size. *)
EXTENDS PlanBudget, TLC

CONSTANTS c1, c2

MCTableBytes == (c1 :> 1) @@ (c2 :> 2)

=============================================================================
