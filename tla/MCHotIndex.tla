----------------------------- MODULE MCHotIndex -----------------------------
(* TLC instance of HotIndex: three accounts of two priorities and capacities *)
(* up to two, so that Promote has to choose a victim.                        *)
EXTENDS HotIndex, TLC

MCPriority == (1 :> 0) @@ (2 :> 0) @@ (3 :> 1)
=============================================================================
