----------------------------- MODULE MCSelector -----------------------------
(* TLC instance of Selector: three accounts in two priority layers, one key *)
(* more than the table can hold and two picks at once.                      *)
EXTENDS Selector, TLC

CONSTANTS a1, a2, a3

MCPriority == (a1 :> 2) @@ (a2 :> 2) @@ (a3 :> 1)
MCRank == (a1 :> 1) @@ (a2 :> 2) @@ (a3 :> 3)
MCTried == {{}, {a1}}

Symmetry == Permutations(Pickers) \cup Permutations(Keys)
=============================================================================
