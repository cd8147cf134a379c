------------------------------- MODULE MCCluster -------------------------------
EXTENDS Cluster, Naturals, TLC

CONSTANTS w1, w2, r1, r2, r3

\* Two requests meet in one worker, a third comes through the other.
MCWorkerOf == (r1 :> w1) @@ (r2 :> w2) @@ (r3 :> w2)
==============================================================================
