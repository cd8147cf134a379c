--------------------------- MODULE MCTokenRefresh ---------------------------
(* TLC instances of TokenRefresh.  All accounts expire together, so that    *)
(* the scan orders them by id.                                               *)
EXTENDS TokenRefresh, TLC

MCExp == [a \in Accounts |-> 0]

\* Any call, or only those that share the flight of the healthy account.
MCAnyKey == [r \in Requesters |-> Keys]
MCOneKey == [r \in Requesters |-> {<<"ensure", 2>>}]

Symmetry == Permutations(Requesters)
=============================================================================
