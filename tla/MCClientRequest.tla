---------------------------- MODULE MCClientRequest ----------------------------
(* One request with a Refresher and one without, over three accounts;
   the first may draw three leases, the second one.                           *)
EXTENDS ClientRequest, TLC

CONSTANTS p1, p2

MCMaxAttempts == (p1 :> 3) @@ (p2 :> 1)
================================================================================
