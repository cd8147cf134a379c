---------------------------- MODULE MCQuotaGate ----------------------------
(* TLC instances of QuotaGate.                                              *)
(*                                                                          *)
(* The module itself has no rate limit: slots and quota under changing      *)
(* limits.  Rated is a gate with one, a clock and the operations the other  *)
(* leaves out.  A behaviour is that of one of the two.                      *)
EXTENDS QuotaGate, TLC

CONSTANTS RatedRequests
Symmetry == Permutations(Requests) \cup Permutations(RatedRequests)

VARIABLES rated, nowR, tokR, inflightR, winR, droppingR, limiterR, pcR, tidR,
          maxR, dueR, grantsR, forfeitedR

Rated == INSTANCE QuotaGate WITH
  Requests <- RatedRequests, Costs <- {1}, Grant <- 5, MaxConcurrent <- 1, RPM <- 1,
  GlobalMax <- 0, Admin <- {"limiter", "expire", "unlimited"}, Caps <- {0, 1},
  Minute <- 3, MaxClock <- 6, MaxGrants <- 5,
  now <- nowR, tok <- tokR, inflight <- inflightR, win <- winR, dropping <- droppingR,
  limiter <- limiterR, pc <- pcR, tid <- tidR, max <- maxR, due <- dueR,
  grants <- grantsR, forfeited <- forfeitedR

ratedVars == <<nowR, tokR, inflightR, winR, droppingR, limiterR, pcR, tidR, maxR,
               dueR, grantsR, forfeitedR>>

MCInit == rated \in BOOLEAN /\ Init /\ Rated!Init
MCNext ==
  /\ UNCHANGED rated
  /\ \/ ~rated /\ Next /\ UNCHANGED ratedVars
     \/ rated /\ Rated!Next /\ UNCHANGED vars
MCSpec == MCInit /\ [][MCNext]_<<rated, vars, ratedVars>>

\* At most twice the rate passes in any minute, since windows are fixed.
RatedWithinTwice == Rated!RateWithinTwice
=============================================================================
