---------------------------- MODULE MCLeasePool ----------------------------
(* TLC instances of LeasePool over two accounts of equal priority.          *)
(*                                                                          *)
(* The module itself is the pool without administrators; Managed is one     *)
(* with them and one request, so that every section of theirs may fall      *)
(* between any two of the request.  A behaviour is that of one of the two.  *)
EXTENDS LeasePool, TLC

MCPriority == [a \in Accounts |-> 0]

\* Cooldowns of one second, where the code applies one.
MCCoolFor == [c \in Codes |-> {1}]

\* Every request, or none, names the model of the model cooldowns.
MCModelOf == [r \in Requests |-> IF Models = {} THEN NoModel ELSE CHOOSE m \in Models : TRUE]

Symmetry == Permutations(Requests)

CONSTANT Manager  \* the request of the managed pool

VARIABLES managed, nowM, catM, hotM, modelCoolM, pcM, atM, acctM, triedM, metaM,
          patchM, adminM, loadM, barredM, streakM

Managed == INSTANCE LeasePool WITH
  Requests <- {Manager}, Models <- {}, ModelOf <- [r \in {Manager} |-> NoModel],
  Cap <- 1, MaxAttempts <- 2, UnauthorizedAfter <- 1, ForbiddenAfter <- 0,
  PaymentQuarantines <- FALSE, ProxyPool <- FALSE, RequireProxy <- FALSE,
  Codes <- {200, 401}, CoolFor <- [c \in {200, 401} |-> {1}],
  Admin <- AdminOps, MaxClock <- 0, MaxFailures <- 1,
  now <- nowM, cat <- catM, hot <- hotM, modelCool <- modelCoolM, pc <- pcM,
  at <- atM, acct <- acctM, tried <- triedM, meta <- metaM, patch <- patchM,
  admin <- adminM, load <- loadM, barred <- barredM, streak <- streakM

managedVars == <<nowM, catM, hotM, modelCoolM, pcM, atM, acctM, triedM, metaM,
                 patchM, adminM, loadM, barredM, streakM>>

MCInit == managed \in BOOLEAN /\ Init /\ Managed!Init
MCNext ==
  /\ UNCHANGED managed
  /\ \/ ~managed /\ Next /\ UNCHANGED managedVars
     \/ managed /\ Managed!Next /\ UNCHANGED vars
MCSpec == MCInit /\ [][MCNext]_<<managed, vars, managedVars>>

\* A stale index never leads to a lease of a barred account although accounts
\* are disabled, enabled and deleted and the index is rebuilt at any moment.
ManagedNoLeaseWhenBarred == Managed!NoLeaseWhenBarred
=============================================================================
