---------------------------- MODULE TokenRefresh ----------------------------
(***************************************************************************)
(* The refresh service (internal/refresh/service.go, policy.go): callers   *)
(* ask for a token of an account that is fresh (EnsureFresh) or new        *)
(* (ForceRefresh); a scanner queues the accounts about to expire and       *)
(* workers call EnsureFresh on them.  Calls of one kind for one account    *)
(* share a flight (singleflight), which exchanges the refresh token at the *)
(* provider and stores what it gets by compare-and-swap on the revision of *)
(* the catalog row.                                                        *)
(*                                                                         *)
(* Each catalog call holds the catalog's lock and is one action; between   *)
(* two of them leases patch the row, administrators import or delete it,   *)
(* and the other flight of the account proceeds.  Token sets are           *)
(* generations, numbered as the provider issues them.  Times are less      *)
(* SkewSec: a token set is stale when exp < now.                           *)
(***************************************************************************)
EXTENDS Integers, Sequences, FiniteSets

CONSTANTS
    Accounts,         \* account ids, naturals since the scan is ordered by id
    Workers,          \* background workers
    Requesters,       \* callers outside the service, one call each
    Asks,             \* requester -> the keys it may call for, a bound of the model
    Broken,           \* accounts whose refresh token the provider refuses
    Rotates,          \* whether a refresh token is accepted only once
    Exp,              \* account -> expiry of the token set it starts with
    Life,             \* life of a token set the provider issues
    ScanLimit, JobBuffer, QuarantineAfter,
    Others,           \* what others do to the catalog
    MaxClock, MaxRev, MaxFaults   \* bounds of the model

ASSUME AccountsAssumption == Accounts \subseteq Nat /\ IsFiniteSet(Accounts) /\ Broken \subseteq Accounts
ASSUME CallersAssumption == Workers \cap Requesters = {}
ASSUME LimitsAssumption ==
    /\ ScanLimit \in Nat \ {0} /\ JobBuffer \in Nat \ {0} /\ QuarantineAfter \in Nat \ {0}
    /\ Rotates \in BOOLEAN /\ MaxClock \in Nat /\ MaxRev \in Nat /\ MaxFaults \in Nat
ASSUME ExpAssumption == Exp \in [Accounts -> Nat]
\* A token set outlives the flights that were under way when it was issued.
ASSUME LifeAssumption == Life \in Nat /\ Life > MaxClock
ASSUME OthersAssumption == Others \subseteq {"patch", "import", "delete", "reimport"}

VARIABLES
    now,
    row,         \* account -> catalog row
    issued,      \* account -> generations issued so far, by the provider
    valid,       \* account -> refresh tokens the provider accepts
    flight,      \* <<kind, account>> -> flight
    pc,          \* caller -> where it is
    key,         \* caller -> the key it calls for
    done,        \* caller -> whether its context is done
    got,         \* caller -> the token set it was given, or Failed
    scan,        \* what a scan listed and has not queued yet
    jobs,        \* the channel to the workers
    faults,      \* provider faults so far
    spent        \* history: account -> mints of EnsureFresh not lost

rowvars    == <<row, issued, valid>>
callvars   == <<pc, key, done, got>>
queuevars  == <<scan, jobs>>
vars == <<now, row, issued, valid, flight, pc, key, done, got, scan, jobs, faults, spent>>

Callers == Workers \cup Requesters
Kinds == {"ensure", "force"}
Keys == Kinds \X Accounts

ASSUME AsksAssumption == Asks \in [Requesters -> SUBSET Keys]

NoGen == -1
Failed == [gen |-> NoGen, rt |-> NoGen, exp |-> 0]

\* active: enabled and lifecycle active; cu: ConsecutiveUnauthorized; reborn, a
\* history: whether the account was deleted and imported again.
NewRow(a) == [listed |-> TRUE, rev |-> 1, gen |-> 0, rt |-> 0, exp |-> Exp[a],
              active |-> TRUE, cu |-> 0, reborn |-> FALSE]

TokensOf(w) == [gen |-> w.gen, rt |-> w.rt, exp |-> w.exp]

\* A flight: its place, what it read of the row (revision, tokens, count), the
\* tokens it minted, its answer, and, a history, the clock when it began.
NoFlight == [at |-> "none", leader |-> "none", rev |-> 0, mint |-> Failed, cu |-> 0,
             ret |-> Failed, began |-> 0]

NoKey == <<"none", NoGen>>

Fresh(a) == row[a].exp >= now

Init ==
    /\ now = 0
    /\ row = [a \in Accounts |-> NewRow(a)]
    /\ issued = [a \in Accounts |-> 0]
    /\ valid = [a \in Accounts |-> {0}]
    /\ flight = [k \in Keys |-> NoFlight]
    /\ pc = [r \in Callers |-> "idle"]
    /\ key = [r \in Callers |-> NoKey]
    /\ done = [r \in Callers |-> FALSE]
    /\ got = [r \in Callers |-> Failed]
    /\ scan = {}
    /\ jobs = <<>>
    /\ faults = 0
    /\ spent = [a \in Accounts |-> 0]

-----------------------------------------------------------------------------
(* Callers.                                                                *)

\* EnsureFresh reads the row before it goes for the flight; ForceRefresh does
\* not.
Call(r, k) ==
    /\ r \in Requesters /\ pc[r] = "idle" /\ k \in Asks[r]
    /\ pc' = [pc EXCEPT ![r] = IF k[1] = "ensure" THEN "get" ELSE "do"]
    /\ key' = [key EXCEPT ![r] = k]
    /\ UNCHANGED <<now, rowvars, flight, done, got, queuevars, faults, spent>>

\* workerLoop receives a job.
Take(r) ==
    /\ r \in Workers /\ pc[r] = "idle" /\ jobs # <<>>
    /\ jobs' = Tail(jobs)
    /\ pc' = [pc EXCEPT ![r] = "get"]
    /\ key' = [key EXCEPT ![r] = <<"ensure", Head(jobs)>>]
    /\ UNCHANGED <<now, rowvars, flight, done, got, scan, faults, spent>>

\* The callers in S return with the token set t, which workers ignore.
Return(S, t) ==
    /\ pc' = [r \in Callers |-> IF r \notin S THEN pc[r]
                                ELSE IF r \in Workers THEN "idle" ELSE "done"]
    /\ key' = [r \in Callers |-> IF r \in S \cap Workers THEN NoKey ELSE key[r]]
    /\ got' = [r \in Callers |-> IF r \in S \cap Requesters THEN t ELSE got[r]]

Get(r) ==
    /\ pc[r] = "get"
    /\ LET a == key[r][2]
       IN  \/ ~row[a].listed /\ Return({r}, Failed)
           \/ row[a].listed /\ Fresh(a) /\ Return({r}, TokensOf(row[a]))
           \/ row[a].listed /\ ~Fresh(a) /\ pc' = [pc EXCEPT ![r] = "do"] /\ UNCHANGED <<key, got>>
    /\ UNCHANGED <<now, rowvars, flight, done, queuevars, faults, spent>>

\* singleflight.Do: the first caller leads, the others wait for its answer.
Do(r) ==
    LET k == key[r]
    IN  /\ pc[r] = "do"
        /\ pc' = [pc EXCEPT ![r] = "wait"]
        /\ flight' = IF flight[k].at = "none"
                       THEN [flight EXCEPT ![k] = [NoFlight EXCEPT !.at = "read", !.leader = r,
                                                                      !.began = now]]
                       ELSE flight
        /\ UNCHANGED <<now, rowvars, key, done, got, queuevars, faults, spent>>

\* The context of a caller outside ends: its client has gone.
Cancel(r) ==
    /\ r \in Requesters /\ pc[r] \in {"get", "do", "wait"} /\ ~done[r]
    /\ done' = [done EXCEPT ![r] = TRUE]
    /\ UNCHANGED <<now, rowvars, flight, pc, key, got, queuevars, faults, spent>>

Waiting(k) == {r \in Callers : pc[r] = "wait" /\ key[r] = k}

\* Mutant: a leader whose client left takes the flight with it.
Finish_LeaderLeft(k) ==
    /\ flight[k].at = "done"
    /\ Return(IF done[flight[k].leader] THEN {flight[k].leader} ELSE Waiting(k), flight[k].ret)
    /\ flight' = [flight EXCEPT ![k] = NoFlight]
    /\ UNCHANGED <<now, rowvars, done, queuevars, faults, spent>>

\* The flight is over: everybody who waits gets the leader's answer.
Finish(k) ==
    /\ flight[k].at = "done"
    /\ Return(Waiting(k), flight[k].ret)
    /\ flight' = [flight EXCEPT ![k] = NoFlight]
    /\ UNCHANGED <<now, rowvars, done, queuevars, faults, spent>>

-----------------------------------------------------------------------------
(* A flight: the function EnsureFresh and ForceRefresh pass to singleflight *)
(* and refreshAndPersist.                                                  *)

Goto(k, l) == flight' = [flight EXCEPT ![k].at = l]

Answer(k, t) == flight' = [flight EXCEPT ![k].at = "done", ![k].ret = t]

\* Mutant: EnsureFresh does not look again inside the flight.
Read_NoRecheck(k) ==
    LET w == row[k[2]]
    IN  /\ flight[k].at = "read"
        /\ \/ ~w.listed /\ Answer(k, Failed)
           \/ w.listed /\ flight' = [flight EXCEPT ![k].at = "mint", ![k].rev = w.rev,
                                                   ![k].mint = TokensOf(w)]
        /\ UNCHANGED <<now, rowvars, callvars, queuevars, faults, spent>>

\* Only EnsureFresh is content with a token that is fresh by now.
Read(k) ==
    LET w == row[k[2]]
        enough == k[1] = "ensure" /\ Fresh(k[2])
    IN  /\ flight[k].at = "read"
        /\ \/ ~w.listed /\ Answer(k, Failed)
           \/ w.listed /\ enough /\ Answer(k, TokensOf(w))
           \/ w.listed /\ ~enough
              /\ flight' = [flight EXCEPT ![k].at = "mint", ![k].rev = w.rev, ![k].mint = TokensOf(w)]
        /\ UNCHANGED <<now, rowvars, callvars, queuevars, faults, spent>>

\* The context that counts is the leader's, whoever else is waiting.
Abandoned(k) == done[flight[k].leader]

Accepted(k) == k[2] \notin Broken /\ flight[k].mint.rt \in valid[k[2]]

\* What the provider issues for the refresh token of flight k, and what it
\* accepts afterwards; without rotation the refresh token stays.
Issue(k) ==
    LET a == k[2]
        g == issued[a] + 1
        old == flight[k].mint.rt
    IN  [tokens |-> [gen |-> g, rt |-> IF Rotates THEN g ELSE old, exp |-> now + Life],
         valid |-> IF Rotates THEN (valid[a] \ {old}) \cup {g} ELSE valid[a]]

\* oauth.Refresh answered: the flight holds a new token set.
Mint(k) ==
    LET a == k[2]
    IN  /\ flight[k].at = "mint" /\ Accepted(k) /\ ~Abandoned(k)
        /\ issued' = [issued EXCEPT ![a] = @ + 1]
        /\ valid' = [valid EXCEPT ![a] = Issue(k).valid]
        /\ flight' = [flight EXCEPT ![k].at = "persist", ![k].mint = Issue(k).tokens]
        /\ spent' = IF k[1] = "ensure" THEN [spent EXCEPT ![a] = @ + 1] ELSE spent
        /\ UNCHANGED <<now, row, callvars, queuevars, faults>>

\* The provider refused the refresh token, or answered without a token set.
MintRefused(k) ==
    /\ flight[k].at = "mint" /\ ~Accepted(k)
    /\ Goto(k, "fail")
    /\ UNCHANGED <<now, rowvars, callvars, queuevars, faults, spent>>

\* It failed by a fault or because the context ended while it was under way,
\* before or after the provider acted on it.
MintLost(k) ==
    LET a == k[2]
    IN  /\ flight[k].at = "mint" /\ Accepted(k)
        /\ \/ Abandoned(k) /\ UNCHANGED faults
           \/ ~Abandoned(k) /\ faults < MaxFaults /\ faults' = faults + 1
        /\ Goto(k, "fail")
        /\ \/ UNCHANGED <<issued, valid>>
           \/ /\ issued' = [issued EXCEPT ![a] = @ + 1]
              /\ valid' = [valid EXCEPT ![a] = Issue(k).valid]
        /\ UNCHANGED <<now, row, callvars, queuevars, spent>>

\* The token set of flight k is lost.
Unspent(k) == IF k[1] = "ensure" THEN [spent EXCEPT ![k[2]] = @ - 1] ELSE spent

\* The row UpdateTokens leaves.
Updated(w, t) == [w EXCEPT !.rev = @ + 1, !.gen = t.gen, !.rt = t.rt, !.exp = t.exp]

\* Mutant: the update is not conditional on the revision.
Swap_Blind(k) ==
    LET a == k[2]
    IN  /\ row[a].listed
        /\ row' = [row EXCEPT ![a] = Updated(@, flight[k].mint)]
        /\ Goto(k, "good")
        /\ UNCHANGED spent

\* UpdateTokens succeeds.
Swap(k) ==
    LET a == k[2]
    IN  /\ row[a].listed /\ row[a].rev = flight[k].rev
        /\ row' = [row EXCEPT ![a] = Updated(@, flight[k].mint)]
        /\ Goto(k, "good")
        /\ UNCHANGED spent

Conflict(k) == row[k[2]].listed /\ row[k[2]].rev # flight[k].rev

Persist(k) ==
    /\ flight[k].at = "persist"
    /\ \/ Swap(k)
       \/ Conflict(k) /\ Goto(k, "reread") /\ UNCHANGED <<row, spent>>
       \/ ~row[k[2]].listed /\ Goto(k, "fail") /\ spent' = Unspent(k) /\ UNCHANGED row
    /\ UNCHANGED <<now, issued, valid, callvars, queuevars, faults>>

\* After a conflict: a stored token that is fresh is taken for a peer's, and
\* the one just minted is dropped.
Reread(k) ==
    LET w == row[k[2]]
    IN  /\ flight[k].at = "reread"
        /\ \/ ~w.listed /\ Answer(k, Failed) /\ spent' = Unspent(k)
           \/ w.listed /\ Fresh(k[2]) /\ Answer(k, TokensOf(w)) /\ UNCHANGED spent
           \/ w.listed /\ ~Fresh(k[2]) /\ UNCHANGED spent
              /\ flight' = [flight EXCEPT ![k].at = "repersist", ![k].rev = w.rev]
        /\ UNCHANGED <<now, rowvars, callvars, queuevars, faults>>

Repersist(k) ==
    /\ flight[k].at = "repersist"
    /\ \/ Swap(k)
       \/ /\ Conflict(k) \/ ~row[k[2]].listed
          /\ Goto(k, "fail") /\ spent' = Unspent(k) /\ UNCHANGED row
    /\ UNCHANGED <<now, issued, valid, callvars, queuevars, faults>>

\* OnRefreshFailure reads the row, unless the context is done.
Fail(k) ==
    LET w == row[k[2]]
    IN  /\ flight[k].at = "fail"
        /\ \/ (Abandoned(k) \/ ~w.listed) /\ Answer(k, Failed)
           \/ ~Abandoned(k) /\ w.listed
              /\ flight' = [flight EXCEPT ![k].at = "blame", ![k].cu = w.cu + 1]
        /\ UNCHANGED <<now, rowvars, callvars, queuevars, faults, spent>>

\* Mutant: the count is written back only when it reaches the threshold.
Blamed_OnlyAtThreshold(w, cu) ==
    IF cu < QuarantineAfter THEN w
    ELSE [w EXCEPT !.rev = @ + 1, !.cu = cu, !.active = FALSE]

\* The row its PatchHealth leaves.
Blamed(w, cu) ==
    [w EXCEPT !.rev = @ + 1, !.cu = cu, !.active = @ /\ cu < QuarantineAfter]

Blame(k) ==
    LET a == k[2]
    IN  /\ flight[k].at = "blame"
        /\ row' = IF row[a].listed THEN [row EXCEPT ![a] = Blamed(@, flight[k].cu)] ELSE row
        /\ Answer(k, Failed)
        /\ UNCHANGED <<now, issued, valid, callvars, queuevars, faults, spent>>

\* OnRefreshSuccess.
Good(k) ==
    LET a == k[2]
    IN  /\ flight[k].at = "good"
        /\ row' = IF row[a].listed /\ ~Abandoned(k)
                    THEN [row EXCEPT ![a].rev = @ + 1, ![a].cu = 0] ELSE row
        /\ Answer(k, flight[k].mint)
        /\ UNCHANGED <<now, issued, valid, callvars, queuevars, faults, spent>>

FlightStep(k) ==
    \/ Read(k) \/ Mint(k) \/ MintRefused(k) \/ MintLost(k) \/ Persist(k) \/ Reread(k)
    \/ Repersist(k) \/ Fail(k) \/ Blame(k) \/ Good(k) \/ Finish(k)

-----------------------------------------------------------------------------
(* The scanner.                                                            *)

\* The rows ListExpiring selects; a cooldown does not matter to it.
Expiring(a) == row[a].listed /\ row[a].active /\ ~Fresh(a)

Earlier(p, q) == p[1] < q[1] \/ (p[1] = q[1] /\ p[2] < q[2])

\* ListExpiring: the first ScanLimit of them by expiry, then id.
Listing ==
    LET all == {<<row[a].exp, a>> : a \in {b \in Accounts : Expiring(b)}}
    IN  {p \in all : Cardinality({q \in all : Earlier(q, p)}) < ScanLimit}

ScanList ==
    /\ scan = {}
    /\ scan' = Listing
    /\ UNCHANGED <<now, rowvars, flight, callvars, jobs, faults, spent>>

\* A full channel ends the round.
ScanPush ==
    /\ scan # {}
    /\ \/ /\ Len(jobs) < JobBuffer
          /\ \E p \in scan : /\ \A q \in scan \ {p} : Earlier(p, q)
                             /\ jobs' = Append(jobs, p[2])
                             /\ scan' = scan \ {p}
       \/ /\ Len(jobs) >= JobBuffer
          /\ scan' = {}
          /\ UNCHANGED jobs
    /\ UNCHANGED <<now, rowvars, flight, callvars, faults, spent>>

-----------------------------------------------------------------------------
(* Others.                                                                 *)

\* PatchHealth, SetProxy and BatchSetManualEnabled of leases and
\* administrators.  The count of failures is the one of the leases too: they
\* raise it on a 401, which may quarantine, and reset it on a success.
Patch(a) ==
    /\ "patch" \in Others /\ row[a].listed /\ row[a].rev < MaxRev
    /\ \E cu \in {0, row[a].cu, row[a].cu + 1}, act \in BOOLEAN :
           row' = [row EXCEPT ![a].rev = @ + 1, ![a].cu = cu, ![a].active = act]
    /\ UNCHANGED <<now, issued, valid, flight, callvars, queuevars, faults, spent>>

\* UpsertImportedMany of a token set obtained elsewhere.
Import(a) ==
    LET g == issued[a] + 1
    IN  /\ "import" \in Others /\ row[a].listed /\ row[a].rev < MaxRev
        /\ issued' = [issued EXCEPT ![a] = g]
        /\ valid' = [valid EXCEPT ![a] = @ \cup {g}]
        /\ row' = [row EXCEPT ![a] = Updated(@, [gen |-> g, rt |-> g, exp |-> now + Life])]
        /\ UNCHANGED <<now, flight, callvars, queuevars, faults, spent>>

Delete(a) ==
    /\ "delete" \in Others /\ row[a].listed
    /\ row' = [row EXCEPT ![a].listed = FALSE]
    /\ UNCHANGED <<now, issued, valid, flight, callvars, queuevars, faults, spent>>

\* UpsertImportedMany of an account that was deleted: a new row, whose revision
\* is 1 again.
Reimport(a) ==
    LET g == issued[a] + 1
        t == [gen |-> g, rt |-> g, exp |-> now + Life]
    IN  /\ "reimport" \in Others /\ ~row[a].listed /\ issued[a] < MaxRev
        /\ issued' = [issued EXCEPT ![a] = g]
        /\ valid' = [valid EXCEPT ![a] = @ \cup {g}]
        /\ row' = [row EXCEPT ![a] = [Updated(NewRow(a), t) EXCEPT !.rev = 1,
                                                                   !.reborn = TRUE]]
        /\ UNCHANGED <<now, flight, callvars, queuevars, faults, spent>>

Tick ==
    /\ now < MaxClock
    /\ now' = now + 1
    /\ UNCHANGED <<rowvars, flight, callvars, queuevars, faults, spent>>

Next ==
    \/ \E r \in Callers, k \in Keys : Call(r, k)
    \/ \E r \in Callers : Take(r) \/ Get(r) \/ Do(r) \/ Cancel(r)
    \/ \E k \in Keys : FlightStep(k)
    \/ ScanList \/ ScanPush
    \/ \E a \in Accounts : Patch(a) \/ Import(a) \/ Delete(a) \/ Reimport(a)
    \/ Tick

Spec == Init /\ [][Next]_vars

\* Goroutines that can run do: workers, scanner, callers and flights.  Time,
\* clients, administrators and leases owe nothing.
Fairness ==
    /\ \A r \in Callers : WF_vars(Take(r) \/ Get(r) \/ Do(r))
    /\ \A k \in Keys : WF_vars(FlightStep(k))
    /\ WF_vars(ScanList) /\ WF_vars(ScanPush)

FairSpec == Spec /\ Fairness

-----------------------------------------------------------------------------
(* Properties.                                                             *)

Tokens == [gen : Nat \cup {NoGen}, rt : Nat \cup {NoGen}, exp : Nat]

Issued == [gen : Nat, rt : Nat, exp : Nat]

\* Where a flight holds a token set it minted.
Minted == {"persist", "reread", "repersist", "good"}

Places == {"none", "read", "mint", "persist", "reread", "repersist", "fail", "blame", "good", "done"}

TypeOK ==
    /\ now \in 0..MaxClock
    /\ row \in [Accounts -> [listed : BOOLEAN, rev : Nat, gen : Nat, rt : Nat, exp : Nat,
                             active : BOOLEAN, cu : Nat, reborn : BOOLEAN]]
    /\ issued \in [Accounts -> Nat]
    /\ valid \in [Accounts -> SUBSET Nat]
    /\ flight \in [Keys -> [at : Places, leader : Callers \cup {"none"}, rev : Nat,
                            mint : Tokens, cu : Nat, ret : Tokens, began : Nat]]
    /\ \A k \in Keys : flight[k].at # "none" => flight[k].leader \in Callers
    /\ \A k \in Keys : flight[k].at \in Minted => flight[k].mint \in Issued
    /\ pc \in [Callers -> {"idle", "get", "do", "wait", "done"}]
    /\ key \in [Callers -> Keys \cup {NoKey}]
    /\ \A r \in Callers : pc[r] # "idle" => key[r] \in Keys
    /\ done \in [Callers -> BOOLEAN]
    /\ got \in [Callers -> Tokens]
    /\ scan \subseteq Nat \X Accounts
    /\ jobs \in Seq(Accounts)
    /\ faults \in Nat
    /\ spent \in [Accounts -> Int]

\* The token set of an account is never replaced by one issued before it,
\* whichever of an EnsureFresh, a ForceRefresh and an import stores last: the
\* older refresh token may be void, and the account with it.  Only a deleted
\* account that is imported again under a flight escapes the revision check.
MonotoneTokens == [][\A a \in Accounts : row[a].reborn \/ row'[a].gen >= row[a].gen]_vars

\* However many callers find an account stale, the refresh token is exchanged
\* once for all of them, unless what it bought could not be stored.
EnsureMintsOnce == \A a \in Accounts : spent[a] <= 1

\* EnsureFresh never answers with a token set that was stale when its flight
\* began, even when the row changed under the flight.
EnsureAnswersFresh ==
    \A a \in Accounts :
        LET f == flight[<<"ensure", a>>]
        IN  f.at = "done" /\ f.ret # Failed => f.ret.exp >= f.began

\* EnsureFresh serves every caller a fresh token out of one exchange.
EnsureServes == EnsureMintsOnce /\ EnsureAnswersFresh

\* An account about to expire is refreshed or leaves the pool: one whose
\* refresh always fails does not keep the others from being scanned for ever.
ExpiringResolved == \A a \in Accounts : Expiring(a) ~> ~Expiring(a)

\* Every caller is answered, with a token set or without: also one that waits for
\* a leader whose client left, and whose exchange was lost with it, and one whose
\* own client left.
CallersAnswered == \A r \in Requesters : pc[r] # "idle" ~> pc[r] = "done"

\* service.go:346: ForceRefresh is not content with the access token that is
\* stored because it is still fresh; generation 0 is the one it was to replace.
ForceMints ==
    \A r \in Requesters :
        pc[r] = "done" /\ key[r][1] = "force" /\ got[r] # Failed => got[r].gen > 0
=============================================================================
