----------------------------- MODULE LeasePool -----------------------------
(***************************************************************************)
(* The lease manager (internal/lease/lease.go) at work on the catalog, the *)
(* durable table of accounts, and on the hot index, the in-memory copy the *)
(* selector picks from, while administrators disable, enable and delete    *)
(* accounts (internal/admin/accounts.go) and a timer rebuilds the index    *)
(* (internal/app/server.go).                                               *)
(*                                                                         *)
(* Catalog and index each have a lock of their own and no operation holds  *)
(* both, so Acquire and Release are sequences of critical sections; each   *)
(* of them is one action here, and pc says which one a request is about to *)
(* enter.  What a request read in an earlier section it keeps in acct,     *)
(* meta and patch, and may find overtaken in the next one.                 *)
(*                                                                         *)
(* The choice among eligible accounts (strategy, score and session         *)
(* stickiness) is left open: Pick takes any of them.                       *)
(***************************************************************************)
EXTENDS HotOps

CONSTANTS
    Requests,           \* concurrent requests
    Models, NoModel,    \* models with cooldowns of their own; "" for none
    ModelOf,            \* request -> model it asks for, or NoModel
    Cap,                \* capacity of the hot index
    MaxInflight,        \* hard cap on concurrent leases per account, 0 = none
    MaxAttempts,        \* picks per Acquire
    UnauthorizedAfter,  \* consecutive 401 that quarantine an account
    ForbiddenAfter,     \* consecutive 403 that do, 0 = never
    PaymentQuarantines, \* whether a 402 does
    ProxyPool,          \* whether a proxy pool assigns proxies
    RequireProxy,       \* whether an account without proxy may be leased
    Codes,              \* outcomes of a request
    CoolFor,            \* code -> seconds of cooldown it may cause
    Admin,              \* operations administrators and timer perform
    MaxClock, MaxFailures   \* bounds of the model

ASSUME RequestsAssumption == IsFiniteSet(Requests)
ASSUME ModelsAssumption == NoModel \notin Models /\ ModelOf \in [Requests -> Models \cup {NoModel}]
ASSUME LimitsAssumption ==
    /\ Cap \in Nat \ {0} /\ MaxInflight \in Nat /\ MaxAttempts \in Nat \ {0}
    /\ UnauthorizedAfter \in Nat \ {0} /\ ForbiddenAfter \in Nat
    /\ MaxClock \in Nat /\ MaxFailures \in Nat
ASSUME SwitchAssumption ==
    PaymentQuarantines \in BOOLEAN /\ ProxyPool \in BOOLEAN /\ RequireProxy \in BOOLEAN

OK == 200
Cancelled == 499   \* Release called with a context that is done
ASSUME CodesAssumption ==
    /\ Codes \subseteq {OK, Cancelled, 0, 401, 402, 403, 429, 500}
    /\ CoolFor \in [Codes -> SUBSET (Nat \ {0})]

AdminOps == {"disable", "enable", "delete", "reload"}
ASSUME AdminAssumption == Admin \subseteq AdminOps

VARIABLES
    now,        \* unix seconds
    cat,        \* account -> catalog row
    hot,        \* hot account -> Meta
    modelCool,  \* <<account, model>> -> until
    pc,         \* request -> critical section it enters next
    at,         \* request -> the clock when it picked, while it is checked
    acct,       \* request -> account picked
    tried,      \* request -> accounts this Acquire picked so far
    meta,       \* request -> HotMeta returned by its last idx.Get
    patch,      \* request -> the HealthPatch it is about to write
    admin,      \* what the administrator still has to do in the index
    load,       \* what a running LoadEligible copied and listed
    barred,     \* history: accounts that were barred when it picked
    streak      \* history: account -> 401 answers since its last success

catvars  == <<cat, modelCool>>
reqvars  == <<pc, at, acct, tried, meta, patch>>
sysvars  == <<admin, load>>
histvars == <<barred, streak>>
vars == <<now, cat, hot, modelCool, pc, at, acct, tried, meta, patch, admin, load, barred, streak>>

\* A catalog row; listed is FALSE once the row is deleted.
Row == [listed : BOOLEAN, enabled : BOOLEAN, quarantined : BOOLEAN, proxied : BOOLEAN,
        coolUntil : Nat, failure : Nat, unauthorized : Nat, forbidden : BOOLEAN]

NewRow == [listed |-> TRUE, enabled |-> TRUE, quarantined |-> FALSE, proxied |-> FALSE,
           coolUntil |-> 0, failure |-> 0, unauthorized |-> 0, forbidden |-> FALSE]

NoTime == -1
NoPatch == [code |-> OK, failure |-> 0, unauthorized |-> 0, coolUntil |-> NoTime,
            quarantine |-> FALSE]

MetaOf(row) == [enabled |-> row.enabled, quarantined |-> row.quarantined,
                coolUntil |-> row.coolUntil, failure |-> row.failure, inflight |-> 0]

NoAdmin == [op |-> "idle", acct |-> NoAccount, meta |-> FreshMeta]
NoLoad == [pc |-> "idle", saved |-> [a \in {} |-> 0], metas |-> [a \in {} |-> FreshMeta]]

-----------------------------------------------------------------------------
(* Eligibility.                                                            *)

\* The row may be leased, cooldowns apart.
Leasable(row) == row.listed /\ row.enabled /\ ~row.quarantined

\* accountUsable, and the filter of ListEligible.
Usable(row, t) == Leasable(row) /\ row.coolUntil <= t

ModelCooling(a, m, t) == m # NoModel /\ modelCool[<<a, m>>] > t

\* What nobody but an administrator or time undoes: the row is not leasable,
\* or the model r asks for is cooling on it at time t.
Barred(a, r, t) == ~Leasable(cat[a]) \/ ModelCooling(a, ModelOf[r], t)

\* The check of acquireOnce at time t.
Refused(a, r, t) == ~Usable(cat[a], t) \/ ModelCooling(a, ModelOf[r], t)

Better(a, b) == Priority[a] > Priority[b] \/ (Priority[a] = Priority[b] /\ a < b)

\* What ListEligible returns: the first Cap usable rows by priority, then id.
Listing == {a \in Accounts :
                /\ Usable(cat[a], now)
                /\ Cardinality({b \in Accounts : Usable(cat[b], now) /\ Better(b, a)}) < Cap}

Init ==
    /\ now = 0
    /\ cat = [a \in Accounts |-> NewRow]
    /\ hot = [a \in Listing |-> FreshMeta]
    /\ modelCool = [p \in Accounts \X Models |-> 0]
    /\ pc = [r \in Requests |-> "idle"]
    /\ at = [r \in Requests |-> 0]
    /\ acct = [r \in Requests |-> NoAccount]
    /\ tried = [r \in Requests |-> {}]
    /\ meta = [r \in Requests |-> FreshMeta]
    /\ patch = [r \in Requests |-> NoPatch]
    /\ admin = NoAdmin
    /\ load = NoLoad
    /\ barred = [r \in Requests |-> {}]
    /\ streak = [a \in Accounts |-> 0]

Goto(r, l) == pc' = [pc EXCEPT ![r] = l]

\* The request is over: its local state goes with its stack frame.
Finish(r) ==
    /\ Goto(r, "idle")
    /\ acct' = [acct EXCEPT ![r] = NoAccount]
    /\ tried' = [tried EXCEPT ![r] = {}]
    /\ meta' = [meta EXCEPT ![r] = FreshMeta]
    /\ patch' = [patch EXCEPT ![r] = NoPatch]

-----------------------------------------------------------------------------
(* Acquire.                                                                *)

\* PickExcluding, then tried[id] = {}.
Pick(r, a) ==
    /\ pc[r] = "idle" \/ pc[r] = "pick"
    /\ a \in DOMAIN hot \ tried[r]
    /\ Eligible(hot[a], now, MaxInflight)
    /\ Goto(r, "check")
    /\ acct' = [acct EXCEPT ![r] = a]
    /\ tried' = [tried EXCEPT ![r] = @ \cup {a}]
    /\ at' = [at EXCEPT ![r] = now]
    /\ barred' = [barred EXCEPT ![r] = {b \in Accounts : Barred(b, r, now)}]
    /\ UNCHANGED <<now, cat, hot, modelCool, meta, patch, sysvars, streak>>

\* ErrNoAccount: Acquire gives up at once.
PickNone(r) ==
    /\ pc[r] = "idle" \/ pc[r] = "pick"
    /\ \A a \in DOMAIN hot \ tried[r] : ~Eligible(hot[a], now, MaxInflight)
    /\ Finish(r)
    /\ UNCHANGED <<now, at, hot, catvars, sysvars, histvars>>

\* Any other failure of acquireOnce: another pick while attempts remain.
SoftFailure(r) ==
    IF Cardinality(tried[r]) < MaxAttempts
      THEN Goto(r, "pick") /\ UNCHANGED <<acct, tried, meta, patch>>
      ELSE Finish(r)

\* The rest of acquireOnce before AddInflight for an account that may be
\* leased.  The pool may have a proxy for it, which SetProxy stores.
Egress(r) ==
    LET a == acct[r]
    IN  \/ /\ ProxyPool /\ ~cat[a].proxied
           /\ cat' = [cat EXCEPT ![a].proxied = TRUE]
           /\ Goto(r, "bindGet")
           /\ UNCHANGED <<acct, tried, meta, patch>>
        \/ /\ ~cat[a].proxied
           /\ UNCHANGED cat
           /\ IF RequireProxy THEN SoftFailure(r)
              ELSE Goto(r, "add") /\ UNCHANGED <<acct, tried, meta, patch>>
        \/ /\ cat[a].proxied
           /\ Goto(r, "add")
           /\ UNCHANGED <<cat, acct, tried, meta, patch>>

\* Mutant: the catalog row is not checked again after the pick.
Check_TrustsIndex(r) ==
    /\ pc[r] = "check"
    /\ at' = [at EXCEPT ![r] = 0]
    /\ \/ ~cat[acct[r]].listed /\ SoftFailure(r) /\ UNCHANGED cat
       \/ cat[acct[r]].listed /\ Egress(r)
    /\ UNCHANGED <<now, hot, modelCool, sysvars, histvars>>

\* cat.Get, accountUsable and modelCooldownActive, with the clock of the pick.
Check(r) ==
    /\ pc[r] = "check"
    /\ at' = [at EXCEPT ![r] = 0]
    /\ \/ Refused(acct[r], r, at[r]) /\ SoftFailure(r) /\ UNCHANGED cat
       \/ ~Refused(acct[r], r, at[r]) /\ Egress(r)
    /\ UNCHANGED <<now, hot, modelCool, sysvars, histvars>>

\* idx.AddInflight: fails when the account was demoted after the pick.  Counts
\* may leak (index.go:148); MaxLeak bounds by how much, for TLC's sake.
MaxLeak == Cardinality(Requests)

AddInflight(r) ==
    /\ pc[r] = "add"
    /\ \/ /\ acct[r] \in DOMAIN hot /\ hot[acct[r]].inflight <= MaxLeak
          /\ hot' = Incremented(hot, acct[r])
          /\ Goto(r, "held")
          /\ tried' = [tried EXCEPT ![r] = {}]
          /\ UNCHANGED <<acct, meta, patch>>
       \/ /\ acct[r] \notin DOMAIN hot
          /\ SoftFailure(r)
          /\ UNCHANGED hot
    /\ UNCHANGED <<now, at, catvars, sysvars, histvars>>

-----------------------------------------------------------------------------
(* Copies of the hot entry: meta, ok := idx.Get(id), and later, with some   *)
(* fields changed, idx.Promote(meta).                                       *)

\* The section that follows each idx.Get.
After == [bindGet |-> "bindPut", quarGet |-> "quarPut", syncGet |-> "syncPut"]

\* Where the caller goes on when the account is not hot, or after Promote.
Then == [bindGet |-> "add", quarGet |-> "patch", syncGet |-> "done",
         bindPut |-> "add", quarPut |-> "patch", syncPut |-> "done"]

Return(r) ==
    IF Then[pc[r]] = "done" THEN Finish(r)
    ELSE /\ Goto(r, Then[pc[r]])
         /\ meta' = [meta EXCEPT ![r] = FreshMeta]
         /\ UNCHANGED <<acct, tried, patch>>

GetHot(r) ==
    /\ pc[r] \in DOMAIN After
    /\ \/ /\ acct[r] \in DOMAIN hot
          /\ meta' = [meta EXCEPT ![r] = hot[acct[r]]]
          /\ Goto(r, After[pc[r]])
          /\ UNCHANGED <<acct, tried, patch>>
       \/ /\ acct[r] \notin DOMAIN hot
          /\ Return(r)
    /\ UNCHANGED <<now, at, hot, catvars, sysvars, histvars>>

\* The fields the caller of Promote overwrites in its copy.
Edited(r) ==
    LET p == patch[r]
        base == meta[r]
        cooled == IF p.coolUntil # NoTime THEN [base EXCEPT !.coolUntil = p.coolUntil] ELSE base
        barredNow == IF p.quarantine THEN [cooled EXCEPT !.enabled = FALSE, !.quarantined = TRUE]
                     ELSE cooled
    IN  CASE pc[r] = "bindPut" -> base
          [] pc[r] = "quarPut" -> barredNow
          [] pc[r] = "syncPut" -> [barredNow EXCEPT !.failure = p.failure]

PutHot(r) ==
    /\ pc[r] \in {"bindPut", "quarPut", "syncPut"}
    /\ hot' \in Promoted(hot, Cap, acct[r], Edited(r))
    /\ Return(r)
    /\ UNCHANGED <<now, at, catvars, sysvars, histvars>>

-----------------------------------------------------------------------------
(* Release.                                                                *)

\* SubInflight comes first, whatever the outcome; ErrNotFound is ignored.
Subtracted(a) == IF a \in DOMAIN hot THEN Decremented(hot, a) ELSE hot

\* The history of 401 answers, up to the threshold.
Counted(a, code) ==
    streak' = [streak EXCEPT ![a] = CASE code = OK -> 0
                                      [] code = 401 /\ @ < UnauthorizedAfter -> @ + 1
                                      [] OTHER -> @]

\* Mutant: the early return on a cancelled context skips SubInflight.
Release_LeaksOnCancel(r, code) ==
    /\ pc[r] = "held"
    /\ code \in {OK, Cancelled} \/ cat[acct[r]].failure < MaxFailures
    /\ \/ /\ code = Cancelled
          /\ Finish(r)
          /\ UNCHANGED hot
       \/ /\ code # Cancelled
          /\ hot' = Subtracted(acct[r])
          /\ Goto(r, "health")
          /\ patch' = [patch EXCEPT ![r] = [NoPatch EXCEPT !.code = code]]
          /\ UNCHANGED <<acct, tried, meta>>
    /\ Counted(acct[r], code)
    /\ UNCHANGED <<now, at, catvars, sysvars, barred>>

Release(r, code) ==
    /\ pc[r] = "held"
    /\ code \in {OK, Cancelled} \/ cat[acct[r]].failure < MaxFailures
    /\ hot' = Subtracted(acct[r])
    /\ \/ /\ code = Cancelled
          /\ Finish(r)
       \/ /\ code # Cancelled
          /\ Goto(r, "health")
          /\ patch' = [patch EXCEPT ![r] = [NoPatch EXCEPT !.code = code]]
          /\ UNCHANGED <<acct, tried, meta>>
    /\ Counted(acct[r], code)
    /\ UNCHANGED <<now, at, catvars, sysvars, barred>>

\* decayFailureCount.
Decayed(fc) == IF fc <= 0 THEN 0 ELSE (fc - 1) \div 2

\* releaseSuccess up to PatchHealth: the counters are read here and written
\* back by Patch, in another section.
ReadHealthOK(r) ==
    /\ pc[r] = "health" /\ patch[r].code = OK
    /\ Goto(r, "patch")
    /\ patch' = [patch EXCEPT ![r].failure =
                    IF cat[acct[r]].listed THEN Decayed(cat[acct[r]].failure) ELSE 0]
    /\ UNCHANGED <<now, at, hot, catvars, acct, tried, meta, sysvars, histvars>>

\* Whether releaseFailure quarantines, by the row it has read.  The 403 streak
\* is the failure count of any cause once the last error was a 403.
Quarantines(row, code) ==
    \/ code = 401 /\ row.unauthorized + 1 >= UnauthorizedAfter
    \/ /\ code = 403 /\ ForbiddenAfter > 0
       /\ (IF row.forbidden THEN IF row.failure + 1 < 2 THEN 2 ELSE row.failure + 1 ELSE 1)
             >= ForbiddenAfter
    \/ code = 402 /\ PaymentQuarantines

CoolingCodes == {401, 402, 403, 429}

\* releaseFailure up to the index update: cat.Get, then SetCooldown, or the
\* cooldown of the model alone when a 429 names one.
ReadHealthFailed(r) ==
    LET a == acct[r]
        code == patch[r].code
        row == cat[a]
        perModel == code = 429 /\ ModelOf[r] # NoModel
    IN  /\ pc[r] = "health" /\ code # OK
        /\ \/ /\ ~row.listed
              /\ Finish(r)
              /\ UNCHANGED <<hot, modelCool>>
           \/ /\ row.listed
              /\ \E d \in CoolFor[code] :
                    LET until == IF code \in CoolingCodes /\ ~perModel THEN now + d ELSE NoTime
                    IN  /\ patch' = [patch EXCEPT ![r] =
                                        [code |-> code, failure |-> row.failure + 1,
                                         unauthorized |-> row.unauthorized + 1, coolUntil |-> until,
                                         quarantine |-> Quarantines(row, code)]]
                        /\ hot' = IF until # NoTime /\ a \in DOMAIN hot
                                    THEN [hot EXCEPT ![a].coolUntil = until] ELSE hot
                        /\ modelCool' = IF perModel
                                          THEN [modelCool EXCEPT ![<<a, ModelOf[r]>>] = now + d]
                                          ELSE modelCool
              /\ Goto(r, IF Quarantines(row, code) THEN "quarGet" ELSE "patch")
              /\ UNCHANGED <<acct, tried, meta>>
    /\ UNCHANGED <<now, at, cat, sysvars, histvars>>

\* Mutant: the switches are written back as the release read them.
Patched_Overwrites(row, p) ==
    [row EXCEPT !.failure = p.failure, !.forbidden = (p.code = 403),
                !.enabled = ~p.quarantine, !.quarantined = p.quarantine]

\* The row PatchHealth leaves: nil fields of the patch keep their value.
Patched(row, p) ==
    [listed |-> row.listed, proxied |-> row.proxied,
     failure |-> p.failure,
     forbidden |-> (p.code = 403),
     unauthorized |-> IF p.code = OK THEN 0
                      ELSE IF p.code = 401 THEN p.unauthorized ELSE row.unauthorized,
     coolUntil |-> IF p.coolUntil # NoTime THEN p.coolUntil ELSE row.coolUntil,
     enabled |-> row.enabled /\ ~p.quarantine,
     quarantined |-> row.quarantined \/ p.quarantine]

\* cat.PatchHealth: ErrNotFound ends the release.
Patch(r) ==
    LET a == acct[r]
    IN  /\ pc[r] = "patch"
        /\ \/ /\ ~cat[a].listed
              /\ Finish(r)
              /\ UNCHANGED cat
           \/ /\ cat[a].listed
              /\ cat' = [cat EXCEPT ![a] = Patched(@, patch[r])]
              /\ Goto(r, "syncGet")
              /\ UNCHANGED <<acct, tried, meta, patch>>
        /\ UNCHANGED <<now, at, hot, modelCool, sysvars, histvars>>

-----------------------------------------------------------------------------
(* Administrators and the reload timer.                                    *)

\* setAccountManual and BatchAccounts, first section: the catalog row.
AdminWrites(op, a) ==
    /\ admin.op = "idle" /\ op \in Admin \ {"reload"} /\ cat[a].listed
    /\ cat' = [cat EXCEPT ![a].enabled = op = "enable" \/ (@ /\ op # "disable"),
                          ![a].listed = (op # "delete")]
    /\ admin' = [NoAdmin EXCEPT !.op = op, !.acct = a]
    /\ barred' = IF op = "enable" THEN [r \in Requests |-> barred[r] \ {a}] ELSE barred
    /\ UNCHANGED <<now, hot, modelCool, reqvars, load, streak>>

\* Second section of a disable or delete: Demote.
AdminDemotes ==
    /\ admin.op \in {"disable", "delete"}
    /\ hot' = Less(hot, {admin.acct})
    /\ admin' = NoAdmin
    /\ UNCHANGED <<now, catvars, reqvars, load, histvars>>

\* Second and third section of an enable: Get and Promote of the copy.
AdminGets ==
    /\ admin.op = "enable"
    /\ admin' = IF admin.acct \in DOMAIN hot
                  THEN [admin EXCEPT !.op = "put", !.meta = hot[admin.acct]] ELSE NoAdmin
    /\ UNCHANGED <<now, hot, catvars, reqvars, load, histvars>>

AdminPuts ==
    /\ admin.op = "put"
    /\ hot' \in Promoted(hot, Cap, admin.acct, [admin.meta EXCEPT !.enabled = TRUE])
    /\ admin' = NoAdmin
    /\ UNCHANGED <<now, catvars, reqvars, load, histvars>>

\* The timer's LoadEligible: copy the counts, list the catalog, swap.
ReloadBegins ==
    /\ "reload" \in Admin /\ load.pc = "idle"
    /\ load' = [NoLoad EXCEPT !.pc = "list", !.saved = InflightOf(hot)]
    /\ UNCHANGED <<now, hot, catvars, reqvars, admin, histvars>>

ReloadLists ==
    /\ load.pc = "list"
    /\ load' = [load EXCEPT !.pc = "swap", !.metas = [a \in Listing |-> MetaOf(cat[a])]]
    /\ UNCHANGED <<now, hot, catvars, reqvars, admin, histvars>>

ReloadSwaps ==
    /\ load.pc = "swap"
    /\ hot' = Rebuilt(load.metas, DOMAIN load.metas, load.saved)
    /\ load' = NoLoad
    /\ UNCHANGED <<now, catvars, reqvars, admin, histvars>>

Tick ==
    /\ now < MaxClock
    /\ now' = now + 1
    /\ UNCHANGED <<hot, catvars, reqvars, sysvars, histvars>>

RequestStep(r) ==
    \/ \E a \in Accounts : Pick(r, a)
    \/ PickNone(r) \/ Check(r) \/ AddInflight(r) \/ GetHot(r) \/ PutHot(r)
    \/ \E code \in Codes : Release(r, code)
    \/ ReadHealthOK(r) \/ ReadHealthFailed(r) \/ Patch(r)

AdminStep ==
    \/ \E op \in Admin, a \in Accounts : AdminWrites(op, a)
    \/ AdminDemotes \/ AdminGets \/ AdminPuts
    \/ ReloadBegins \/ ReloadLists \/ ReloadSwaps

Next == (\E r \in Requests : RequestStep(r)) \/ AdminStep \/ Tick

Spec == Init /\ [][Next]_vars

-----------------------------------------------------------------------------
(* Properties.                                                             *)

Holders(a) == {r \in Requests : pc[r] = "held" /\ acct[r] = a}

Quiet == (\A r \in Requests : pc[r] = "idle") /\ admin = NoAdmin /\ load = NoLoad

Locations == {"idle", "pick", "check", "bindGet", "bindPut", "add", "held", "health",
              "quarGet", "quarPut", "patch", "syncGet", "syncPut"}

PatchType == [code : Codes \cup {OK}, failure : Nat, unauthorized : Nat,
              coolUntil : Nat \cup {NoTime}, quarantine : BOOLEAN]

MetaMap(h) == DOMAIN h \subseteq Accounts /\ \A a \in DOMAIN h : h[a] \in Meta

TypeOK ==
    /\ now \in 0..MaxClock
    /\ cat \in [Accounts -> Row]
    /\ MetaMap(hot)
    /\ modelCool \in [Accounts \X Models -> Nat]
    /\ pc \in [Requests -> Locations]
    /\ at \in [Requests -> Nat]
    /\ acct \in [Requests -> Accounts \cup {NoAccount}]
    /\ \A r \in Requests : pc[r] \notin {"idle", "pick"} => acct[r] \in Accounts
    /\ tried \in [Requests -> SUBSET Accounts]
    /\ meta \in [Requests -> Meta]
    /\ patch \in [Requests -> PatchType]
    /\ admin \in [op : {"idle", "disable", "enable", "delete", "put"},
                  acct : Accounts \cup {NoAccount}, meta : Meta]
    /\ admin.op # "idle" => admin.acct \in Accounts
    /\ load.pc \in {"idle", "list", "swap"} /\ MetaMap(load.metas)
    /\ \A a \in DOMAIN load.saved : load.saved[a] \in Nat
    /\ barred \in [Requests -> SUBSET Accounts]

\* An Acquire never picks more accounts than its budget, and so never hits a
\* further account while the failures of the first ones are still unreported.
AttemptsBounded == \A r \in Requests : Cardinality(tried[r]) <= MaxAttempts

\* The count the cap is tested against is the number of leases out, as long as
\* nothing but leases touches the index: no Promote of a stale copy, and no
\* early return of Release, gains or loses a lease.
InflightExact == \A a \in DOMAIN hot : hot[a].inflight = Cardinality(Holders(a))

\* An account that was disabled, quarantined or deleted, or was cooling for the
\* model asked, before a request picked it is not leased to that request,
\* however stale the index is (unless an administrator enables it meanwhile).
NoLeaseWhenBarred == \A r \in Requests : pc[r] = "held" => acct[r] \notin barred[r]

\* config.go:38: the account is quarantined after UnauthorizedQuarantineAfter
\* consecutive 401 answers.
QuarantinedAfterStreak ==
    Quiet => \A a \in Accounts :
                streak[a] >= UnauthorizedAfter /\ cat[a].listed => cat[a].quarantined

\* index.go:32: MaxInflightPerAccount is a hard cap on the requests in flight.
HardCap == \A a \in Accounts : MaxInflight > 0 => Cardinality(Holders(a)) <= MaxInflight

\* A catalog row a lease quarantined stays so until an administrator acts: no
\* success that was under way writes back what it read before.
QuarantineSticks ==
    [][\A a \in Accounts : cat[a].quarantined => cat'[a].quarantined /\
            (cat'[a].enabled => cat[a].enabled \/ admin' # admin)]_vars
=============================================================================
