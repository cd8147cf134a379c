----------------------------- MODULE QuotaGate -----------------------------
(***************************************************************************)
(* The gate of the client API: the global limiter and the token check of   *)
(* internal/httpserver/middleware.go over the token store of               *)
(* internal/clients/store.go.                                              *)
(*                                                                         *)
(* The store has two locks: mu, held by every write of the tokens table,   *)
(* and gateMu, held for the in-flight counts and the rate windows that     *)
(* live in memory only.  Authenticate takes neither.  A request is the     *)
(* sequence of sections pc names; administrators change the rows between   *)
(* any two of them.  Only Delete spans two sections with mu held           *)
(* throughout: dropping is the token it is at.                             *)
(***************************************************************************)
EXTENDS Integers, FiniteSets

CONSTANTS
    Tokens, Requests,
    Costs,          \* costs the usage of a response may amount to
    Grant,          \* remain_quota of a new token
    MaxConcurrent,  \* its max_concurrent, 0 = no limit
    RPM,            \* its rpm, 0 = no limit
    GlobalMax,      \* limits.max_concurrent, 0 = no limit
    Admin,          \* operations administrators perform
    Caps,           \* values they give max_concurrent and the global limit
    Minute,         \* length of a rate window
    MaxClock, MaxUsed, MaxGrants   \* bounds of the model

ASSUME RequestsAssumption == IsFiniteSet(Requests)
ASSUME CostsAssumption == Costs \subseteq Nat \ {0}
ASSUME LimitsAssumption ==
    /\ Grant \in Nat /\ MaxConcurrent \in Nat /\ RPM \in Nat /\ GlobalMax \in Nat
    /\ Caps \subseteq Nat /\ Minute \in Nat \ {0}
    /\ MaxClock \in Nat /\ MaxUsed \in Nat /\ MaxGrants \in Nat

AdminOps == {"expire", "enable", "unlimited", "concurrency", "limiter", "delete"}
ASSUME AdminAssumption == Admin \subseteq AdminOps

VARIABLES
    now,
    tok,        \* token -> its row
    inflight,   \* token -> Store.inflight, 0 when the map has no entry
    win,        \* token -> Store.rpmWin
    dropping,   \* token whose Delete has not dropped its gate yet
    limiter,    \* concurrencyLimiter
    pc,         \* request -> section it enters next
    tid,        \* request -> AuthInfo.TokenID
    max,        \* request -> AuthInfo.MaxConcurrent
    due,        \* request -> cost of its response
    grants,     \* history: slots granted under a rate limit, with their time
    forfeited   \* history: token -> units neither settled nor refunded

storevars == <<tok, dropping>>
gatevars  == <<inflight, win, grants>>
reqvars   == <<pc, tid, max, due>>
vars == <<now, tok, inflight, win, dropping, limiter, pc, tid, max, due, grants, forfeited>>

NoToken == "none"
ASSUME TokensAssumption == NoToken \notin Tokens

NoWindow == [open |-> FALSE, start |-> 0, count |-> 0]

Init ==
    /\ now = 0
    /\ tok = [t \in Tokens |-> [listed |-> TRUE, enabled |-> TRUE, expired |-> FALSE,
                                unlimited |-> FALSE, remain |-> Grant, used |-> 0, count |-> 0,
                                max |-> MaxConcurrent]]
    /\ inflight = [t \in Tokens |-> 0]
    /\ win = [t \in Tokens |-> NoWindow]
    /\ dropping = NoToken
    /\ limiter = [limit |-> GlobalMax, inUse |-> 0]
    /\ pc = [r \in Requests |-> "idle"]
    /\ tid = [r \in Requests |-> NoToken]
    /\ max = [r \in Requests |-> 0]
    /\ due = [r \in Requests |-> 0]
    /\ grants = {}
    /\ forfeited = [t \in Tokens |-> 0]

Goto(r, l) == pc' = [pc EXCEPT ![r] = l]

-----------------------------------------------------------------------------
(* The way in.                                                             *)

LimiterFull == limiter.limit > 0 /\ limiter.inUse >= limiter.limit

\* tryAcquire, for a request that bears the key of t; a refused one changes
\* nothing.
Enter(r, t) ==
    /\ pc[r] = "idle" /\ ~LimiterFull
    /\ limiter' = [limiter EXCEPT !.inUse = @ + 1]
    /\ Goto(r, "auth")
    /\ tid' = [tid EXCEPT ![r] = t]
    /\ UNCHANGED <<now, storevars, gatevars, max, due, forfeited>>

Admitted(row) ==
    row.listed /\ row.enabled /\ ~row.expired /\ (row.unlimited \/ row.remain > 0)

Authenticate(r) ==
    /\ pc[r] = "auth"
    /\ \/ /\ Admitted(tok[tid[r]])
          /\ max' = [max EXCEPT ![r] = tok[tid[r]].max]
          /\ Goto(r, "slot")
       \/ /\ ~Admitted(tok[tid[r]])
          /\ UNCHANGED max
          /\ Goto(r, "exit")
    /\ UNCHANGED <<now, limiter, storevars, gatevars, tid, due, forfeited>>

\* Mutant: a window ends as soon as the clock moves.
Window_EndsEarly(t) ==
    IF ~win[t].open \/ now > win[t].start
      THEN [open |-> TRUE, start |-> now, count |-> 0]
      ELSE win[t]

\* The window AcquireSlot counts in, a new one if the last has run out.
Window(t) ==
    IF ~win[t].open \/ now - win[t].start >= Minute
      THEN [open |-> TRUE, start |-> now, count |-> 0]
      ELSE win[t]

\* Mutant: one slot too many.
SlotsFull_OffByOne(r) == max[r] > 0 /\ inflight[tid[r]] > max[r]

SlotsFull(r) == max[r] > 0 /\ inflight[tid[r]] >= max[r]

RateFull(r) == RPM > 0 /\ Window(tid[r]).count >= RPM

\* AcquireSlot: the window is renewed before either limit is tested, and keeps
\* that when the request is refused.
AcquireSlot(r) ==
    LET t == tid[r]
        granted == ~RateFull(r) /\ ~SlotsFull(r)
    IN  /\ pc[r] = "slot" /\ Cardinality(grants) < MaxGrants
        /\ win' = IF RPM = 0 THEN win
                  ELSE [win EXCEPT ![t] = [Window(t) EXCEPT !.count = IF granted THEN @ + 1 ELSE @]]
        /\ \/ /\ granted
              /\ inflight' = [inflight EXCEPT ![t] = @ + 1]
              /\ grants' = IF RPM > 0 THEN grants \cup {<<t, now, Cardinality(grants)>>} ELSE grants
              /\ Goto(r, "reserve")
           \/ /\ ~granted
              /\ UNCHANGED <<inflight, grants>>
              /\ Goto(r, "exit")
        /\ UNCHANGED <<now, limiter, storevars, tid, max, due, forfeited>>

\* The condition of the UPDATE in ReserveQuota.
Reservable(row) == row.listed /\ row.enabled /\ (row.unlimited \/ row.remain >= 1)

\* Bound of the model: no new reservation once a counter has reached MaxUsed.
Room(t) == tok[t].used < MaxUsed /\ tok[t].remain <= MaxUsed /\ forfeited[t] < MaxUsed

\* ReserveQuota of one unit.
ReserveQuota(r) ==
    LET t == tid[r]
    IN  /\ pc[r] = "reserve" /\ dropping = NoToken /\ Room(t)
        /\ \/ /\ Reservable(tok[t])
              /\ tok' = [tok EXCEPT ![t].remain = IF tok[t].unlimited THEN @ ELSE @ - 1]
              /\ Goto(r, "serve")
           \/ /\ ~Reservable(tok[t])
              /\ UNCHANGED tok
              /\ Goto(r, "release")
        /\ UNCHANGED <<now, dropping, limiter, gatevars, tid, max, due, forfeited>>

-----------------------------------------------------------------------------
(* The way out.                                                            *)

\* The handler has answered: 2xx to 4xx cost what usage says, or 1, and 5xx
\* nothing; a handler that panics runs only the deferred sections.
Respond(r) ==
    /\ pc[r] = "serve"
    /\ \/ /\ \E c \in Costs : due' = [due EXCEPT ![r] = c]
          /\ Goto(r, "settle")
          /\ UNCHANGED forfeited
       \/ /\ Goto(r, "refund")
          /\ UNCHANGED <<due, forfeited>>
       \/ /\ Goto(r, "release")
          /\ forfeited' = [forfeited EXCEPT ![tid[r]] = @ + 1]
          /\ UNCHANGED due
    /\ UNCHANGED <<now, limiter, storevars, gatevars, tid, max>>

\* Mutant: the whole cost is taken on top of the unit reserved.
Settled_ChargesTwice(row, cost) ==
    [row EXCEPT !.used = @ + cost, !.count = @ + 1,
                !.remain = IF row.unlimited THEN @ ELSE IF cost <= @ THEN @ - cost ELSE 0]

\* Mutant: the unit reserved is given back on top of the settlement.
Settled_Refunds(row, cost) ==
    [row EXCEPT !.used = @ + cost, !.count = @ + 1,
                !.remain = IF row.unlimited THEN @ ELSE IF cost - 1 <= @ THEN @ + 1 ELSE 0]

\* The row SettleUsage leaves; what exceeds the unit reserved is taken as far
\* as remain_quota goes.
Settled(row, cost) ==
    [row EXCEPT !.used = @ + cost, !.count = @ + 1,
                !.remain = IF row.unlimited THEN @
                           ELSE IF cost - 1 <= @ THEN @ - (cost - 1) ELSE 0]

\* SettleUsage; a disabled or deleted token is left alone.
SettleUsage(r) ==
    LET t == tid[r]
        live == tok[t].listed /\ tok[t].enabled
    IN  /\ pc[r] = "settle" /\ dropping = NoToken
        /\ tok' = IF live THEN [tok EXCEPT ![t] = Settled(@, due[r])] ELSE tok
        /\ forfeited' = IF live THEN forfeited ELSE [forfeited EXCEPT ![t] = @ + 1]
        /\ due' = [due EXCEPT ![r] = 0]
        /\ Goto(r, "release")
        /\ UNCHANGED <<now, dropping, limiter, gatevars, tid, max>>

\* RefundQuota, with the same condition.
RefundQuota(r) ==
    LET t == tid[r]
        live == tok[t].listed /\ tok[t].enabled
    IN  /\ pc[r] = "refund" /\ dropping = NoToken
        /\ tok' = IF live /\ ~tok[t].unlimited THEN [tok EXCEPT ![t].remain = @ + 1] ELSE tok
        /\ forfeited' = IF live THEN forfeited ELSE [forfeited EXCEPT ![t] = @ + 1]
        /\ Goto(r, "release")
        /\ UNCHANGED <<now, dropping, limiter, gatevars, tid, max, due>>

\* Mutant: a token without limit is not counted down.
ReleaseSlot_OnlyLimited(r) ==
    /\ pc[r] = "release"
    /\ inflight' = [inflight EXCEPT ![tid[r]] =
                       IF @ > 0 /\ tok[tid[r]].max > 0 THEN @ - 1 ELSE @]
    /\ Goto(r, "exit")
    /\ UNCHANGED <<now, limiter, storevars, win, grants, tid, max, due, forfeited>>

\* The deferred ReleaseSlot.
ReleaseSlot(r) ==
    /\ pc[r] = "release"
    /\ inflight' = [inflight EXCEPT ![tid[r]] = IF @ > 0 THEN @ - 1 ELSE 0]
    /\ Goto(r, "exit")
    /\ UNCHANGED <<now, limiter, storevars, win, grants, tid, max, due, forfeited>>

\* The deferred release of the limiter.
Exit(r) ==
    /\ pc[r] = "exit"
    /\ limiter' = [limiter EXCEPT !.inUse = IF @ > 0 THEN @ - 1 ELSE 0]
    /\ Goto(r, "idle")
    /\ tid' = [tid EXCEPT ![r] = NoToken]
    /\ max' = [max EXCEPT ![r] = 0]
    /\ UNCHANGED <<now, storevars, gatevars, due, forfeited>>

-----------------------------------------------------------------------------
(* Administrators.                                                         *)

\* Patch and SetEnabled: the row is read and written under mu.
Patch(t, op) ==
    /\ op \in Admin /\ dropping = NoToken /\ tok[t].listed
    /\ \/ op = "expire" /\ tok' = [tok EXCEPT ![t].expired = ~@]
       \/ op = "enable" /\ tok' = [tok EXCEPT ![t].enabled = ~@]
       \/ op = "unlimited" /\ tok' = [tok EXCEPT ![t].unlimited = ~@]
       \/ op = "concurrency" /\ \E m \in Caps : tok' = [tok EXCEPT ![t].max = m]
    /\ UNCHANGED <<now, dropping, limiter, gatevars, reqvars, forfeited>>

\* SetMaxConcurrent.
SetLimit(l) ==
    /\ "limiter" \in Admin
    /\ limiter' = [limiter EXCEPT !.limit = l]
    /\ UNCHANGED <<now, storevars, gatevars, reqvars, forfeited>>

\* Delete and DeleteMany, first the row, then, still under mu, the gate.
Delete(t) ==
    /\ "delete" \in Admin /\ dropping = NoToken /\ tok[t].listed
    /\ tok' = [tok EXCEPT ![t].listed = FALSE]
    /\ dropping' = t
    /\ UNCHANGED <<now, limiter, gatevars, reqvars, forfeited>>

DropGate ==
    /\ dropping # NoToken
    /\ inflight' = [inflight EXCEPT ![dropping] = 0]
    /\ win' = [win EXCEPT ![dropping] = NoWindow]
    /\ dropping' = NoToken
    /\ UNCHANGED <<now, tok, limiter, grants, reqvars, forfeited>>

Tick ==
    /\ now < MaxClock
    /\ now' = now + 1
    /\ UNCHANGED <<limiter, storevars, gatevars, reqvars, forfeited>>

RequestStep(r) ==
    \/ \E t \in Tokens : Enter(r, t)
    \/ Authenticate(r) \/ AcquireSlot(r) \/ ReserveQuota(r) \/ Respond(r)
    \/ SettleUsage(r) \/ RefundQuota(r) \/ ReleaseSlot(r) \/ Exit(r)

AdminStep ==
    \/ \E t \in Tokens, op \in AdminOps : Patch(t, op)
    \/ \E l \in Caps : SetLimit(l)
    \/ \E t \in Tokens : Delete(t)
    \/ DropGate

Next == (\E r \in Requests : RequestStep(r)) \/ AdminStep \/ Tick

Spec == Init /\ [][Next]_vars

-----------------------------------------------------------------------------
(* Properties.                                                             *)

Sections == {"idle", "auth", "slot", "reserve", "serve", "settle", "refund", "release", "exit"}

Holding == {"reserve", "serve", "settle", "refund", "release"}

\* The requests that hold a slot of t, and those that hold a unit of its quota.
Holders(t) == {r \in Requests : pc[r] \in Holding /\ tid[r] = t}
Reserved(t) == {r \in Requests : pc[r] \in {"serve", "settle", "refund"} /\ tid[r] = t}

TypeOK ==
    /\ now \in Nat
    /\ tok \in [Tokens -> [listed : BOOLEAN, enabled : BOOLEAN, expired : BOOLEAN,
                           unlimited : BOOLEAN, remain : Nat, used : Nat, count : Nat, max : Nat]]
    /\ inflight \in [Tokens -> Nat]
    /\ win \in [Tokens -> [open : BOOLEAN, start : Nat, count : Nat]]
    /\ dropping \in Tokens \cup {NoToken}
    /\ limiter \in [limit : Nat, inUse : Nat]
    /\ pc \in [Requests -> Sections]
    /\ tid \in [Requests -> Tokens \cup {NoToken}]
    /\ \A r \in Requests : pc[r] # "idle" => tid[r] \in Tokens
    /\ max \in [Requests -> Nat]
    /\ due \in [Requests -> Nat]
    /\ \A r \in Requests : pc[r] = "settle" => due[r] > 0
    /\ forfeited \in [Tokens -> Nat]

\* The count a token's limit is tested against is the number of requests that
\* hold a slot of it, whatever its limits were when they came and are now.
SlotsExact == \A t \in Tokens : tok[t].listed => inflight[t] = Cardinality(Holders(t))

\* README.md:394: max_concurrent is a hard cap.  When every request inside came
\* under a cap, there are no more of them than the largest of these caps.
ConcurrencyCapped ==
    \A t \in Tokens :
        tok[t].listed /\ Holders(t) # {} /\ (\A r \in Holders(t) : max[r] > 0) =>
            \E r \in Holders(t) : Cardinality(Holders(t)) <= max[r]

\* The global limiter counts the requests inside and, while its limit stays,
\* lets no more in.
GlobalExact ==
    /\ limiter.inUse = Cardinality({r \in Requests : pc[r] # "idle"})
    /\ "limiter" \notin Admin /\ GlobalMax > 0 => limiter.inUse <= GlobalMax

\* Neither the limit of a token nor the global one lets more in than it says,
\* and the global limiter gets every place back, after a panic too.
LimitsHold == ConcurrencyCapped /\ GlobalExact

\* middleware.go:257: the reservation keeps concurrent requests from spending
\* the same unit; requests served, under way or lost and what is left are
\* never more than what was granted.
ServedWithinGrant ==
    \A t \in Tokens :
        tok[t].count + Cardinality(Reserved(t)) + forfeited[t] + tok[t].remain <= Grant

\* No unit vanishes: what a token lacks was used, is reserved or was lost by a
\* request that panicked or found the token disabled.
NothingVanishes ==
    \A t \in Tokens :
        tok[t].used + Cardinality(Reserved(t)) + forfeited[t] + tok[t].remain >= Grant

\* At most twice the rate of a token passes in any minute, since windows are
\* fixed; the window of one that is deleted is dropped before its last requests.
RateWithinTwice ==
    \A t \in Tokens, k \in 0..now :
        tok[t].listed =>
            Cardinality({g \in grants : g[1] = t /\ g[2] \in k..(k + Minute - 1)}) <= 2 * RPM

\* store.go:548: a refund gives back what was reserved, so that a token never
\* has more left than it was granted.
RefundsReserved == \A t \in Tokens : tok[t].remain <= Grant
=============================================================================
