------------------------------- MODULE HotOps -------------------------------
(***************************************************************************)
(* What one locked section of the hot index does to the map of hot         *)
(* accounts (internal/hot/index.go): the operators HotIndex and LeasePool  *)
(* share.  A hot set is a function from the ids that are hot to their      *)
(* HotMeta; ids are naturals because the index compares them.              *)
(***************************************************************************)
EXTENDS Integers, FiniteSets

CONSTANTS
    Accounts,   \* account ids
    Priority    \* account -> HotMeta.Priority, which no modelled step changes

ASSUME AccountsAssumption == Accounts \subseteq Nat /\ IsFiniteSet(Accounts)
ASSUME PriorityAssumption == Priority \in [Accounts -> Int]

NoAccount == -1

\* HotMeta, without the fields no decision of the index reads.
Meta == [enabled : BOOLEAN,       \* Enabled
         quarantined : BOOLEAN,   \* Lifecycle # active
         coolUntil : Nat,         \* CooldownUntil
         failure : Nat,           \* FailureScore
         inflight : Nat]          \* Inflight

FreshMeta == [enabled |-> TRUE, quarantined |-> FALSE, coolUntil |-> 0,
              failure |-> 0, inflight |-> 0]

\* EligibleWithInflightCap; max = 0 means no cap.
Eligible(m, t, max) ==
    /\ m.enabled
    /\ ~m.quarantined
    /\ m.coolUntil <= t
    /\ max > 0 => m.inflight < max

\* worseVictim: account a is a better one to drop than b.
WorseVictim(h, a, b) ==
    \/ Priority[a] < Priority[b]
    \/ /\ Priority[a] = Priority[b]
       /\ \/ h[a].failure > h[b].failure
          \/ /\ h[a].failure = h[b].failure
             /\ \/ h[a].inflight > h[b].inflight
                \/ /\ h[a].inflight = h[b].inflight
                   /\ a > b

\* pickDemoteVictim: the worst of the hot set.
IsVictim(h, v) ==
    /\ v \in DOMAIN h
    /\ \A b \in DOMAIN h \ {v} : ~WorseVictim(h, b, v)

With(h, a, m) == [b \in DOMAIN h \cup {a} |-> IF b = a THEN m ELSE h[b]]

Less(h, S) == [b \in DOMAIN h \ S |-> h[b]]

\* Promote of an account that is hot: every field but the live Inflight.
Updated(h, a, m) == [h EXCEPT ![a] = [m EXCEPT !.inflight = h[a].inflight]]

\* The hot sets Promote may leave for an account and a meta; a full index
\* drops one victim first.
Promoted(h, capacity, a, m) ==
    IF a \in DOMAIN h THEN {Updated(h, a, m)}
    ELSE IF Cardinality(DOMAIN h) < capacity THEN {With(h, a, m)}
    ELSE {With(Less(h, {v}), a, m) : v \in {w \in DOMAIN h : IsVictim(h, w)}}

\* AddInflight and SubInflight of a hot account; the count never goes below 0.
Incremented(h, a) == [h EXCEPT ![a].inflight = @ + 1]

Decremented(h, a) == [h EXCEPT ![a].inflight = IF @ > 0 THEN @ - 1 ELSE 0]

\* The inflight map LoadEligible and LoadMetas take from the hot set h.
InflightOf(h) == [a \in DOMAIN h |-> h[a].inflight]

\* The hot set they build from the rows of S and a saved inflight map.
Rebuilt(rows, S, saved) ==
    [a \in S |-> [rows[a] EXCEPT !.inflight = IF a \in DOMAIN saved THEN saved[a] ELSE 0]]
=============================================================================
