------------------------------ MODULE ClusterGate ------------------------------
(***************************************************************************)
(* Leases of accounts shared by the workers of a cluster: the attempt and  *)
(* the release of internal/worker/leaser.go over the in-flight counts and  *)
(* cooldowns of internal/clusterstate.  Redis decrements with two commands *)
(* (DECR, then DEL when nothing is left), refuses a request whose context  *)
(* is cancelled, and drops a count whose term ran out.                     *)
(***************************************************************************)
EXTENDS Integers, FiniteSets, FiniteSetsExt

CONSTANTS
  Workers, Requests, Accounts,
  WorkerOf,     \* the worker a request was routed to
  MaxInflight,  \* leases an account may have
  MaxLeaks,     \* bound: decrements lost in a behaviour
  NoAccount

VARIABLES
  backend, \* "memory" or "redis": the shared state in use
  count,   \* gbp:inflight:<account>; an absent key counts as 0
  cool,    \* accounts with a cooldown in the shared state
  row,     \* the account as the store answers it: "usable", "barred", "gone"
  rq,      \* requests
  leaked   \* decrements that will never come

vars == <<backend, count, cool, row, rq, leaked>>

Rows == {"usable", "barred", "gone"}
Idle == [pc |-> "idle", on |-> NoAccount, tried |-> {}, live |-> TRUE, good |-> FALSE]

\* pc: "idle", "pick", "incr", "row", "undo" (DECR of a refused attempt),
\* "leased", "release" (DECR of a lease), "undoDel" and "releaseDel" (DEL that
\* follows), "report" (health after a release).  live: the client is there;
\* good: the lease ended well.
TypeOK ==
  /\ backend \in {"memory", "redis"}
  /\ count \in [Accounts -> Int]
  /\ cool \subseteq Accounts
  /\ row \in [Accounts -> Rows]
  /\ rq \in [Requests -> [pc : {"idle", "pick", "incr", "row", "undo", "undoDel", "leased",
                                "release", "releaseDel", "report"},
                          on : Accounts \cup {NoAccount}, tried : SUBSET Accounts,
                          live : BOOLEAN, good : BOOLEAN]]
  /\ leaked \in [Accounts -> Nat]

Init ==
  /\ backend \in {"memory", "redis"}
  /\ count = [a \in Accounts |-> 0]
  /\ cool = {}
  /\ row = [a \in Accounts |-> "usable"]
  /\ rq = [r \in Requests |-> Idle]
  /\ leaked = [a \in Accounts |-> 0]

To(r, pc) == rq' = [rq EXCEPT ![r].pc = pc]

\* A command with a cancelled context is refused: the count keeps the lease.
\* A body served to its end is released with a context of its own.
Skips(r) == backend = "redis" /\ ~ rq[r].live /\ ~ rq[r].good

-----------------------------------------------------------------------------
(* AcquireAttempt *)

Arrive(r) ==
  /\ rq[r].pc = "idle"
  /\ To(r, "pick")
  /\ UNCHANGED <<backend, count, cool, row, leaked>>

\* The selector offers an account that was not tried; one that cools down
\* anywhere in the cluster is refused, and the caller tries the next.
Pick(r, a) ==
  /\ rq[r].pc = "pick" /\ rq[r].live /\ a \notin rq[r].tried
  /\ rq' = [rq EXCEPT ![r].tried = @ \cup {a}, ![r].on = IF a \in cool THEN NoAccount ELSE a,
                      ![r].pc = IF a \in cool THEN "pick" ELSE "incr"]
  /\ UNCHANGED <<backend, count, cool, row, leaked>>

GiveUp(r) ==
  /\ rq[r].pc = "pick" /\ (rq[r].tried = Accounts \/ ~ rq[r].live)
  /\ rq' = [rq EXCEPT ![r] = Idle]
  /\ UNCHANGED <<backend, count, cool, row, leaked>>

OverCap(n) == n > MaxInflight

\* IncrInflight answers the new count; over the cap it is taken back.
Incr(r) ==
  /\ rq[r].pc = "incr"
  /\ IF Skips(r) THEN To(r, "pick") /\ UNCHANGED count
     ELSE /\ count' = [count EXCEPT ![rq[r].on] = @ + 1]
          /\ To(r, IF OverCap(count[rq[r].on] + 1) THEN "undo" ELSE "row")
  /\ UNCHANGED <<backend, cool, row, leaked>>

\* store.Get, and accountUsable: without a usable row the count is taken back.
\* A mutant: the refused attempt returns without its decrement.
Refused_KeepsPlace(r) == "pick"

Refused(r) == "undo"

Usable(a) == row[a] = "usable"

GetRow(r, reads) ==
  /\ rq[r].pc = "row" /\ (rq[r].live => reads)
  /\ To(r, IF Usable(rq[r].on) /\ reads THEN "leased" ELSE Refused(r))
  /\ UNCHANGED <<backend, count, cool, row, leaked>>

-----------------------------------------------------------------------------
(* DecrInflight, of a refused attempt or of a lease *)

AfterDecr(pc) == IF pc \in {"undo", "undoDel"} THEN "pick" ELSE "report"

\* Memory drops an entry that has nothing left.
Floor(n) == IF backend = "memory" /\ n < 0 THEN 0 ELSE n

Decr(r) ==
  LET a == rq[r].on  n == count[a] - 1
  IN /\ rq[r].pc \in {"undo", "release"}
     /\ IF Skips(r)
        THEN /\ leaked' = [leaked EXCEPT ![a] = @ + 1]
             /\ To(r, AfterDecr(rq[r].pc))
             /\ UNCHANGED count
        ELSE /\ count' = [count EXCEPT ![a] = Floor(n)]
             /\ To(r, IF n > 0 \/ backend = "memory" THEN AfterDecr(rq[r].pc)
                      ELSE IF rq[r].pc = "undo" THEN "undoDel" ELSE "releaseDel")
             /\ UNCHANGED leaked
     /\ UNCHANGED <<backend, cool, row>>

\* DEL, whatever the key holds by now; a cancelled context skips it.
Del(r) ==
  LET a == rq[r].on
  IN /\ rq[r].pc \in {"undoDel", "releaseDel"}
     /\ IF Skips(r) THEN UNCHANGED <<count, leaked>>
        ELSE count' = [count EXCEPT ![a] = 0] /\ leaked' = [leaked EXCEPT ![a] = 0]
     /\ To(r, AfterDecr(rq[r].pc))
     /\ UNCHANGED <<backend, cool, row>>

-----------------------------------------------------------------------------
(* Release *)

EndLease(r, good) ==
  /\ rq[r].pc = "leased"
  /\ rq' = [rq EXCEPT ![r].pc = "release", ![r].good = good]
  /\ UNCHANGED <<backend, count, cool, row, leaked>>

\* A failure that earns a cooldown sets it, and the row is patched; the
\* executor tries another account, or answers.
Report(r, cools, more) ==
  /\ rq[r].pc = "report"
  /\ rq[r].good => ~ cools /\ ~ more
  /\ cool' = IF cools /\ ~ Skips(r) THEN cool \cup {rq[r].on} ELSE cool
  /\ rq' = [rq EXCEPT ![r] = IF more THEN [@ EXCEPT !.pc = "pick", !.on = NoAccount] ELSE Idle]
  /\ UNCHANGED <<backend, count, row, leaked>>

-----------------------------------------------------------------------------
(* The world around *)

Leaks == MapThenSumSet(LAMBDA a : leaked[a], Accounts) + Cardinality({r \in Requests : ~ rq[r].live})

ClientGone(r) ==
  /\ rq[r].pc # "idle" /\ rq[r].live /\ Leaks < MaxLeaks
  /\ rq' = [rq EXCEPT ![r].live = FALSE]
  /\ UNCHANGED <<backend, count, cool, row, leaked>>

\* Between INCR and the end of DECR a request stands for one of the count.
Counted(r) == rq[r].pc \in {"row", "undo", "leased", "release"}
CountedOn(a) == {r \in Requests : Counted(r) /\ rq[r].on = a}

\* A worker of a Redis cluster dies with its requests; Memory dies with it.
Crash(w) ==
  LET of == {r \in Requests : WorkerOf[r] = w}
  IN /\ backend = "redis" /\ Leaks + Cardinality(of) <= MaxLeaks
     /\ rq' = [r \in Requests |-> IF r \in of THEN Idle ELSE rq[r]]
     /\ leaked' = [a \in Accounts |-> leaked[a] + Cardinality(of \cap CountedOn(a))]
     /\ UNCHANGED <<backend, count, cool, row>>

\* The 15 minutes of a count ran out since its last increment.
ExpireCount(a) ==
  /\ backend = "redis" /\ count[a] # 0
  /\ count' = [count EXCEPT ![a] = 0]
  /\ leaked' = [leaked EXCEPT ![a] = 0]
  /\ UNCHANGED <<backend, cool, row, rq>>

Warm(a) ==
  /\ a \in cool
  /\ cool' = cool \ {a}
  /\ UNCHANGED <<backend, count, row, rq, leaked>>

ChangeRow(a, to) ==
  /\ row[a] # to
  /\ row' = [row EXCEPT ![a] = to]
  /\ UNCHANGED <<backend, count, cool, rq, leaked>>

Next ==
  \/ \E r \in Requests :
       \/ Arrive(r) \/ GiveUp(r) \/ Incr(r) \/ Decr(r) \/ Del(r) \/ ClientGone(r)
       \/ \E a \in Accounts : Pick(r, a)
       \/ \E b \in BOOLEAN : GetRow(r, b) \/ EndLease(r, b)
       \/ \E cools, more \in BOOLEAN : Report(r, cools, more)
  \/ \E w \in Workers : Crash(w)
  \/ \E a \in Accounts : ExpireCount(a) \/ Warm(a) \/ (\E to \in Rows : ChangeRow(a, to))

Spec == Init /\ [][Next]_vars

-----------------------------------------------------------------------------
\* The shared count never exceeds the attempts and leases that stand, plus the
\* decrements that a crash or a cancelled context swallowed: every refused
\* attempt gives its place back, else an account would be lost to the cluster.
NeverOverCounts ==
  \A a \in Accounts : count[a] <= Cardinality(CountedOn(a)) + leaked[a]

\* With the state in memory no account has more leases than the cap.
CapInMemory ==
  backend = "memory" =>
    \A a \in Accounts : Cardinality({r \in Requests : rq[r].pc = "leased" /\ rq[r].on = a}) <= MaxInflight
==============================================================================
