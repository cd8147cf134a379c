------------------------------ MODULE ShardLeases ------------------------------
(***************************************************************************)
(* The shards of the cluster and the workers that serve them: a worker     *)
(* claims shards when it starts, renews them on a ticker and gives them    *)
(* back when it stops (internal/worker/service.go), over the leases of     *)
(* internal/clusterstate, in memory or in Redis.  In memory an operation   *)
(* is one critical section; in Redis it is a sequence of commands, and a   *)
(* renewal is a GET followed by an unconditional SET.                      *)
(***************************************************************************)
EXTENDS Naturals, FiniteSets

CONSTANTS
  Workers,
  ShardCount,    \* shards are numbered from 0
  TargetShards,  \* how many a worker tries to claim when it starts
  NoWorker

Shards == 0 .. ShardCount - 1

VARIABLES
  backend,  \* "memory" or "redis"
  lease,    \* lease[s]: owner in the shared state, and whether its term is over
  held,     \* held[w]: the shards worker w believes it owns
  task,     \* task[w]: what the goroutine of Run is doing
  passed    \* passed[w]: workers caught between GET and SET when w last wrote

vars == <<backend, lease, held, task, passed>>

NoLease == [owner |-> NoWorker, over |-> FALSE]
Term(w) == [owner |-> w, over |-> FALSE]

\* pc: "down", "claim" (at shard `at`), "reclaim" (between GET and SET of a
\* claim), "run", "renew" (the shards in `left` remain), "write" (between GET
\* and SET of the renewal of `at`).
Tasks == [pc : {"down", "claim", "reclaim", "run", "renew", "write"},
          at : 0 .. ShardCount, left : SUBSET Shards]
Down == [pc |-> "down", at |-> 0, left |-> {}]
Between(w) == task[w].pc \in {"reclaim", "write"}

TypeOK ==
  /\ backend \in {"memory", "redis"}
  /\ lease \in [Shards -> [owner : Workers \cup {NoWorker}, over : BOOLEAN]]
  /\ held \in [Workers -> SUBSET Shards]
  /\ task \in [Workers -> Tasks]
  /\ passed \in [Workers -> SUBSET Workers]

Init ==
  /\ backend \in {"memory", "redis"}
  /\ lease = [s \in Shards |-> NoLease]
  /\ held = [w \in Workers |-> {}]
  /\ task = [w \in Workers |-> Down]
  /\ passed = [w \in Workers |-> {}]

Go(w, pc, at, left) == task' = [task EXCEPT ![w] = [pc |-> pc, at |-> at, left |-> left]]

\* Writing the lease of s for w: whoever is between its GET and SET is noted.
Write(w, s) ==
  /\ lease' = [lease EXCEPT ![s] = Term(w)]
  /\ passed' = [v \in Workers |-> IF v = w THEN passed[w] \cup {u \in Workers \ {w} : Between(u)}
                                  ELSE passed[v] \ {w}]

-----------------------------------------------------------------------------
(* claimShards: from shard 0 on, until enough are claimed. *)

Start(w) ==
  /\ task[w].pc = "down"
  /\ Go(w, "claim", 0, {})
  /\ held' = [held EXCEPT ![w] = {}]
  /\ UNCHANGED <<backend, lease, passed>>

ClaimDone(w) ==
  /\ task[w].pc = "claim"
  /\ task[w].at = ShardCount \/ Cardinality(held[w]) >= TargetShards
  /\ Go(w, "run", 0, {})
  /\ UNCHANGED <<backend, lease, held, passed>>

Claiming(w, s) ==
  task[w].pc = "claim" /\ task[w].at = s /\ s < ShardCount /\ Cardinality(held[w]) < TargetShards

\* Memory judges the owner and the term, SETNX only whether the key exists.
FreeInMemory(w, s) == lease[s].owner \in {NoWorker, w} \/ lease[s].over
Free(w, s) == IF backend = "memory" THEN FreeInMemory(w, s) ELSE lease[s].owner = NoWorker

Claim(w, s) ==
  /\ Claiming(w, s) /\ Free(w, s)
  /\ Write(w, s)
  /\ held' = [held EXCEPT ![w] = @ \cup {s}]
  /\ Go(w, "claim", s + 1, {})
  /\ UNCHANGED backend

\* Redis, the key exists and is this worker's own, of its earlier life.
ClaimGet(w, s) ==
  /\ Claiming(w, s) /\ ~ Free(w, s)
  /\ IF backend = "redis" /\ lease[s].owner = w THEN Go(w, "reclaim", s, {}) ELSE Go(w, "claim", s + 1, {})
  /\ UNCHANGED <<backend, lease, held, passed>>

ClaimSet(w) ==
  /\ task[w].pc = "reclaim"
  /\ Write(w, task[w].at)
  /\ held' = [held EXCEPT ![w] = @ \cup {task[w].at}]
  /\ Go(w, "claim", task[w].at + 1, {})
  /\ UNCHANGED backend

-----------------------------------------------------------------------------
(* renewShards, one shard after another. *)

\* The ticker is longer than a round trip to Redis: a worker renews again only
\* when whoever it overtook in its last round has written.
RenewTick(w) ==
  /\ task[w].pc = "run" /\ passed[w] = {}
  /\ Go(w, "renew", 0, held[w])
  /\ UNCHANGED <<backend, lease, held, passed>>

RenewDone(w) ==
  /\ task[w].pc = "renew" /\ task[w].left = {}
  /\ Go(w, "run", 0, {})
  /\ UNCHANGED <<backend, lease, held, passed>>

\* A mutant: any owner will do, the name in the lease is not compared.
Renewable_AnyOwner(w, s) == lease[s].owner # NoWorker

Renewable(w, s) == lease[s].owner = w

\* The state answers that the shard is another's, or nobody's: it is dropped.
RenewLost(w, s) ==
  /\ task[w].pc = "renew" /\ s \in task[w].left /\ ~ Renewable(w, s)
  /\ held' = [held EXCEPT ![w] = @ \ {s}]
  /\ Go(w, "renew", 0, task[w].left \ {s})
  /\ UNCHANGED <<backend, lease, passed>>

\* Memory does not look at the term: an entry that ran out is renewed.
RenewMemory(w, s) ==
  /\ task[w].pc = "renew" /\ s \in task[w].left /\ Renewable(w, s) /\ backend = "memory"
  /\ Write(w, s)
  /\ Go(w, "renew", 0, task[w].left \ {s})
  /\ UNCHANGED <<backend, held>>

RenewGet(w, s) ==
  /\ task[w].pc = "renew" /\ s \in task[w].left /\ Renewable(w, s) /\ backend = "redis"
  /\ Go(w, "write", s, task[w].left \ {s})
  /\ UNCHANGED <<backend, lease, held, passed>>

RenewSet(w) ==
  /\ task[w].pc = "write"
  /\ Write(w, task[w].at)
  /\ Go(w, "renew", 0, task[w].left)
  /\ UNCHANGED <<backend, held>>

-----------------------------------------------------------------------------
(* The end of a worker, and of a lease. *)

\* Run ends: releaseAll passes the context that was just cancelled.  Memory
\* ignores it; Redis refuses the command, and the lease stays for its term.
ReleaseRefused == backend = "redis"
Released(w) == [s \in Shards |-> IF s \in held[w] /\ lease[s].owner = w THEN NoLease ELSE lease[s]]

Stop(w) ==
  /\ task[w].pc = "run"
  /\ lease' = IF ReleaseRefused THEN lease ELSE Released(w)
  /\ held' = [held EXCEPT ![w] = {}]
  /\ task' = [task EXCEPT ![w] = Down]
  /\ passed' = [v \in Workers |-> IF v = w THEN {} ELSE passed[v]]
  /\ UNCHANGED backend

Crash(w) ==
  /\ task[w].pc # "down"
  /\ held' = [held EXCEPT ![w] = {}]
  /\ task' = [task EXCEPT ![w] = Down]
  /\ passed' = [v \in Workers |-> IF v = w THEN {} ELSE passed[v] \ {w}]
  /\ UNCHANGED <<backend, lease>>

\* The term of a lease runs out before it is renewed: Redis drops the key.
Lapse(s) ==
  /\ lease[s].owner # NoWorker /\ ~ lease[s].over
  /\ lease' = [lease EXCEPT ![s] = IF backend = "memory" THEN [@ EXCEPT !.over = TRUE] ELSE NoLease]
  /\ UNCHANGED <<backend, held, task, passed>>

\* A step of the goroutine of worker w that is bound to come.
Progress(w) ==
  \/ ClaimDone(w) \/ ClaimSet(w) \/ RenewTick(w) \/ RenewDone(w) \/ RenewSet(w)
  \/ \E s \in Shards :
       Claim(w, s) \/ ClaimGet(w, s) \/ RenewLost(w, s) \/ RenewMemory(w, s) \/ RenewGet(w, s)

Next ==
  \/ \E w \in Workers : Start(w) \/ Progress(w) \/ Stop(w) \/ Crash(w)
  \/ \E s \in Shards : Lapse(s)

Spec == Init /\ [][Next]_vars /\ \A w \in Workers : WF_vars(Progress(w))

-----------------------------------------------------------------------------
Split(s) == \E v, w \in Workers : v # w /\ s \in held[v] /\ s \in held[w]

\* Two workers may come to believe that they own the same shard (a blind SET
\* after the lease lapsed), but not for ever: one of them finds the other's
\* name at its next renewal and lets go (service.go renewShards).
SplitHeals ==
  \A s \in Shards : Split(s) ~> ~ Split(s)
==============================================================================
