-------------------------------- MODULE Cluster --------------------------------
(***************************************************************************)
(* The four parts of a cluster deployment.  They meet in the shared state  *)
(* but no key of it serves two of them, so a behaviour of the cluster is   *)
(* checked part by part: `part` says which one moves, the others rest.     *)
(***************************************************************************)
EXTENDS Naturals, FiniteSets

CONSTANTS
  Workers, ShardCount, TargetShards, NoWorker,
  Requests, Accounts, WorkerOf, MaxInflight, MaxLeaks, NoAccount,
  Refreshers, BatchSize, MaxTokens, NoRefresher,
  Puts, StartLimit, Limits, Owners, Nobody

ASSUME ClusterAssumption ==
  /\ IsFiniteSet(Requests) /\ NoAccount \notin Accounts /\ NoRefresher \notin Refreshers
  /\ MaxInflight \in Nat /\ StartLimit \in Nat /\ Limits \subseteq Nat

VARIABLES
  part, backend,
  lease, held, task, passed,                              \* ShardLeases
  count, cool, row, rq, leaked,                           \* ClusterGate
  due, lock, token, provider, rf, pending, forgotten, lost, \* RefreshQueue
  live, saved, inflight, owner, g, put                    \* Gateway

Shard == INSTANCE ShardLeases
Gate == INSTANCE ClusterGate
Queue == INSTANCE RefreshQueue WITH row <- token
Entry == INSTANCE Gateway

shardVars == <<lease, held, task, passed>>
gateVars == <<count, cool, row, rq, leaked>>
queueVars == <<due, lock, token, provider, rf, pending, forgotten, lost>>
entryVars == <<live, saved, inflight, owner, g, put>>
vars == <<part, backend, shardVars, gateVars, queueVars, entryVars>>

Init ==
  /\ part \in {"shards", "gate", "queue", "entry"}
  /\ Shard!Init /\ Gate!Init /\ Queue!Init /\ Entry!Init

Next ==
  /\ UNCHANGED part
  /\ \/ part = "shards" /\ Shard!Next /\ UNCHANGED <<gateVars, queueVars, entryVars>>
     \/ part = "gate" /\ Gate!Next /\ UNCHANGED <<shardVars, queueVars, entryVars>>
     \/ part = "queue" /\ Queue!Next /\ UNCHANGED <<shardVars, gateVars, entryVars>>
     \/ part = "entry" /\ Entry!Next /\ UNCHANGED <<backend, shardVars, gateVars, queueVars>>

ShardProgress(w) ==
  /\ part = "shards" /\ Shard!Progress(w)
  /\ UNCHANGED <<part, gateVars, queueVars, entryVars>>

Spec == Init /\ [][Next]_vars /\ \A w \in Workers : WF_vars(ShardProgress(w))

TypeOK == Shard!TypeOK /\ Gate!TypeOK /\ Queue!TypeOK /\ Entry!TypeOK

\* Two workers never believe for ever that they own one shard (ShardLeases).
SplitHeals == Shard!SplitHeals

\* Places of an account in the cluster come back, and with the state in memory
\* its leases keep the cap (ClusterGate).
CountSound == Gate!NeverOverCounts /\ Gate!CapInMemory

\* A rotated token stays in the hands of the pool (RefreshQueue).
TokenKept == Queue!TokenKept

\* A due account is in the queue or with one refresher, and nowhere else unless
\* a crash, a failed store or a lapsed lock came between (RefreshQueue).
DueInOnePlace == Queue!NoneForgotten /\ Queue!ExchangesSerial

\* The admission counter of the gateway (Gateway).
AdmissionExact == Entry!AdmissionExact
==============================================================================
