-------------------------------- MODULE Gateway --------------------------------
(***************************************************************************)
(* The gateway of the cluster (internal/gateway): it admits requests up to *)
(* a limit by an atomic counter, forwards each to the worker that owns the *)
(* shard of its session, and lets an administrator change the limit.       *)
(***************************************************************************)
EXTENDS Naturals, FiniteSets

CONSTANTS
  Requests, Puts,   \* client requests, and PUTs of the settings
  Workers,          \* configured base URLs
  StartLimit,       \* the limit of the configuration
  Limits,           \* values an administrator sends; 0 keeps the saved one
  Owners,           \* what a shard lease may name: workers, strangers, nobody
  Nobody

VARIABLES
  live,      \* the limit in force (Server.maxConcurrent)
  saved,     \* the settings store, and its file
  inflight,  \* Server.inflight
  owner,     \* the lease of the one shard the sessions hash to
  g,         \* requests
  put        \* PUTs

vars == <<live, saved, inflight, owner, g, put>>

Idle == [pc |-> "idle", limit |-> 0, n |-> 0, to |-> Nobody]
InForce == {StartLimit} \cup (Limits \ {0})

TypeOK ==
  /\ live \in InForce
  /\ saved \in [mem : InForce, file : InForce]
  /\ inflight \in Nat
  /\ owner \in Owners
  /\ g \in [Requests -> [pc : {"idle", "limit", "added", "route", "proxy"}, limit : Nat,
                         n : 0 .. Cardinality(Requests), to : Workers \cup {Nobody}]]
  /\ put \in [Puts -> [pc : {"idle", "apply"}, limit : Nat]]

Init ==
  /\ live = StartLimit
  /\ saved = [mem |-> live, file |-> live]
  /\ inflight = 0
  /\ owner = Nobody
  /\ g = [r \in Requests |-> Idle]
  /\ put = [p \in Puts |-> [pc |-> "idle", limit |-> 0]]

-----------------------------------------------------------------------------
(* proxyAPI *)

Arrive(r) ==
  /\ g[r].pc = "idle"
  /\ g' = [g EXCEPT ![r].pc = "limit", ![r].limit = live]
  /\ UNCHANGED <<live, saved, inflight, owner, put>>

Count(r) ==
  /\ g[r].pc = "limit"
  /\ inflight' = inflight + 1
  /\ g' = [g EXCEPT ![r].pc = "added", ![r].n = inflight + 1]
  /\ UNCHANGED <<live, saved, owner, put>>

Admitted(r) == g[r].n <= g[r].limit

\* Over the limit: the place is given back and the client told to retry.
\* A mutant: the client is sent away, its place is not given back.
Bounce_KeepsPlace(r) ==
  /\ g[r].pc = "added" /\ ~ Admitted(r)
  /\ g' = [g EXCEPT ![r] = Idle]
  /\ UNCHANGED <<live, saved, inflight, owner, put>>

Bounce(r) ==
  /\ g[r].pc = "added" /\ ~ Admitted(r)
  /\ inflight' = inflight - 1
  /\ g' = [g EXCEPT ![r] = Idle]
  /\ UNCHANGED <<live, saved, owner, put>>

Admit(r) ==
  /\ g[r].pc = "added" /\ Admitted(r)
  /\ g' = [g EXCEPT ![r].pc = "route"]
  /\ UNCHANGED <<live, saved, inflight, owner, put>>

\* pickWorker: the owner of the shard when it is one of the configured workers,
\* else a worker by the hash of the session.  A binding never names a worker
\* (worker/leaser.go), so the first preference of pickWorker never applies.
Pick(r) ==
  /\ g[r].pc = "route"
  /\ \E w \in Workers :
       /\ owner \in Workers => w = owner
       /\ g' = [g EXCEPT ![r].pc = "proxy", ![r].to = w]
  /\ UNCHANGED <<live, saved, inflight, owner, put>>

\* The worker answers, or cannot be reached and the client gets a 502: there is
\* no second worker once one was tried.
Answer(r) ==
  /\ g[r].pc = "proxy"
  /\ inflight' = inflight - 1
  /\ g' = [g EXCEPT ![r] = Idle]
  /\ UNCHANGED <<live, saved, owner, put>>

-----------------------------------------------------------------------------
(* adminPutSettings: the store is changed under its lock, the file replaced,  *)
(* and the limit put in force afterwards.                                     *)

Merged(limit) == IF limit = 0 THEN saved.mem ELSE limit

Apply(p, limit) ==
  /\ put[p].pc = "idle"
  /\ saved' = [mem |-> Merged(limit), file |-> Merged(limit)]
  /\ put' = [put EXCEPT ![p] = [pc |-> "apply", limit |-> Merged(limit)]]
  /\ UNCHANGED <<live, inflight, owner, g>>

\* The file cannot be written: the store keeps the new value all the same, and
\* nothing is put in force.
ApplyFails(p, limit) ==
  /\ put[p].pc = "idle"
  /\ saved' = [saved EXCEPT !.mem = Merged(limit)]
  /\ UNCHANGED <<live, inflight, owner, g, put>>

InForceNow(p) ==
  /\ put[p].pc = "apply"
  /\ live' = put[p].limit
  /\ put' = [put EXCEPT ![p] = [pc |-> "idle", limit |-> 0]]
  /\ UNCHANGED <<saved, inflight, owner, g>>

\* The process stops and starts with the limit of the file.
Restart ==
  /\ live' = saved.file
  /\ saved' = [mem |-> saved.file, file |-> saved.file]
  /\ inflight' = 0
  /\ g' = [r \in Requests |-> Idle]
  /\ put' = [p \in Puts |-> [pc |-> "idle", limit |-> 0]]
  /\ UNCHANGED owner

OwnerChanges(o) ==
  /\ owner # o
  /\ owner' = o
  /\ UNCHANGED <<live, saved, inflight, g, put>>

Next ==
  \/ \E r \in Requests : Arrive(r) \/ Count(r) \/ Bounce(r) \/ Admit(r) \/ Pick(r) \/ Answer(r)
  \/ \E p \in Puts : InForceNow(p) \/ \E limit \in Limits : Apply(p, limit) \/ ApplyFails(p, limit)
  \/ Restart
  \/ \E o \in Owners : OwnerChanges(o)

Spec == Init /\ [][Next]_vars

-----------------------------------------------------------------------------
Inside == {r \in Requests : g[r].pc \in {"route", "proxy"}}

\* The counter is the requests inside and those about to be sent away, so that
\* rejected ones never shrink the gateway; and a request is let in only among
\* fewer than the limit it read, whatever the limit became since.
AdmissionExact ==
  /\ inflight = Cardinality(Inside \cup {r \in Requests : g[r].pc = "added"})
  /\ Inside # {} => \E q \in Inside : Cardinality(Inside) <= g[q].limit
==============================================================================
