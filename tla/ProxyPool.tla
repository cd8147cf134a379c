------------------------------- MODULE ProxyPool -------------------------------
(***************************************************************************)
(* The pool of egress proxies (internal/proxypool/pool.go) and those who   *)
(* use it: the page that replaces the list, the page that binds accounts   *)
(* without a proxy (internal/admin/proxy_pool.go), and the lease of an     *)
(* account without one (internal/lease/lease.go).                          *)
(*                                                                         *)
(* A method of the pool holds its lock, except ReplaceAll, which takes it  *)
(* once per node to copy the health of that node and once more to put the  *)
(* new list in place.  Ids are those derived from the address, one node    *)
(* per address; the list is kept in the order of the addresses.            *)
(***************************************************************************)
EXTENDS Naturals, FiniteSets

CONSTANTS
  Urls,        \* addresses of proxies, 1..n in the order of the list
  Accts,       \* accounts, naturals: the hash of an account is itself
  NoProxy,     \* an empty proxy_url
  Binders,     \* goroutines that give accounts a proxy
  Editors,     \* PUT /admin/proxy-pool
  FirstCooldown,     \* seconds after the first failure, doubled up to MaxDoublings times
  MaxDoublings,
  MaxReports,  \* bound on the failures reported, a limit of the model
  MaxFaults,   \* bound on failed writes, a limit of the model
  MaxNow       \* bound on the clock, a limit of the model

VARIABLES
  nodes,    \* address -> node; Gone when the list has none
  file,     \* what the last successful persist wrote
  proxyOf,  \* account -> proxy_url in the catalog
  hotProxy, \* account -> proxy_url in its hot entry
  binder,   \* binder -> its job
  editor,   \* editor -> its replacement
  now,
  faults,   \* failed writes so far
  reports   \* failures reported so far

poolVars == <<nodes, file, proxyOf, hotProxy, binder, editor, now, faults, reports>>

Gone == [in |-> FALSE, enabled |-> FALSE, fail |-> 0, until |-> 0, assigned |-> 0]
Fresh(on) == [Gone EXCEPT !.in = TRUE, !.enabled = on]
Health(n) == <<n.fail, n.until, n.assigned>>

Resting == [pc |-> "idle", todo |-> {}, url |-> NoProxy, dry |-> FALSE, least |-> FALSE]
NoEdit == [pc |-> "idle", body |-> {}, off |-> {}, todo |-> {}, clean |-> [u \in Urls |-> Gone],
           was |-> [u \in Urls |-> {}]]

Init ==
  /\ nodes = [u \in Urls |-> Fresh(TRUE)]
  /\ file = nodes
  /\ proxyOf = [a \in Accts |-> NoProxy]
  /\ hotProxy = proxyOf
  /\ binder = [b \in Binders |-> Resting]
  /\ editor = [e \in Editors |-> NoEdit]
  /\ now = 1
  /\ faults = 0
  /\ reports = 0

Fault == faults < MaxFaults /\ faults' = faults + 1

Healthy == {u \in Urls : nodes[u].in /\ nodes[u].enabled /\ nodes[u].until <= now}

Nth(S, i) == CHOOSE u \in S : Cardinality({v \in S : v < u}) = i

\* What Pick chooses: the first of the least used, or by the hash of the account.
Chosen(a, least) ==
  IF least
    THEN CHOOSE u \in Healthy : \A v \in Healthy :
           \/ nodes[u].assigned < nodes[v].assigned
           \/ nodes[u].assigned = nodes[v].assigned /\ u <= v
    ELSE Nth(Healthy, a % Cardinality(Healthy))

\* Every change is persisted, and kept in memory when that fails.
Persist ==
  \/ file' = nodes' /\ UNCHANGED faults
  \/ UNCHANGED file /\ Fault

\* The history of an edit under way: the health each node has had since.
Watched(new) ==
  [e \in Editors |-> [editor[e] EXCEPT
     !.was = [u \in Urls |-> @[u] \cup {Health(new[u])}]]]

Change(new) ==
  /\ nodes' = new
  /\ Persist
  /\ editor' = [e \in Editors |->
                  IF editor[e].pc = "idle" THEN editor[e] ELSE Watched(new)[e]]

-----------------------------------------------------------------------------
(* ReplaceAll.                                                             *)

\* The page sends the list back as it was edited; an address named twice
\* refuses it, before anything changed.
BeginReplace(e) ==
  /\ editor[e].pc = "idle"
  /\ \E body \in SUBSET Urls, off \in SUBSET Urls :
       /\ off \subseteq body
       /\ Cardinality(off) <= 1
       /\ editor' = [editor EXCEPT ![e] = [NoEdit EXCEPT
            !.pc = "copy", !.body = body, !.off = off, !.todo = body,
            !.was = [u \in Urls |-> {Health(nodes[u])}]]]
  /\ UNCHANGED <<nodes, file, proxyOf, hotProxy, binder, now, faults, reports>>

\* Mutant: the runtime fields of the page's copy are kept.
Kept_FromPage(u, on) == Fresh(on)

\* A node of the new list with the health of the one it replaces.
Kept(u, on) ==
  IF nodes[u].in THEN [nodes[u] EXCEPT !.enabled = on] ELSE Fresh(on)

CopyHealth(e) ==
  /\ editor[e].pc = "copy"
  /\ \E u \in editor[e].todo :
       /\ \A v \in editor[e].todo : u <= v
       /\ editor' = [editor EXCEPT
            ![e].todo = @ \ {u},
            ![e].clean[u] = Kept(u, u \notin editor[e].off)]
  /\ UNCHANGED <<nodes, file, proxyOf, hotProxy, binder, now, faults, reports>>

Replace(e) ==
  /\ editor[e].pc = "copy"
  /\ editor[e].todo = {}
  /\ nodes' = editor[e].clean
  /\ Persist
  /\ editor' = [d \in Editors |->
       IF d = e THEN [NoEdit EXCEPT !.pc = "done"]
       ELSE IF editor[d].pc = "copy" THEN Watched(nodes')[d] ELSE editor[d]]
  /\ UNCHANGED <<proxyOf, hotProxy, binder, now, reports>>

-----------------------------------------------------------------------------
(* Giving accounts a proxy.                                                *)

Unbound == {a \in Accts : proxyOf[a] = NoProxy}

\* The page reads a batch of rows and leaves out those with a proxy; a lease
\* reads one row, and never as a dry run.
ReadRows(b) ==
  /\ binder[b].pc = "idle"
  /\ \E todo \in SUBSET Unbound, dry, least \in BOOLEAN :
       /\ todo # {}
       /\ todo = Unbound \/ (Cardinality(todo) = 1 /\ ~dry)
       /\ binder' = [binder EXCEPT ![b] = [pc |-> "pick", todo |-> todo,
                                           url |-> NoProxy, dry |-> dry, least |-> least]]
  /\ UNCHANGED <<nodes, file, proxyOf, hotProxy, editor, now, faults, reports>>

FirstOf(S) == CHOOSE a \in S : \A c \in S : a <= c

\* The job once its first row is dealt with.
After(job) ==
  LET rest == job.todo \ {FirstOf(job.todo)}
  IN  IF rest = {} THEN [Resting EXCEPT !.pc = "done"]
                   ELSE [job EXCEPT !.todo = rest, !.url = NoProxy, !.pc = "pick"]

\* Pool.Pick.  Nothing healthy: the row counts as failed.  A dry run counts
\* the node it would have used like any other.
PickProxy(b) ==
  LET job == binder[b]
      a == FirstOf(job.todo)
  IN  /\ job.pc = "pick"
      /\ \/ /\ Healthy = {}
            /\ binder' = [binder EXCEPT ![b] = After(job)]
            /\ UNCHANGED <<nodes, file, editor, faults>>
         \/ /\ Healthy # {}
            /\ LET u == Chosen(a, job.least)
               IN  /\ Change([nodes EXCEPT ![u].assigned = @ + 1])
                   /\ binder' = IF job.dry
                        THEN [binder EXCEPT ![b] = After(job)]
                        ELSE [binder EXCEPT ![b].url = u, ![b].pc = "bind"]
      /\ UNCHANGED <<proxyOf, hotProxy, now, reports>>

\* SetProxy writes whatever the row holds by now; the hot entry follows.
BindProxy(b) ==
  LET a == FirstOf(binder[b].todo)
  IN  /\ binder[b].pc = "bind"
      /\ \/ /\ proxyOf' = [proxyOf EXCEPT ![a] = binder[b].url]
            /\ binder' = [binder EXCEPT ![b].pc = "hot"]
            /\ UNCHANGED faults
         \/ /\ Fault                      \* the catalog refuses
            /\ binder' = [binder EXCEPT ![b] = After(@)]
            /\ UNCHANGED proxyOf
      /\ UNCHANGED <<nodes, file, hotProxy, editor, now, reports>>

PromoteProxy(b) ==
  LET a == FirstOf(binder[b].todo)
  IN  /\ binder[b].pc = "hot"
      /\ hotProxy' = [hotProxy EXCEPT ![a] = binder[b].url]
      /\ binder' = [binder EXCEPT ![b] = After(@)]
      /\ UNCHANGED <<nodes, file, proxyOf, editor, now, faults, reports>>

-----------------------------------------------------------------------------
(* Failures, and the clock.  No caller reports a success (MarkOK), so the  *)
(* failures of a node only grow.                                           *)

Reported == reports < MaxReports /\ reports' = reports + 1

Cooldown(fails) == FirstCooldown * 2^(IF fails - 1 > MaxDoublings THEN MaxDoublings ELSE fails - 1)

MarkFail(u) ==
  /\ nodes[u].in
  /\ Reported
  /\ Change([nodes EXCEPT ![u].fail = @ + 1,
                          ![u].until = now + Cooldown(nodes[u].fail + 1)])
  /\ UNCHANGED <<proxyOf, hotProxy, binder, now>>

Tick ==
  /\ now < MaxNow
  /\ now' = now + 1
  /\ UNCHANGED <<nodes, file, proxyOf, hotProxy, binder, editor, faults, reports>>

\* A restart loads the file; the goroutines and the hot entries are gone.
Restart ==
  /\ file # nodes
  /\ nodes' = file
  /\ binder' = [b \in Binders |-> [Resting EXCEPT !.pc = "done"]]
  /\ editor' = [e \in Editors |-> [NoEdit EXCEPT !.pc = "done"]]
  /\ hotProxy' = proxyOf
  /\ UNCHANGED <<file, proxyOf, now, faults, reports>>

PoolNext ==
  \/ \E e \in Editors : BeginReplace(e) \/ CopyHealth(e) \/ Replace(e)
  \/ \E b \in Binders : ReadRows(b) \/ PickProxy(b) \/ BindProxy(b) \/ PromoteProxy(b)
  \/ \E u \in Urls : MarkFail(u)
  \/ Tick \/ Restart

-----------------------------------------------------------------------------
(* Properties.                                                             *)

\* Saving the list does not forgive a node: the health it has afterwards is
\* one it had while the list was being saved.  (What is reported or assigned
\* between the copy of its health and the end may be lost, not more.)
HealthKept ==
  [][\A e \in Editors : Replace(e) => \A u \in editor[e].body :
       nodes[u].in => Health(nodes'[u]) \in editor[e].was[u]]_poolVars

\* The egress of an account, once bound, is not moved by another binding.
EgressStable ==
  [][\A a \in Accts : proxyOf[a] # NoProxy => proxyOf'[a] = proxyOf[a]]_poolVars
================================================================================
