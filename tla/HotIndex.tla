------------------------------ MODULE HotIndex ------------------------------
(***************************************************************************)
(* The hot index itself (internal/hot/index.go): the map hot, the dense    *)
(* list ids that the sampler draws from, and pos, the position of each id  *)
(* in that list, kept consistent by swap-deletion.  Every method is one    *)
(* critical section of the index's lock and so one action, with two        *)
(* exceptions:                                                             *)
(*   - LoadEligible copies capacity and inflight counts under the lock,    *)
(*     pages through the catalog without it, and takes it again to swap    *)
(*     the result in: LoadBegin and LoadCommit;                            *)
(*   - DemoteMany removes ids one by one in a single critical section:     *)
(*     while batch is not empty the lock is held and only DemoteNext runs. *)
(***************************************************************************)
EXTENDS HotOps, Sequences

CONSTANTS
    Loaders,       \* goroutines that may run LoadEligible
    MaxCap,        \* largest capacity Resize is called with
    MaxCount       \* bound on inflight and failure counts, a limit of the model

ASSUME MaxCapAssumption == MaxCap \in Nat \ {0}
ASSUME MaxCountAssumption == MaxCount \in Nat

VARIABLES
    hot,      \* account -> Meta, for the accounts that are hot
    ids,      \* dense list of the hot ids
    pos,      \* hot id -> its position in ids
    cap,      \* capacity
    closed,   \* after Close every write fails
    batch,    \* ids DemoteMany still has to remove in its critical section
    load      \* loader -> what its first critical section copied, or NoLoad

vars == <<hot, ids, pos, cap, closed, batch, load>>

NoLoad == [busy |-> FALSE, cap |-> 0, saved |-> <<>>]

Init ==
    /\ hot = [a \in {} |-> FreshMeta]
    /\ ids = <<>>
    /\ pos = [a \in {} |-> 0]
    /\ cap \in 1..MaxCap
    /\ closed = FALSE
    /\ batch = {}
    /\ load = [l \in Loaders |-> NoLoad]

\* The lock is free and the index open.
Open == batch = {} /\ ~closed

\* Metas a caller may pass: FailureScore is the field the victim choice reads.
Inputs == {[FreshMeta EXCEPT !.failure = f] : f \in 0..MaxCount}

-----------------------------------------------------------------------------
(* The dense list.                                                         *)

\* addLocked.
Added(p, n, a) == [b \in DOMAIN p \cup {a} |-> IF b = a THEN n + 1 ELSE p[b]]

\* removeLocked on ids: the last id moves into the hole.
ListWithout(a) ==
    [j \in 1..(Len(ids) - 1) |-> IF j = pos[a] THEN ids[Len(ids)] ELSE ids[j]]

\* Mutant: the position of the moved id is not updated.
PosWithout_Stale(a) == [b \in DOMAIN pos \ {a} |-> pos[b]]

\* removeLocked on pos.
PosWithout(a) ==
    [b \in DOMAIN pos \ {a} |-> IF b = ids[Len(ids)] THEN pos[a] ELSE pos[b]]

Remove(a) ==
    /\ hot' = Less(hot, {a})
    /\ ids' = ListWithout(a)
    /\ pos' = PosWithout(a)

\* The sequences that name each element of S once.
Enumerations(S) ==
    {s \in [1..Cardinality(S) -> S] :
        /\ \A i, j \in DOMAIN s : i # j => s[i] # s[j]
        /\ \A a \in S : \E i \in DOMAIN s : s[i] = a}

\* replaceAllLocked: the order is that of a map iteration, hence any.
ReplaceAll(next) ==
    /\ hot' = next
    /\ \E s \in Enumerations(DOMAIN next) :
          /\ ids' = s
          /\ pos' = [a \in DOMAIN next |-> CHOOSE i \in DOMAIN s : s[i] = a]

-----------------------------------------------------------------------------
(* One action per method.                                                  *)

\* Mutant: an index at its capacity still takes one more account.
PromoteNew_OffByOne(a, m) ==
    /\ a \notin DOMAIN hot
    /\ \/ /\ Cardinality(DOMAIN hot) <= cap
          /\ hot' = With(hot, a, m)
          /\ ids' = Append(ids, a)
          /\ pos' = Added(pos, Len(ids), a)
       \/ /\ Cardinality(DOMAIN hot) > cap
          /\ \E v \in DOMAIN hot :
                /\ IsVictim(hot, v)
                /\ hot' = With(Less(hot, {v}), a, m)
                /\ ids' = Append(ListWithout(v), a)
                /\ pos' = Added(PosWithout(v), Len(ids) - 1, a)

PromoteNew(a, m) ==
    /\ a \notin DOMAIN hot
    /\ \/ /\ Cardinality(DOMAIN hot) < cap
          /\ hot' = With(hot, a, m)
          /\ ids' = Append(ids, a)
          /\ pos' = Added(pos, Len(ids), a)
       \/ /\ Cardinality(DOMAIN hot) >= cap
          /\ \E v \in DOMAIN hot :
                /\ IsVictim(hot, v)
                /\ hot' = With(Less(hot, {v}), a, m)
                /\ ids' = Append(ListWithout(v), a)
                /\ pos' = Added(PosWithout(v), Len(ids) - 1, a)

Promote(a, m) ==
    /\ Open
    /\ \/ /\ a \in DOMAIN hot
          /\ hot' = Updated(hot, a, m)
          /\ UNCHANGED <<ids, pos>>
       \/ PromoteNew(a, m)
    /\ UNCHANGED <<cap, closed, batch, load>>

Demote(a) ==
    /\ Open
    /\ a \in DOMAIN hot
    /\ Remove(a)
    /\ UNCHANGED <<cap, closed, batch, load>>

DemoteMany(S) ==
    /\ Open
    /\ S # {}
    /\ batch' = S
    /\ UNCHANGED <<hot, ids, pos, cap, closed, load>>

DemoteNext(a) ==
    /\ a \in batch
    /\ batch' = batch \ {a}
    /\ \/ a \in DOMAIN hot /\ Remove(a)
       \/ a \notin DOMAIN hot /\ UNCHANGED <<hot, ids, pos>>
    /\ UNCHANGED <<cap, closed, load>>

\* Resize drops the tail of the list and does not look at closed.
Resize(n) ==
    LET kept == {ids[i] : i \in 1..(IF Len(ids) < n THEN Len(ids) ELSE n)}
    IN  /\ batch = {}
        /\ cap' = n
        /\ hot' = [a \in kept |-> hot[a]]
        /\ pos' = [a \in kept |-> pos[a]]
        /\ ids' = IF Len(ids) <= n THEN ids ELSE SubSeq(ids, 1, n)
        /\ UNCHANGED <<closed, batch, load>>

AddInflight(a) ==
    /\ Open
    /\ a \in DOMAIN hot
    /\ hot[a].inflight < MaxCount
    /\ hot' = Incremented(hot, a)
    /\ UNCHANGED <<ids, pos, cap, closed, batch, load>>

SubInflight(a) ==
    /\ Open
    /\ a \in DOMAIN hot
    /\ hot' = Decremented(hot, a)
    /\ UNCHANGED <<ids, pos, cap, closed, batch, load>>

SetCooldown(a, until) ==
    /\ Open
    /\ a \in DOMAIN hot
    /\ hot' = [hot EXCEPT ![a].coolUntil = until]
    /\ UNCHANGED <<ids, pos, cap, closed, batch, load>>

\* LoadMetas keeps the counts of the accounts that stay, in one section.
LoadMetas(S, m) ==
    /\ Open
    /\ Cardinality(S) <= cap
    /\ ReplaceAll(Rebuilt([a \in S |-> m], S, InflightOf(hot)))
    /\ UNCHANGED <<cap, closed, batch, load>>

LoadBegin(l) ==
    /\ Open
    /\ ~load[l].busy
    /\ load' = [load EXCEPT ![l] = [busy |-> TRUE, cap |-> cap, saved |-> InflightOf(hot)]]
    /\ UNCHANGED <<hot, ids, pos, cap, closed, batch>>

\* The rows the catalog listed, at most as many as the capacity copied before.
LoadCommit(l, S, m) ==
    /\ Open
    /\ load[l].busy
    /\ Cardinality(S) <= load[l].cap
    /\ ReplaceAll(Rebuilt([a \in S |-> m], S, load[l].saved))
    /\ load' = [load EXCEPT ![l] = NoLoad]
    /\ UNCHANGED <<cap, closed, batch>>

\* LoadEligible gives up: the catalog failed, or the index was closed meanwhile.
LoadAbort(l) ==
    /\ batch = {}
    /\ load[l].busy
    /\ load' = [load EXCEPT ![l] = NoLoad]
    /\ UNCHANGED <<hot, ids, pos, cap, closed, batch>>

Close ==
    /\ Open
    /\ closed' = TRUE
    /\ UNCHANGED <<hot, ids, pos, cap, batch, load>>

Next ==
    \/ \E a \in Accounts, m \in Inputs : Promote(a, m)
    \/ \E a \in Accounts : Demote(a) \/ DemoteNext(a) \/ AddInflight(a) \/ SubInflight(a)
    \/ \E a \in Accounts, until \in 0..MaxCount : SetCooldown(a, until)
    \/ \E S \in SUBSET Accounts : DemoteMany(S)
    \/ \E S \in SUBSET Accounts, m \in Inputs : LoadMetas(S, m)
    \/ \E n \in 1..MaxCap : Resize(n)
    \/ \E l \in Loaders : LoadBegin(l) \/ LoadAbort(l)
    \/ \E l \in Loaders, S \in SUBSET Accounts, m \in Inputs : LoadCommit(l, S, m)
    \/ Close

Spec == Init /\ [][Next]_vars

-----------------------------------------------------------------------------
(* Properties.                                                             *)

TypeOK ==
    /\ DOMAIN hot \subseteq Accounts
    /\ \A a \in DOMAIN hot : hot[a] \in Meta
    /\ ids \in Seq(Accounts)
    /\ cap \in 1..MaxCap
    /\ closed \in BOOLEAN
    /\ batch \subseteq Accounts
    /\ \A l \in Loaders : load[l].cap \in 0..MaxCap

\* The sampler draws from ids and the removal from pos: the list names every
\* hot account exactly once, and pos finds it there.  A duplicate or a missing
\* id would skew or starve an account without any error.
DenseExact ==
    /\ DOMAIN pos = DOMAIN hot
    /\ \A a \in DOMAIN hot : pos[a] \in 1..Len(ids) /\ ids[pos[a]] = a
    /\ \A i \in 1..Len(ids) : ids[i] \in DOMAIN hot /\ pos[ids[i]] = i

\* Whatever pushes the hot set over its capacity is a LoadEligible that began
\* under a larger one; Promote never does, and Resize leaves at most n.
GrowthWithinCap ==
    [][ Cardinality(DOMAIN hot') <= cap'
        \/ (cap' = cap /\ Cardinality(DOMAIN hot') <= Cardinality(DOMAIN hot))
        \/ \E l \in Loaders : /\ load[l].busy /\ ~load'[l].busy
                              /\ Cardinality(DOMAIN hot') <= load[l].cap ]_vars

\* Only leases change the count of an account that stays hot, except for a
\* LoadEligible that another method overtook.
InflightByLeases ==
    [][ \A a \in DOMAIN hot \cap DOMAIN hot' :
          \/ hot'[a].inflight = hot[a].inflight
          \/ AddInflight(a)
          \/ SubInflight(a)
          \/ \E l \in Loaders : load[l].busy /\ ~load'[l].busy ]_vars

\* No step but that of a reload outgrows the capacity or invents leases.
StepsSound == GrowthWithinCap /\ InflightByLeases
=============================================================================
