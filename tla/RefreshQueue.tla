------------------------------ MODULE RefreshQueue ------------------------------
(***************************************************************************)
(* The queue of accounts whose tokens are due, drained by refreshers       *)
(* (internal/refresher/service.go) over internal/clusterstate: a claim     *)
(* takes a lock with a term and leaves the queue, then the token is        *)
(* exchanged with a provider that rotates it and stored with a             *)
(* compare-and-swap on the revision of the row.                            *)
(***************************************************************************)
EXTENDS Naturals, FiniteSets

CONSTANTS
  Refreshers, Accounts,
  BatchSize,     \* accounts a poll claims at most
  MaxTokens,     \* bound: tokens the provider issues for an account
  NoRefresher, NoAccount

VARIABLES
  backend,    \* "memory" or "redis"
  due,        \* due[a]: "no", "later" or "now" in the queue
  lock,       \* lock[a]: who took the lock, until its term is over
  row,        \* row[a]: token and revision in the store
  provider,   \* provider[a]: the one token the provider accepts
  rf,         \* refreshers
  pending,    \* accounts queued whose tokens were not renewed since
  forgotten,  \* accounts that left the queue with a crash or a failed store
  lost        \* accounts whose newest token went down with its holder

vars == <<backend, due, lock, row, provider, rf, pending, forgotten, lost>>

Tokens == 0 .. MaxTokens
Row == [tok : Tokens, rev : Nat]

\* seen: due accounts read and not yet tried to lock; got: claimed; on: the one
\* being refreshed, with the row read and the token the provider answered;
\* sure: claims whose lock has not run out since.
Idle == [pc |-> "idle", seen |-> {}, got |-> {}, on |-> NoAccount,
         read |-> [tok |-> 0, rev |-> 0], new |-> 0, sure |-> {}]
Claimed(r) == rf[r].got \cup (IF rf[r].on = NoAccount THEN {} ELSE {rf[r].on})

TypeOK ==
  /\ backend \in {"memory", "redis"}
  /\ due \in [Accounts -> {"no", "later", "now"}]
  /\ lock \in [Accounts -> Refreshers \cup {NoRefresher}]
  /\ row \in [Accounts -> Row]
  /\ provider \in [Accounts -> Tokens]
  /\ \A r \in Refreshers :
       /\ rf[r].pc \in {"idle", "lock", "zrem", "work", "exchange", "store", "requeue"}
       /\ rf[r].seen \subseteq Accounts /\ rf[r].sure \subseteq Claimed(r)
       /\ rf[r].read \in Row /\ rf[r].new \in Tokens
  /\ pending \subseteq Accounts /\ forgotten \subseteq Accounts /\ lost \subseteq Accounts

Init ==
  /\ backend \in {"memory", "redis"}
  /\ due = [a \in Accounts |-> "now"]
  /\ lock = [a \in Accounts |-> NoRefresher]
  /\ row = [a \in Accounts |-> [tok |-> 0, rev |-> 1]]
  /\ provider = [a \in Accounts |-> 0]
  /\ rf = [r \in Refreshers |-> Idle]
  /\ pending = Accounts /\ forgotten = {} /\ lost = {}

-----------------------------------------------------------------------------
(* ClaimRefreshDue *)

Lockable(a) == lock[a] = NoRefresher

\* Memory: one critical section over the due accounts that are not locked.
ClaimMemory(r, ids) ==
  /\ backend = "memory" /\ rf[r].pc = "idle"
  /\ ids # {} /\ Cardinality(ids) <= BatchSize
  /\ \A a \in ids : due[a] = "now" /\ Lockable(a)
  /\ lock' = [a \in Accounts |-> IF a \in ids THEN r ELSE lock[a]]
  /\ due' = [a \in Accounts |-> IF a \in ids THEN "no" ELSE due[a]]
  /\ rf' = [rf EXCEPT ![r].pc = "work", ![r].got = ids, ![r].sure = ids]
  /\ UNCHANGED <<backend, row, provider, pending, forgotten, lost>>

\* Redis: a range of the queue, then SETNX and ZREM for each account of it.
ReadDue(r) ==
  /\ backend = "redis" /\ rf[r].pc = "idle"
  /\ {a \in Accounts : due[a] = "now"} # {}
  /\ rf' = [rf EXCEPT ![r].pc = "lock", ![r].seen = {a \in Accounts : due[a] = "now"}]
  /\ UNCHANGED <<backend, due, lock, row, provider, pending, forgotten, lost>>

LockDue(r, a) ==
  /\ rf[r].pc = "lock" /\ a \in rf[r].seen /\ Cardinality(rf[r].got) < BatchSize
  /\ IF Lockable(a)
     THEN /\ lock' = [lock EXCEPT ![a] = r]
          /\ rf' = [rf EXCEPT ![r].pc = "zrem", ![r].seen = @ \ {a}, ![r].on = a, ![r].sure = @ \cup {a}]
     ELSE rf' = [rf EXCEPT ![r].seen = @ \ {a}] /\ UNCHANGED lock
  /\ UNCHANGED <<backend, due, row, provider, pending, forgotten, lost>>

RemoveDue(r) ==
  /\ rf[r].pc = "zrem"
  /\ due' = [due EXCEPT ![rf[r].on] = "no"]
  /\ rf' = [rf EXCEPT ![r].pc = "lock", ![r].got = @ \cup {rf[r].on}, ![r].on = NoAccount]
  /\ UNCHANGED <<backend, lock, row, provider, pending, forgotten, lost>>

ClaimEnds(r) ==
  /\ rf[r].pc = "lock" /\ (rf[r].seen = {} \/ Cardinality(rf[r].got) = BatchSize)
  /\ rf' = [rf EXCEPT ![r].pc = "work", ![r].seen = {}]
  /\ UNCHANGED <<backend, due, lock, row, provider, pending, forgotten, lost>>

-----------------------------------------------------------------------------
(* refreshOne, for each account claimed *)

ReadRow(r, a) ==
  /\ rf[r].pc = "work" /\ a \in rf[r].got
  /\ rf' = [rf EXCEPT ![r].pc = "exchange", ![r].got = @ \ {a}, ![r].on = a, ![r].read = row[a]]
  /\ UNCHANGED <<backend, due, lock, row, provider, pending, forgotten, lost>>

BatchEnds(r) ==
  /\ rf[r].pc = "work" /\ rf[r].got = {}
  /\ rf' = [rf EXCEPT ![r] = Idle]
  /\ UNCHANGED <<backend, due, lock, row, provider, pending, forgotten, lost>>

\* The refresher turns from the account it was at to the next of its batch.
Next1(r) == rf' = [rf EXCEPT ![r].pc = "work", ![r].on = NoAccount, ![r].sure = @ \ {rf[r].on}]

\* The row cannot be read: the error is logged, the account is not requeued.
ReadFails(r, a) ==
  /\ rf[r].pc = "work" /\ a \in rf[r].got
  /\ forgotten' = forgotten \cup {a}
  /\ rf' = [rf EXCEPT ![r].got = @ \ {a}, ![r].sure = @ \ {a}]
  /\ UNCHANGED <<backend, due, lock, row, provider, pending, lost>>

\* The provider takes the token it knows and rotates it.
Exchange(r) ==
  LET a == rf[r].on
  IN /\ rf[r].pc = "exchange" /\ rf[r].read.tok = provider[a] /\ provider[a] < MaxTokens
     /\ provider' = [provider EXCEPT ![a] = @ + 1]
     /\ rf' = [rf EXCEPT ![r].pc = "store", ![r].new = provider[a] + 1]
     /\ UNCHANGED <<backend, due, lock, row, pending, forgotten, lost>>

\* It refuses an old token, and may fail with a good one.
ExchangeFails(r) ==
  /\ rf[r].pc = "exchange"
  /\ rf' = [rf EXCEPT ![r].pc = "requeue"]
  /\ UNCHANGED <<backend, due, lock, row, provider, pending, forgotten, lost>>

\* ... with a cooldown, and due again five minutes later.
\* A mutant: a failure is only logged.
Requeue_Forgets(r) ==
  /\ rf[r].pc = "requeue"
  /\ Next1(r)
  /\ UNCHANGED <<backend, due, lock, row, provider, pending, forgotten, lost>>

Requeue(r) ==
  /\ rf[r].pc = "requeue"
  /\ due' = [due EXCEPT ![rf[r].on] = "later"]
  /\ Next1(r)
  /\ UNCHANGED <<backend, lock, row, provider, pending, forgotten, lost>>

\* UpdateTokens, against the revision that was read.
\* A mutant: the revision is not compared.
Swaps_Blindly(r) == TRUE

Swaps(r) == row[rf[r].on].rev = rf[r].read.rev

Store(r) ==
  LET a == rf[r].on
  IN /\ rf[r].pc = "store"
     /\ IF Swaps(r)
        THEN /\ row' = [row EXCEPT ![a] = [tok |-> rf[r].new, rev |-> rf[r].read.rev + 1]]
             /\ pending' = pending \ {a}
        ELSE UNCHANGED <<row, pending>>
     /\ Next1(r)
     /\ UNCHANGED <<backend, due, lock, provider, forgotten, lost>>

\* The store cannot be reached: the rotated token is lost.
StoreFails(r) ==
  /\ rf[r].pc = "store"
  /\ forgotten' = forgotten \cup {rf[r].on}
  /\ lost' = lost \cup {rf[r].on}
  /\ Next1(r)
  /\ UNCHANGED <<backend, due, lock, row, provider, pending>>

-----------------------------------------------------------------------------
(* The world around *)

\* A refresher dies with what it claimed; one that starts scans the store and
\* queues every account whose token expires soon (EnqueueExpiring).
Crash(r) ==
  /\ rf[r].pc # "idle"
  /\ forgotten' = forgotten \cup {a \in Claimed(r) : due[a] = "no"}
  /\ lost' = IF rf[r].pc = "store" THEN lost \cup {rf[r].on} ELSE lost
  /\ rf' = [rf EXCEPT ![r] = Idle]
  /\ UNCHANGED <<backend, due, lock, row, provider, pending>>

EnqueueExpiring(r, a) ==
  /\ rf[r].pc = "idle"
  /\ due' = [due EXCEPT ![a] = "now"]
  /\ pending' = pending \cup {a}
  /\ forgotten' = forgotten \ {a}
  /\ UNCHANGED <<backend, lock, row, provider, rf, lost>>

ComesDue(a) ==
  /\ due[a] = "later"
  /\ due' = [due EXCEPT ![a] = "now"]
  /\ UNCHANGED <<backend, lock, row, provider, rf, pending, forgotten, lost>>

\* The term of a lock is over, whether its account was refreshed or not.
LockLapses(a) ==
  /\ lock[a] # NoRefresher
  /\ lock' = [lock EXCEPT ![a] = NoRefresher]
  /\ rf' = [r \in Refreshers |-> [rf[r] EXCEPT !.sure = @ \ {a}]]
  /\ UNCHANGED <<backend, due, row, provider, pending, forgotten, lost>>

\* Credentials imported anew: UpsertImportedMany raises the revision.
Import(a) ==
  /\ provider[a] < MaxTokens
  /\ provider' = [provider EXCEPT ![a] = @ + 1]
  /\ row' = [row EXCEPT ![a] = [tok |-> provider[a] + 1, rev |-> @.rev + 1]]
  /\ lost' = lost \ {a} /\ pending' = pending \ {a}
  /\ UNCHANGED <<backend, due, lock, rf, forgotten>>

Next ==
  \/ \E r \in Refreshers :
       \/ ReadDue(r) \/ RemoveDue(r) \/ ClaimEnds(r) \/ BatchEnds(r) \/ Exchange(r) \/ ExchangeFails(r)
       \/ Requeue(r) \/ Store(r) \/ StoreFails(r) \/ Crash(r)
       \/ \E a \in Accounts : LockDue(r, a) \/ ReadRow(r, a) \/ ReadFails(r, a) \/ EnqueueExpiring(r, a)
       \/ \E ids \in SUBSET Accounts : ClaimMemory(r, ids)
  \/ \E a \in Accounts : ComesDue(a) \/ LockLapses(a) \/ Import(a)

Spec == Init /\ [][Next]_vars

-----------------------------------------------------------------------------
\* The token the provider accepts is in the row, or in the hands of the one
\* refresher whose compare-and-swap will put it there, unless a crash or a
\* store that could not be reached lost it.
TokenKept ==
  \A a \in Accounts \ lost :
    \/ row[a].tok = provider[a]
    \/ \E r \in Refreshers : rf[r].pc = "store" /\ rf[r].on = a /\ rf[r].new = provider[a] /\ Swaps(r)

\* An account that is due and was not renewed is in the queue or with a
\* refresher; only a crash or a store that fails between may forget it.
NoneForgotten ==
  \A a \in pending \ forgotten : due[a] # "no" \/ \E r \in Refreshers : a \in Claimed(r)

\* Two refreshers work at the same account only when the lock of one ran out.
ExchangesSerial ==
  \A q, r \in Refreshers : q # r => rf[q].sure \cap rf[r].sure = {}
==============================================================================
