----------------------------- MODULE StickyLRU -----------------------------
(***************************************************************************)
(* The sticky-session table of the account selector                        *)
(* (internal/selector/sticky.go): an LRU of at most Max bindings           *)
(*                                                                         *)
(*     sticky key  ->  primary account, optional secondary, expiry         *)
(*                                                                         *)
(* with a reverse index byAcct from an account to the keys bound to it.    *)
(* Every method holds the one mutex of the table from its first read to    *)
(* its last write, so a method is one action.  What several goroutines     *)
(* interleave is whole method calls; each passes the clock value it read   *)
(* before it took the lock, but a stale clock only shortens an expiry and  *)
(* the clock is therefore read inside the action.                          *)
(***************************************************************************)
EXTENDS Integers, FiniteSets

CONSTANTS
    Keys,      \* sticky keys (the empty key is a no-op in every method)
    Accounts,  \* account ids
    None,      \* the empty string where an account is expected
    Max,       \* capacity, stickyLRU.max
    TTL,       \* lifetime of a binding, stickyLRU.ttlSec
    MaxClock   \* bound on the clock, a limit of the model

ASSUME KeysAssumption == IsFiniteSet(Keys)
ASSUME NoneAssumption == None \notin Accounts
ASSUME MaxAssumption == Max \in Nat \ {0}
ASSUME TTLAssumption == TTL \in Nat \ {0}
ASSUME ClockAssumption == MaxClock \in Nat

VARIABLES
    now,     \* unix seconds
    entry,   \* key -> binding; Absent when items has no such key
    older,   \* the list ll: <<j, k>> when k is nearer its front than j
    byAcct   \* account -> keys that name it as primary or secondary

vars == <<now, entry, older, byAcct>>

Binding == [primary : Accounts \cup {None},
            secondary : Accounts \cup {None},
            expiresAt : 0..(MaxClock + TTL)]

Absent == [primary |-> None, secondary |-> None, expiresAt |-> 0]

Bound(k) == entry[k].primary # None

BoundKeys == {k \in Keys : Bound(k)}

Expired(k) == entry[k].expiresAt <= now

Init ==
    /\ now = 0
    /\ entry = [k \in Keys |-> Absent]
    /\ older = {}
    /\ byAcct = [a \in Accounts |-> {}]

-----------------------------------------------------------------------------
(* The doubly linked list, as the strict order of last use.                *)

\* list.Remove of the elements of K.
Unlink(K) == {p \in older : p[1] \notin K /\ p[2] \notin K}

\* list.MoveToFront, or PushFront, of k once the elements of K are removed.
ToFront(k, K) ==
    Unlink(K \cup {k}) \cup {<<j, k>> : j \in BoundKeys \ (K \cup {k})}

\* list.Back.
Oldest(k) == \A j \in BoundKeys \ {k} : <<k, j>> \in older

(* The reverse index.  An empty account id is never indexed.               *)

IndexAccount(idx, a, k) ==
    IF a = None THEN idx ELSE [idx EXCEPT ![a] = @ \cup {k}]

UnindexAccount(idx, a, k) ==
    IF a = None THEN idx ELSE [idx EXCEPT ![a] = @ \ {k}]

\* Mutant: removeElement forgets to unindex the secondary.
UnindexAll_KeepsSecondary(idx, K) ==
    [a \in Accounts |-> idx[a] \ {k \in K : entry[k].primary = a}]

\* What removeElement leaves of the index when the keys of K go.
UnindexAll(idx, K) ==
    [a \in Accounts |->
        idx[a] \ {k \in K : entry[k].primary = a \/ entry[k].secondary = a}]

-----------------------------------------------------------------------------
(* One action per method.                                                  *)

RemoveElement(k) ==
    /\ entry' = [entry EXCEPT ![k] = Absent]
    /\ older' = Unlink({k})
    /\ byAcct' = UnindexAll(byAcct, {k})

Refresh(k) == older' = ToFront(k, {})

\* getPair: a live hit renews the expiry, an expired one removes the binding.
GetPair(k) ==
    /\ Bound(k)
    /\ \/ /\ Expired(k)
          /\ RemoveElement(k)
       \/ /\ ~Expired(k)
          /\ entry' = [entry EXCEPT ![k].expiresAt = now + TTL]
          /\ Refresh(k)
          /\ UNCHANGED byAcct
    /\ UNCHANGED now

\* The secondary that putPrimary leaves when a replaces a different primary.
ShiftedSecondary(e, a) ==
    CASE e.secondary = a    -> None
      [] e.secondary = None -> e.primary
      [] OTHER              -> e.secondary

\* putPrimary on a key that is bound.
Rebind(k, a) ==
    LET e == entry[k]
        sec == IF e.primary = a THEN e.secondary ELSE ShiftedSecondary(e, a)
        dropped == UnindexAccount(byAcct, e.primary, k)
        shifted == IF e.secondary = None THEN IndexAccount(dropped, sec, k) ELSE dropped
    IN  /\ entry' = [entry EXCEPT ![k] = [primary |-> a, secondary |-> sec,
                                          expiresAt |-> now + TTL]]
        /\ byAcct' = IF e.primary = a THEN byAcct ELSE IndexAccount(shifted, a, k)
        /\ Refresh(k)

\* putPrimary on a key that is not, once the bindings of K are evicted.
InsertEvicting(k, a, K) ==
    /\ entry' = [j \in Keys |->
                    IF j = k
                      THEN [primary |-> a, secondary |-> None, expiresAt |-> now + TTL]
                      ELSE IF j \in K THEN Absent ELSE entry[j]]
    /\ byAcct' = IndexAccount(UnindexAll(byAcct, K), a, k)
    /\ older' = ToFront(k, K)

\* The eviction loop runs while the list is full; as the list never outgrows
\* Max (Capacity) its first iteration is also its last.
Insert(k, a) ==
    \/ /\ Cardinality(BoundKeys) < Max
       /\ InsertEvicting(k, a, {})
    \/ /\ Cardinality(BoundKeys) >= Max
       /\ \E old \in BoundKeys : Oldest(old) /\ InsertEvicting(k, a, {old})

\* put, that is putPrimary(now, key, accountID, true).
Put(k, a) ==
    /\ \/ Bound(k) /\ Rebind(k, a)
       \/ ~Bound(k) /\ Insert(k, a)
    /\ UNCHANGED now

\* putSecondary does nothing for a key without a binding.
PutSecondary(k, a) ==
    /\ Bound(k)
    /\ LET e == entry[k]
           dropped == UnindexAccount(byAcct, e.secondary, k)
       IN  \/ /\ e.primary = a
              /\ byAcct' = dropped
              /\ entry' = [entry EXCEPT ![k].secondary = None,
                                        ![k].expiresAt = now + TTL]
           \/ /\ e.primary # a
              /\ byAcct' = IndexAccount(dropped, a, k)
              /\ entry' = [entry EXCEPT ![k].secondary = a,
                                        ![k].expiresAt = now + TTL]
    /\ Refresh(k)
    /\ UNCHANGED now

DeleteKey(k) ==
    /\ Bound(k)
    /\ RemoveElement(k)
    /\ UNCHANGED now

\* Mutant: only the bindings it is the primary of are touched.
DeleteAccount_PrimaryOnly(a) ==
    LET gone == {k \in byAcct[a] : entry[k].primary = a}
    IN  /\ byAcct[a] # {}
        /\ entry' = [k \in Keys |-> IF k \in gone THEN Absent ELSE entry[k]]
        /\ older' = Unlink(gone)
        /\ byAcct' = [UnindexAll(byAcct, gone) EXCEPT ![a] = {}]
        /\ UNCHANGED now

\* deleteAccount finds the bindings through the reverse index only.
DeleteAccount(a) ==
    LET gone == {k \in byAcct[a] : entry[k].primary = a}
    IN  /\ byAcct[a] # {}
        /\ entry' = [k \in Keys |->
                        IF k \in gone THEN Absent
                        ELSE IF k \in byAcct[a] /\ entry[k].secondary = a
                               THEN [entry[k] EXCEPT !.secondary = None]
                               ELSE entry[k]]
        /\ older' = Unlink(gone)
        /\ byAcct' = [UnindexAll(byAcct, gone) EXCEPT ![a] = {}]
        /\ UNCHANGED now

Tick ==
    /\ now < MaxClock
    /\ now' = now + 1
    /\ UNCHANGED <<entry, older, byAcct>>

Next ==
    \/ \E k \in Keys : GetPair(k) \/ DeleteKey(k)
    \/ \E k \in Keys, a \in Accounts : Put(k, a) \/ PutSecondary(k, a)
    \/ \E a \in Accounts : DeleteAccount(a)
    \/ Tick

Spec == Init /\ [][Next]_vars

-----------------------------------------------------------------------------
(* Properties.                                                             *)

TypeOK ==
    /\ now \in 0..MaxClock
    /\ entry \in [Keys -> Binding]
    /\ older \in SUBSET (Keys \X Keys)
    /\ byAcct \in [Accounts -> SUBSET Keys]

\* The reverse index names, for each account, exactly the keys bound to it.
\* deleteAccount sees a binding only through byAcct, so a key missing there
\* keeps a failed account pinned, and one too many makes the map grow for ever.
IndexExact ==
    \A a \in Accounts :
        byAcct[a] = {k \in Keys : entry[k].primary = a \/ entry[k].secondary = a}

\* A fallback account is never the account it should replace, and there is no
\* fallback without a primary.
DistinctPair ==
    \A k \in Keys :
        entry[k].secondary # None => /\ entry[k].primary # None
                                     /\ entry[k].primary # entry[k].secondary

\* The list holds each bound key once: its order is strict and total on the
\* bound keys and mentions no other, so list and map never drift apart.
RecencyTotal ==
    /\ \A p \in older : p[1] \in BoundKeys /\ p[2] \in BoundKeys
    /\ \A j, k \in BoundKeys : j # k => (<<j, k>> \in older <=> <<k, j>> \notin older)
    /\ \A k \in BoundKeys : <<k, k>> \notin older
    /\ \A i, j, k \in BoundKeys :
          <<i, j>> \in older /\ <<j, k>> \in older => <<i, k>> \in older

\* The table never holds more than Max bindings.
Capacity == Cardinality(BoundKeys) <= Max

\* Once deleteAccount returns, no lookup of any key can return the account,
\* as primary or as fallback (ClearStickyAccount on the mark-bad path).
ClearForgets ==
    [][\A a \in Accounts : DeleteAccount(a) =>
          \A k \in Keys : entry'[k].primary # a /\ entry'[k].secondary # a]_vars
=============================================================================
