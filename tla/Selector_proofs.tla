-------------------------- MODULE Selector_proofs --------------------------
(* Proofs about StickyLRU and the Selector that uses it.  The invariant of  *)
(* the table is the conjunction of the type invariant with the four         *)
(* structural invariants: the update of the reverse index is exact only     *)
(* because a binding has two different accounts, and the list evicts a      *)
(* bound key only because the order mentions no other.  That of the         *)
(* selector adds what a pick has read so far (PickInv) and that the members *)
(* of the top layer before the cursor are one turn ahead (TurnInv).         *)
EXTENDS Selector, FiniteSetTheorems, WellFoundedInduction, TLAPS

IInv == TypeOK /\ IndexExact /\ DistinctPair

\* A key that moves to the front leaves the list a relation on keys.
LEMMA FrontTyped ==
  ASSUME older \in SUBSET (Keys \X Keys), NEW k \in Keys
  PROVE  ToFront(k, {}) \in SUBSET (Keys \X Keys)
  BY DEF ToFront, Unlink, BoundKeys

\* A lookup that hits renews the expiry and nothing else of a binding.
LEMMA LookupRenews ==
  ASSUME TypeOK, NEW k \in Keys, GetPair(k), ~Expired(k)
  PROVE  /\ entry' \in [Keys -> Binding]
         /\ \A j \in Keys : /\ entry'[j].primary = entry[j].primary
                           /\ entry'[j].secondary = entry[j].secondary
<1>1. entry' = [entry EXCEPT ![k].expiresAt = now + TTL]
  BY DEF GetPair
<1>2. entry \in [Keys -> Binding] /\ now + TTL \in 0..(MaxClock + TTL)
  BY TTLAssumption, ClockAssumption DEF TypeOK
<1> DEFINE b == [entry[k] EXCEPT !.expiresAt = now + TTL]
<1>3. b \in Binding /\ b.primary = entry[k].primary /\ b.secondary = entry[k].secondary
  BY <1>2 DEF Binding
<1>4. entry' = [entry EXCEPT ![k] = b]
  BY <1>1, <1>2
<1> HIDE DEF b
<1> QED BY <1>2, <1>3, <1>4

\* putSecondary changes the fallback of one binding and renews it.
LEMMA SecondarySet ==
  ASSUME TypeOK, NEW k \in Keys, NEW a \in Accounts, PutSecondary(k, a),
         NEW s, s = IF entry[k].primary = a THEN None ELSE a
  PROVE  /\ entry' \in [Keys -> Binding]
         /\ entry'[k].primary = entry[k].primary /\ entry'[k].secondary = s
         /\ \A j \in Keys \ {k} : entry'[j] = entry[j]
<1>1. entry' = [entry EXCEPT ![k].secondary = s, ![k].expiresAt = now + TTL]
  BY DEF PutSecondary
<1>2. /\ entry \in [Keys -> Binding] /\ now + TTL \in 0..(MaxClock + TTL)
      /\ s \in Accounts \cup {None}
  BY TTLAssumption, ClockAssumption DEF TypeOK
<1> DEFINE b == [entry[k] EXCEPT !.secondary = s, !.expiresAt = now + TTL]
<1>3. b \in Binding /\ b.primary = entry[k].primary /\ b.secondary = s
  BY <1>2 DEF Binding
<1>4. entry' = [entry EXCEPT ![k] = b]
  BY <1>1, <1>2
<1> HIDE DEF b
<1> QED BY <1>2, <1>3, <1>4

\* The reverse index, the pairs and the types are kept by every method.
LEMMA IndexInductive == IInv /\ [Next]_vars => IInv'
<1> SUFFICES ASSUME IInv, [Next]_vars PROVE IInv'
  OBVIOUS
<1> USE NoneAssumption, MaxAssumption, TTLAssumption, ClockAssumption
<1> USE DEF IInv, TypeOK, IndexExact, DistinctPair, Binding, Absent
<1>1. ASSUME NEW k \in Keys, RemoveElement(k), UNCHANGED now PROVE IInv'
  BY <1>1 DEF RemoveElement, UnindexAll, Unlink
<1>2. ASSUME NEW k \in Keys, GetPair(k) PROVE IInv'
  <2>1. CASE Expired(k)
    BY <1>1, <1>2, <2>1 DEF GetPair
  <2>2. CASE ~Expired(k)
    <3>1. /\ entry' = [entry EXCEPT ![k].expiresAt = now + TTL] /\ older' = ToFront(k, {})
          /\ UNCHANGED <<byAcct, now>>
      BY <1>2, <2>2 DEF GetPair, Refresh
    <3>2. entry' \in [Keys -> Binding]
          /\ \A j \in Keys : entry'[j].primary = entry[j].primary /\ entry'[j].secondary = entry[j].secondary
      <4> HIDE DEF IInv, TypeOK, Binding
      <4> QED BY <1>2, <2>2, LookupRenews DEF IInv
    <3>3. older' \in SUBSET (Keys \X Keys)
      BY <3>1, FrontTyped
    <3> QED BY <3>1, <3>2, <3>3
  <2> QED BY <2>1, <2>2
<1>3. ASSUME NEW k \in Keys, DeleteKey(k) PROVE IInv'
  BY <1>1, <1>3 DEF DeleteKey
<1>4. ASSUME NEW k \in Keys, NEW a \in Accounts, Put(k, a) PROVE IInv'
  <2>1. CASE Bound(k) /\ Rebind(k, a)
    BY <1>4, <2>1 DEF Put, Rebind, ShiftedSecondary, IndexAccount, UnindexAccount,
                      Refresh, ToFront, Unlink, BoundKeys, Bound
  <2>2. CASE ~Bound(k) /\ Insert(k, a)
    <3>1. PICK K \in SUBSET BoundKeys : InsertEvicting(k, a, K)
      BY <2>2 DEF Insert
    <3> QED
      BY <1>4, <2>2, <3>1 DEF Put, InsertEvicting, IndexAccount, UnindexAll,
                              ToFront, Unlink, BoundKeys, Bound
  <2> HIDE NoneAssumption, MaxAssumption, TTLAssumption, ClockAssumption
  <2> HIDE DEF IInv, TypeOK, IndexExact, DistinctPair, Binding, Absent
  <2> QED BY <1>4, <2>1, <2>2, Zenon DEF Put
<1>5. ASSUME NEW k \in Keys, NEW a \in Accounts, PutSecondary(k, a) PROVE IInv'
  <2> DEFINE e == entry[k]
             s == IF e.primary = a THEN None ELSE a
  <2>1. /\ entry' = [entry EXCEPT ![k].secondary = s, ![k].expiresAt = now + TTL]
        /\ older' = ToFront(k, {}) /\ UNCHANGED now /\ e.primary # None
    BY <1>5 DEF PutSecondary, Refresh, Bound
  <2>2. byAcct' = IndexAccount(UnindexAccount(byAcct, e.secondary, k), s, k)
    BY <1>5 DEF PutSecondary, IndexAccount
  <2>3. older' \in SUBSET (Keys \X Keys)
    BY <2>1, FrontTyped
  <2>4. entry' \in [Keys -> Binding]
        /\ entry'[k].primary = e.primary /\ entry'[k].secondary = s
        /\ \A j \in Keys \ {k} : entry'[j] = entry[j]
    <3> HIDE DEF IInv, TypeOK, Binding
    <3> QED BY <1>5, SecondarySet DEF IInv
  <2>5. byAcct' \in [Accounts -> SUBSET Keys]
        /\ \A b \in Accounts : byAcct'[b] = (byAcct[b] \ (IF b = e.secondary THEN {k} ELSE {}))
                                              \cup (IF b = s THEN {k} ELSE {})
    BY <2>2 DEF IndexAccount, UnindexAccount
  <2>6. e \in Binding /\ s # e.primary /\ e.primary # e.secondary
    BY <2>1
  <2> HIDE DEF s
  <2>7. IndexExact'
    BY <2>4, <2>5, <2>6
  <2> QED BY <2>1, <2>3, <2>4, <2>5, <2>6, <2>7
<1>6. ASSUME NEW a \in Accounts, DeleteAccount(a) PROVE IInv'
  <2> DEFINE gone == {k \in byAcct[a] : entry[k].primary = a}
  <2>1. /\ entry' = [k \in Keys |-> IF k \in gone THEN Absent
                                    ELSE IF k \in byAcct[a] /\ entry[k].secondary = a
                                         THEN [entry[k] EXCEPT !.secondary = None] ELSE entry[k]]
        /\ older' = Unlink(gone) /\ UNCHANGED now
        /\ byAcct' = [UnindexAll(byAcct, gone) EXCEPT ![a] = {}]
    BY <1>6 DEF DeleteAccount
  <2>2. /\ gone = {k \in Keys : entry[k].primary = a} /\ gone \subseteq Keys
        /\ byAcct[a] = {k \in Keys : entry[k].primary = a \/ entry[k].secondary = a}
    OBVIOUS
  <2> HIDE DEF gone
  <2>3. entry' \in [Keys -> Binding]
    BY <2>1, <2>2
  <2>4. \A k \in Keys :
          /\ entry'[k].primary = IF entry[k].primary = a THEN None ELSE entry[k].primary
          /\ entry'[k].secondary = IF entry[k].primary = a \/ entry[k].secondary = a THEN None
                                   ELSE entry[k].secondary
    BY <2>1, <2>2
  <2>5. older' \in SUBSET (Keys \X Keys)
    BY <2>1 DEF Unlink
  <2>6. byAcct' \in [Accounts -> SUBSET Keys] /\ byAcct'[a] = {}
        /\ \A b \in Accounts \ {a} :
              byAcct'[b] = {k \in byAcct[b] : entry[k].primary # a}
    BY <2>1, <2>2 DEF UnindexAll
  <2>7. IndexExact'
    BY <2>4, <2>6
  <2> QED BY <2>1, <2>3, <2>4, <2>5, <2>6, <2>7
<1>7. CASE Tick
  BY <1>7 DEF Tick
<1>8. CASE UNCHANGED vars
  BY <1>8 DEF vars
<1> QED
  BY <1>2, <1>3, <1>4, <1>5, <1>6, <1>7, <1>8 DEF Next

LEMMA IndexInit == Init => IInv
  BY NoneAssumption, ClockAssumption, MaxAssumption, TTLAssumption
     DEF Init, IInv, TypeOK, IndexExact, DistinctPair, Binding, Absent

\* Every state of the table is well typed.
THEOREM TypeCorrect == Spec => []TypeOK
<1>1. IInv => TypeOK
  BY DEF IInv
<1> QED
  BY IndexInit, IndexInductive, <1>1, PTL DEF Spec

\* deleteAccount finds every binding of an account: the reverse index never
\* misses a key and never keeps one too many.
THEOREM IndexAlwaysExact == Spec => []IndexExact
<1>1. IInv => IndexExact
  BY DEF IInv
<1> QED
  BY IndexInit, IndexInductive, <1>1, PTL DEF Spec

\* The secondary of a binding is never its primary.
THEOREM PairAlwaysDistinct == Spec => []DistinctPair
<1>1. IInv => DistinctPair
  BY DEF IInv
<1> QED
  BY IndexInit, IndexInductive, <1>1, PTL DEF Spec

\* No lookup returns an account that has just been cleared.
THEOREM ClearAlwaysForgets == Spec => ClearForgets
<1>1. IInv /\ [Next]_vars =>
        [\A a \in Accounts : DeleteAccount(a) =>
            \A k \in Keys : entry'[k].primary # a /\ entry'[k].secondary # a]_vars
  <2> SUFFICES ASSUME IInv, NEW a \in Accounts, DeleteAccount(a), NEW k \in Keys
               PROVE  entry'[k].primary # a /\ entry'[k].secondary # a
    OBVIOUS
  <2> QED
    BY NoneAssumption DEF DeleteAccount, IInv, TypeOK, IndexExact, DistinctPair,
                          Binding, Absent
<1> QED
  BY IndexInit, IndexInductive, <1>1, PTL DEF Spec, ClearForgets

-----------------------------------------------------------------------------
\* Capacity: a key is bound only by InsertEvicting, which runs either below
\* Max or after a bound key has been dropped.

LEMMA BoundFinite == IsFiniteSet(BoundKeys) /\ Cardinality(BoundKeys) \in Nat
  BY KeysAssumption, FS_Subset, FS_CardinalityType DEF BoundKeys

LEMMA CapacityInductive == IInv /\ Capacity /\ [Next]_vars => Capacity'
<1> SUFFICES ASSUME IInv, Capacity, [Next]_vars PROVE Capacity'
  OBVIOUS
<1> USE NoneAssumption, MaxAssumption
<1>1. ASSUME BoundKeys' \subseteq BoundKeys PROVE Capacity'
  BY <1>1, BoundFinite, FS_Subset, FS_CardinalityType DEF Capacity
<1>2. ASSUME NEW k \in Keys, NEW a \in Accounts, Put(k, a) PROVE Capacity'
  <2>1. CASE Bound(k) /\ Rebind(k, a)
    BY <1>1, <2>1 DEF Rebind, BoundKeys, Bound, IInv, TypeOK
  <2>2. CASE ~Bound(k) /\ Insert(k, a)
    <3>1. ASSUME NEW K \in SUBSET BoundKeys, InsertEvicting(k, a, K)
          PROVE  BoundKeys' = (BoundKeys \ K) \cup {k}
      BY <2>2, <3>1 DEF InsertEvicting, BoundKeys, Bound, Absent, IInv, TypeOK
    <3>2. CASE Cardinality(BoundKeys) < Max /\ InsertEvicting(k, a, {})
      <4>1. BoundKeys' = BoundKeys \cup {k}
        BY <3>1, <3>2
      <4>2. Cardinality(BoundKeys \cup {k}) = Cardinality(BoundKeys) + 1
        BY <2>2, BoundFinite, FS_AddElement DEF BoundKeys
      <4> QED BY <3>2, <4>1, <4>2, BoundFinite DEF Capacity
    <3>3. ASSUME NEW old \in BoundKeys, InsertEvicting(k, a, {old}) PROVE Capacity'
      <4>1. BoundKeys' = (BoundKeys \ {old}) \cup {k}
        BY <3>1, <3>3
      <4>2. /\ IsFiniteSet(BoundKeys \ {old})
            /\ Cardinality(BoundKeys \ {old}) = Cardinality(BoundKeys) - 1
        BY <3>3, BoundFinite, FS_RemoveElement
      <4>3. Cardinality((BoundKeys \ {old}) \cup {k}) = Cardinality(BoundKeys \ {old}) + 1
        BY <2>2, <4>2, FS_AddElement DEF BoundKeys
      <4> QED BY <4>1, <4>2, <4>3, BoundFinite DEF Capacity
    <3> QED BY <2>2, <3>2, <3>3 DEF Insert
  <2> QED BY <1>2, <2>1, <2>2 DEF Put
<1>3. ASSUME NEW k \in Keys, GetPair(k) PROVE Capacity'
  BY <1>1, <1>3 DEF GetPair, RemoveElement, BoundKeys, Bound, Absent, IInv, TypeOK
<1>4. ASSUME NEW k \in Keys, DeleteKey(k) PROVE Capacity'
  BY <1>1, <1>4 DEF DeleteKey, RemoveElement, BoundKeys, Bound, Absent, IInv, TypeOK
<1>5. ASSUME NEW k \in Keys, NEW a \in Accounts, PutSecondary(k, a) PROVE Capacity'
  <2>1. BoundKeys' \subseteq BoundKeys
    <3>1. CASE entry[k].primary = a
      BY <1>5, <3>1 DEF PutSecondary, BoundKeys, Bound, IInv, TypeOK, Binding
    <3>2. CASE entry[k].primary # a
      BY <1>5, <3>2 DEF PutSecondary, BoundKeys, Bound, IInv, TypeOK, Binding
    <3> QED BY <3>1, <3>2
  <2> QED BY <1>1, <2>1
<1>6. ASSUME NEW a \in Accounts, DeleteAccount(a) PROVE Capacity'
  <2>1. BoundKeys' \subseteq BoundKeys
    BY <1>6 DEF DeleteAccount, BoundKeys, Bound, Absent, IInv, TypeOK, Binding
  <2> QED BY <1>1, <2>1
<1>7. CASE UNCHANGED entry
  BY <1>1, <1>7 DEF BoundKeys, Bound
<1> QED
  BY <1>2, <1>3, <1>4, <1>5, <1>6, <1>7 DEF Next, Tick, vars

\* The table never outgrows its capacity, whatever the number of keys.
THEOREM CapacityHolds == Spec => []Capacity
<1>1. Init => Capacity
  <2> SUFFICES ASSUME Init PROVE Capacity
    OBVIOUS
  <2>1. BoundKeys = {}
    BY DEF Init, BoundKeys, Bound, Absent
  <2> QED BY <2>1, FS_EmptySet, MaxAssumption DEF Capacity
<1> QED
  BY IndexInit, IndexInductive, CapacityInductive, <1>1, PTL DEF Spec

-----------------------------------------------------------------------------
\* The list: every method relinks it by ToFront or Unlink, and the set of bound
\* keys changes by the same keys.

LEMMA RecencyInductive == IInv /\ RecencyTotal /\ [Next]_vars => RecencyTotal'
<1> SUFFICES ASSUME IInv, RecencyTotal, [Next]_vars PROVE RecencyTotal'
  OBVIOUS
<1> USE NoneAssumption
<1>1. ASSUME NEW K \in SUBSET BoundKeys, older' = Unlink(K),
             BoundKeys' = BoundKeys \ K
      PROVE  RecencyTotal'
  BY <1>1 DEF RecencyTotal, Unlink
<1>2. ASSUME NEW k \in Keys, NEW K \in SUBSET BoundKeys, older' = ToFront(k, K),
             BoundKeys' = (BoundKeys \ K) \cup {k}
      PROVE  RecencyTotal'
  BY <1>2 DEF RecencyTotal, ToFront, Unlink
<1>3. ASSUME NEW k \in Keys, Bound(k), RemoveElement(k) PROVE RecencyTotal'
  <2>1. BoundKeys' = BoundKeys \ {k}
    BY <1>3 DEF RemoveElement, BoundKeys, Bound, Absent, IInv, TypeOK
  <2> QED BY <1>1, <1>3, <2>1 DEF RemoveElement, BoundKeys
<1>4. ASSUME NEW k \in Keys, NEW a \in Accounts, Put(k, a) PROVE RecencyTotal'
  <2>1. CASE Bound(k) /\ Rebind(k, a)
    <3>1. BoundKeys' = (BoundKeys \ {}) \cup {k}
      BY <2>1 DEF Rebind, BoundKeys, Bound, IInv, TypeOK
    <3> QED BY <1>2, <2>1, <3>1 DEF Rebind, Refresh
  <2>2. CASE ~Bound(k) /\ Insert(k, a)
    <3>1. PICK K \in SUBSET BoundKeys : InsertEvicting(k, a, K)
      BY <2>2 DEF Insert
    <3>2. BoundKeys' = (BoundKeys \ K) \cup {k}
      BY <2>2, <3>1 DEF InsertEvicting, BoundKeys, Bound, Absent, IInv, TypeOK
    <3> QED BY <1>2, <3>1, <3>2 DEF InsertEvicting
  <2> QED BY <1>4, <2>1, <2>2 DEF Put
<1>5. ASSUME NEW k \in Keys, GetPair(k) PROVE RecencyTotal'
  <2>1. CASE ~Expired(k)
    <3>1. BoundKeys' = (BoundKeys \ {}) \cup {k}
      BY <1>5, <2>1 DEF GetPair, BoundKeys, Bound, IInv, TypeOK, Binding
    <3> QED BY <1>2, <1>5, <2>1, <3>1 DEF GetPair, Refresh
  <2> QED BY <1>3, <1>5, <2>1 DEF GetPair
<1>6. ASSUME NEW k \in Keys, DeleteKey(k) PROVE RecencyTotal'
  BY <1>3, <1>6 DEF DeleteKey
<1>7. ASSUME NEW k \in Keys, NEW a \in Accounts, PutSecondary(k, a) PROVE RecencyTotal'
  <2>1. BoundKeys' = (BoundKeys \ {}) \cup {k}
    <3>1. CASE entry[k].primary = a
      BY <1>7, <3>1 DEF PutSecondary, BoundKeys, Bound, IInv, TypeOK, Binding
    <3>2. CASE entry[k].primary # a
      BY <1>7, <3>2 DEF PutSecondary, BoundKeys, Bound, IInv, TypeOK, Binding
    <3> QED BY <3>1, <3>2
  <2> QED BY <1>2, <1>7, <2>1 DEF PutSecondary, Refresh
<1>8. ASSUME NEW a \in Accounts, DeleteAccount(a) PROVE RecencyTotal'
  <2> DEFINE gone == {k \in byAcct[a] : entry[k].primary = a}
  <2>1. gone \in SUBSET BoundKeys
    BY DEF BoundKeys, Bound, IInv, TypeOK
  <2>2. BoundKeys' = BoundKeys \ gone
    BY <1>8 DEF DeleteAccount, BoundKeys, Bound, Absent, IInv, TypeOK, Binding
  <2>3. older' = Unlink(gone)
    BY <1>8 DEF DeleteAccount
  <2> QED BY <1>1, <2>1, <2>2, <2>3
<1>9. CASE UNCHANGED <<entry, older>>
  BY <1>9 DEF RecencyTotal, BoundKeys, Bound
<1> QED
  BY <1>4, <1>5, <1>6, <1>7, <1>8, <1>9 DEF Next, Tick, vars

\* List and map hold the same keys and the list orders them totally, so the
\* eviction loop always finds an oldest binding among the bound keys.
THEOREM RecencyAlwaysTotal == Spec => []RecencyTotal
<1>1. Init => RecencyTotal
  BY DEF Init, RecencyTotal, BoundKeys, Bound, Absent
<1> QED
  BY IndexInit, IndexInductive, RecencyInductive, <1>1, PTL DEF Spec

-----------------------------------------------------------------------------
\* The table inside the selector.  A pick moves it by whole methods only, and a
\* table that ApplyConfig replaces starts empty.

TableInv == IInv /\ Capacity /\ RecencyTotal

Emptied == /\ entry' = [k \in Keys |-> Absent] /\ older' = {}
           /\ byAcct' = [a \in Accounts |-> {}] /\ now' = now

LEMMA TableKept == TableInv /\ ([Next]_vars \/ Emptied) => TableInv'
<1>1. TableInv /\ [Next]_vars => TableInv'
  BY IndexInductive, CapacityInductive, RecencyInductive DEF TableInv
<1>2. ASSUME TableInv, Emptied PROVE TableInv'
  <2>1. BoundKeys' = {} /\ older' = {}
    BY <1>2 DEF Emptied, BoundKeys, Bound, Absent
  <2>2. IInv'
    BY <1>2, NoneAssumption, MaxAssumption, TTLAssumption, ClockAssumption
       DEF TableInv, Emptied, IInv, TypeOK, IndexExact, DistinctPair, Binding, Absent
  <2>3. Capacity'
    BY <2>1, FS_EmptySet, MaxAssumption DEF Capacity
  <2>4. RecencyTotal'
    BY <2>1 DEF RecencyTotal
  <2> QED BY <2>2, <2>3, <2>4 DEF TableInv
<1> QED BY <1>1, <1>2

\* What a pick may rely on between two of its sections: the accounts eligible
\* all along are eligible now, and those are among the ones eligible at some moment.
Answered(t) ==
  IF t.id # None THEN t.id \in t.seen \ t.exclude ELSE t.always \subseteq t.exclude

PickFields == {"pc", "key", "strategy", "exclude", "current", "primary", "secondary",
               "layer", "id", "seen", "always"}

PickOK(t) ==
  /\ DOMAIN t = PickFields
  /\ t.key \in Keys \cup {NoKey}
  /\ t.pc = "lookup" => t.key \in Keys
  /\ t.pc \notin {"idle", "done"} => t.always \subseteq eligible /\ eligible \subseteq t.seen
  /\ t.pc = "turn" => t.layer # {} /\ t.layer \subseteq Accounts /\ t.layer \subseteq t.seen \ t.exclude
  /\ t.pc = "bind" => t.id \in Accounts /\ t.id \in t.seen \ t.exclude
  /\ t.pc = "done" => Answered(t)

PickInv ==
  /\ eligible \subseteq Accounts
  /\ pick = [p \in Pickers |-> pick[p]]
  /\ \A p \in Pickers : PickOK(pick[p])

\* A pick that moves while the index does not.
LEMMA Moved ==
  ASSUME PickInv, NEW p \in Pickers, NEW t, Step(p, t), eligible' = eligible, PickOK(t)
  PROVE  PickInv'
<1>1. \A q \in Pickers : pick'[q] = IF q = p THEN t ELSE pick[q]
  BY DEF PickInv, Step
<1>2. pick' = [q \in Pickers |-> pick'[q]]
  BY DEF PickInv, Step
<1>3. ASSUME NEW q \in Pickers PROVE PickOK(pick[q])'
  BY <1>1 DEF PickInv, PickOK, Answered
<1> QED BY <1>2, <1>3 DEF PickInv

\* A pick returns the account it was about to bind or has just tested, or none.
LEMMA Returned ==
  ASSUME PickInv, NEW p \in Pickers, NEW a, Return(p, a), eligible' = eligible,
         a # None => a \in pick[p].seen \ pick[p].exclude,
         a = None => pick[p].always \subseteq pick[p].exclude
  PROVE  PickInv'
<1> DEFINE f == pick[p]
           t == [f EXCEPT !.pc = "done", !.id = a, !.layer = {}, !.key = NoKey,
                          !.primary = None, !.secondary = None, !.current = TRUE]
<1>1. DOMAIN f = PickFields
  BY DEF PickInv, PickOK
<1>2. Step(p, t)
  BY DEF Return
<1> HIDE DEF f
<1>3. /\ DOMAIN t = PickFields /\ t.pc = "done" /\ t.id = a /\ t.key = NoKey
      /\ t.seen = f.seen /\ t.exclude = f.exclude /\ t.always = f.always
  BY <1>1 DEF PickFields
<1> HIDE DEF t
<1>4. PickOK(t)
  BY <1>3 DEF PickOK, Answered, f
<1> QED BY <1>2, <1>4, Moved

\* A pick goes on to bind an account.
LEMMA Draws ==
  ASSUME PickInv, NEW p \in Pickers, NEW a \in Accounts,
         Step(p, [pick[p] EXCEPT !.pc = "bind", !.id = a]), eligible' = eligible,
         pick[p].pc \notin {"idle", "done"}, a \in pick[p].seen \ pick[p].exclude
  PROVE  PickInv'
<1> DEFINE f == pick[p]
           t == [f EXCEPT !.pc = "bind", !.id = a]
<1>1. PickOK(f)
  BY DEF PickInv
<1> HIDE DEF f
<1>2. /\ DOMAIN t = PickFields /\ t.pc = "bind" /\ t.id = a /\ t.key = f.key
      /\ t.seen = f.seen /\ t.exclude = f.exclude /\ t.always = f.always
  BY <1>1 DEF PickFields, PickOK
<1> HIDE DEF t
<1>3. PickOK(t)
  BY <1>1, <1>2 DEF PickOK, f
<1> QED BY <1>3, Moved DEF f, t

\* A pick moves on without having chosen.
LEMMA GoesOn ==
  ASSUME PickInv, NEW p \in Pickers, NEW t, Step(p, t), eligible' = eligible,
         DOMAIN t = PickFields, pick[p].pc \notin {"idle", "done"},
         t.pc \in {"primary", "secondary", "draw"}, t.key = pick[p].key,
         t.seen = pick[p].seen, t.always = pick[p].always
  PROVE  PickInv'
<1>1. PickOK(pick[p])
  BY DEF PickInv
<1>2. PickOK(t)
  BY <1>1 DEF PickOK
<1> QED BY <1>2, Moved

-----------------------------------------------------------------------------
\* Layers.  A set of numbers has a least one, so a set of accounts has accounts
\* of the highest priority; and sorted by rank the members of a layer take the
\* places from 0 up to its size.

Below == {q \in Nat \X Nat : q[1] < q[2]}

LEMMA LeastNumber ==
  ASSUME NEW T \in SUBSET Nat, T # {}
  PROVE  \E x \in T : \A y \in T : x <= y
<1>1. IsWellFoundedOn(Below, Nat)
  BY NatLessThanWellFounded DEF OpToRel, Below
<1>2. \A x, y \in Nat : <<y, x>> \in Below <=> y < x
  BY DEF Below
<1>3. PICK x \in T : \A y \in T : ~(<<y, x>> \in Below)
  BY <1>1, WFMin
<1>4. ASSUME NEW y \in T PROVE x <= y
  <2>1. x \in Nat /\ y \in Nat
    OBVIOUS
  <2>2. ~(y < x)
    BY <1>2, <1>3, <2>1
  <2> QED BY <2>1, <2>2
<1> QED BY <1>4

Above(C, a) == {b \in C : Priority[b] > Priority[a]}

LEMMA TopExists ==
  ASSUME NEW C \in SUBSET Accounts, C # {}
  PROVE  TopLayer(C) # {} /\ TopLayer(C) \subseteq C
<1>1. \A a \in Accounts : Priority[a] \in Int
  BY RankAssumption
<1>2. ASSUME NEW a \in C PROVE IsFiniteSet(Above(C, a)) /\ Cardinality(Above(C, a)) \in Nat
  BY CursorAssumption, FS_Subset, FS_CardinalityType DEF Above
<1> DEFINE K == {Cardinality(Above(C, a)) : a \in C}
<1>3. K \in SUBSET Nat /\ K # {}
  BY <1>2
<1>4. PICK n \in K : \A m \in K : n <= m
  BY <1>3, LeastNumber
<1>5. PICK a \in C : n = Cardinality(Above(C, a))
  BY <1>4
<1>6. ASSUME NEW b \in C, ~(Priority[b] <= Priority[a]) PROVE FALSE
  <2>1. /\ b \in Above(C, a) /\ Above(C, b) \subseteq Above(C, a) \ {b}
    BY <1>1, <1>6 DEF Above
  <2>2. /\ IsFiniteSet(Above(C, a) \ {b})
        /\ Cardinality(Above(C, a) \ {b}) = Cardinality(Above(C, a)) - 1
    BY <1>2, <2>1, FS_RemoveElement
  <2>3. Cardinality(Above(C, b)) <= Cardinality(Above(C, a)) - 1
    BY <2>1, <2>2, FS_Subset
  <2>4. Cardinality(Above(C, b)) \in K
    OBVIOUS
  <2> QED BY <1>2, <1>4, <1>5, <2>3, <2>4
<1> QED BY <1>6 DEF TopLayer

Place(L, a) == Cardinality({b \in L : Rank[b] < Rank[a]})

LEMMA Places ==
  ASSUME NEW L \in SUBSET Accounts
  PROVE  /\ IsFiniteSet(L) /\ Cardinality(L) \in Nat
         /\ \A a \in L : Place(L, a) \in 0 .. Cardinality(L) - 1
         /\ \A a, b \in L : Place(L, a) = Place(L, b) => a = b
         /\ \A i \in 0 .. Cardinality(L) - 1 : \E a \in L : Place(L, a) = i
<1> DEFINE n == Cardinality(L)
           Less(a) == {b \in L : Rank[b] < Rank[a]}
<1>1. \A a \in Accounts : Rank[a] \in Int
  BY RankAssumption
<1>2. IsFiniteSet(L) /\ n \in Nat
  BY CursorAssumption, FS_Subset, FS_CardinalityType
<1>3. ASSUME NEW a \in L
      PROVE  IsFiniteSet(Less(a)) /\ Place(L, a) = Cardinality(Less(a)) /\ Place(L, a) \in 0 .. n - 1
  <2>1. Less(a) \subseteq L \ {a}
    BY <1>1
  <2>2. IsFiniteSet(L \ {a}) /\ Cardinality(L \ {a}) = n - 1
    BY <1>2, FS_RemoveElement
  <2>3. IsFiniteSet(Less(a)) /\ Cardinality(Less(a)) <= n - 1
    BY <2>1, <2>2, FS_Subset
  <2>4. Cardinality(Less(a)) \in Nat
    BY <2>3, FS_CardinalityType
  <2>5. Place(L, a) = Cardinality(Less(a))
    BY DEF Place
  <2> QED BY <1>2, <2>3, <2>4, <2>5
<1>4. ASSUME NEW a \in L, NEW b \in L, Rank[a] < Rank[b] PROVE Place(L, a) < Place(L, b)
  <2>1. Less(a) \subseteq Less(b) \ {a} /\ a \in Less(b)
    BY <1>1, <1>4
  <2>2. IsFiniteSet(Less(b) \ {a}) /\ Cardinality(Less(b) \ {a}) = Cardinality(Less(b)) - 1
    BY <1>3, <2>1, FS_RemoveElement
  <2>3. Cardinality(Less(a)) <= Cardinality(Less(b)) - 1
    BY <2>1, <2>2, FS_Subset
  <2> HIDE DEF Less, n
  <2> QED BY <1>2, <1>3, <2>3
<1>5. ASSUME NEW a \in L, NEW b \in L, Place(L, a) = Place(L, b) PROVE a = b
  <2>1. Rank[a] \in Int /\ Rank[b] \in Int
    BY <1>1
  <2> HIDE DEF n, Less
  <2>3. Place(L, a) \in Int /\ Place(L, b) \in Int
    BY <1>2, <1>3
  <2>2. ~(Rank[a] < Rank[b]) /\ ~(Rank[b] < Rank[a])
    BY <1>4, <1>5, <2>3
  <2> QED BY <2>1, <2>2, RankAssumption
<1> DEFINE f == [a \in L |-> Place(L, a)]
<1> HIDE DEF n, Less
<1>6. f \in Injection(L, 0 .. n - 1)
  <2>1. f \in [L -> 0 .. n - 1]
    BY <1>3
  <2>2. \A a, b \in L : f[a] = f[b] => a = b
    BY <1>5
  <2> HIDE DEF f
  <2> QED BY <2>1, <2>2 DEF Injection, IsInjective
<1>7. IsFiniteSet(0 .. n - 1) /\ Cardinality(0 .. n - 1) = n
  BY <1>2, FS_Interval
<1>8. f \in Surjection(L, 0 .. n - 1)
  <2>1. Cardinality(L) = Cardinality(0 .. n - 1)
    BY <1>7 DEF n
  <2> DEFINE T == 0 .. n - 1
  <2>2. f \in Injection(L, T) /\ IsFiniteSet(T) /\ Cardinality(L) = Cardinality(T)
    BY <1>6, <1>7, <2>1
  <2> HIDE DEF f, T
  <2>3. f \in Surjection(L, T)
    BY <2>2, FS_Injection
  <2> QED BY <2>3 DEF T
<1>9. \A i \in 0 .. n - 1 : \E a \in L : Place(L, a) = i
  BY <1>8 DEF Surjection
<1> QED BY <1>2, <1>3, <1>5, <1>9 DEF n

\* The cursor always points at a member of the layer.
LEMMA NthOf ==
  ASSUME NEW L \in SUBSET Accounts, L # {}, NEW i \in 0 .. Cardinality(L) - 1
  PROVE  Nth(L, i) \in L /\ Place(L, Nth(L, i)) = i
<1>1. \E a \in L : Place(L, a) = i
  BY Places
<1>2. \E a \in L : Cardinality({b \in L : Rank[b] < Rank[a]}) = i
  BY <1>1 DEF Place
<1> QED BY <1>2 DEF Nth, Place

-----------------------------------------------------------------------------
\* The cursor.  Modulo the size of a layer it moves by one, and it starts again
\* at a multiple of every size.

LEMMA Division ==
  ASSUME NEW n \in Nat \ {0}, NEW x \in Nat
  PROVE  /\ x = (n * (x \div n)) + (x % n) /\ x \div n \in Nat
         /\ x % n \in 0 .. n - 1
  OBVIOUS

LEMMA Small ==
  ASSUME NEW n \in Nat \ {0}, NEW x \in 0 .. n - 1
  PROVE  x % n = x
  OBVIOUS

LEMMA Remainder ==
  ASSUME NEW n \in Nat \ {0}, NEW q \in Nat, NEW i \in 0 .. n - 1
  PROVE  ((n * q) + i) % n = i
  OBVIOUS

LEMMA NextRemainder ==
  ASSUME NEW n \in Nat \ {0}, NEW x \in Nat
  PROVE  (x + 1) % n = IF (x % n) + 1 = n THEN 0 ELSE (x % n) + 1
<1> DEFINE q == x \div n
           i == x % n
<1>1. x = (n * q) + i /\ q \in Nat /\ i \in 0 .. n - 1
  BY Division
<1> HIDE DEF q, i
<1>2. CASE i + 1 = n
  <2>1. x + 1 = (n * (q + 1)) + 0
    BY <1>1, <1>2
  <2>2. ((n * (q + 1)) + 0) % n = 0
    BY <1>1, Remainder
  <2> QED BY <1>2, <2>1, <2>2 DEF i
<1>3. CASE i + 1 # n
  <2>1. x + 1 = (n * q) + (i + 1) /\ i + 1 \in 0 .. n - 1
    BY <1>1, <1>3
  <2>2. ((n * q) + (i + 1)) % n = i + 1
    BY <1>1, <2>1, Remainder
  <2> QED BY <1>3, <2>1, <2>2 DEF i
<1> QED BY <1>2, <1>3

LEMMA CursorMoves ==
  ASSUME cursor \in 0 .. CursorMod - 1, NEW n \in 1 .. Cardinality(Accounts),
         cursor' = (cursor + 1) % CursorMod
  PROVE  /\ cursor' \in 0 .. CursorMod - 1
         /\ cursor' % n = IF (cursor % n) + 1 = n THEN 0 ELSE (cursor % n) + 1
<1>1. n \in Nat \ {0} /\ Cardinality(Accounts) \in Nat
  BY CursorAssumption, FS_CardinalityType
<1>2. CursorMod \in Nat \ {0} /\ CursorMod % n = 0
  BY CursorAssumption
<1>3. cursor \in Nat /\ cursor % CursorMod = cursor
  BY <1>2, Small
<1>4. cursor' = IF cursor + 1 = CursorMod THEN 0 ELSE cursor + 1
  <2>1. (cursor + 1) % CursorMod =
          IF (cursor % CursorMod) + 1 = CursorMod THEN 0 ELSE (cursor % CursorMod) + 1
    BY <1>2, <1>3, NextRemainder
  <2> QED BY <1>3, <2>1
<1>5. (cursor + 1) % n = IF (cursor % n) + 1 = n THEN 0 ELSE (cursor % n) + 1
  BY <1>1, <1>3, NextRemainder
<1>6. 0 % n = 0
  BY <1>1, Small
<1>7. cursor' \in 0 .. CursorMod - 1
  BY <1>2, <1>3, <1>4
<1>8. cursor' % n = (cursor + 1) % n
  BY <1>2, <1>4, <1>6
<1> QED BY <1>5, <1>7, <1>8

\* The last k members before the one the cursor points at, going round, have had
\* a turn more than the others.
Recent(i, c, k, n) == (c - k <= i /\ i < c) \/ n + c - k <= i

LEMMA RecentNext ==
  ASSUME NEW n \in Nat \ {0}, NEW c \in 0 .. n - 1, NEW k \in 0 .. n - 1, NEW i \in 0 .. n - 1,
         NEW d, d = IF c + 1 = n THEN 0 ELSE c + 1
  PROVE  /\ ~Recent(c, c, k, n) /\ ~Recent(i, d, 0, n)
         /\ k + 1 = n /\ i # c => Recent(i, c, k, n)
         /\ k + 1 # n => (Recent(i, d, k + 1, n) <=> i = c \/ Recent(i, c, k, n))
         /\ k + 1 # n /\ c + 1 = n => ~Recent(0, c, k, n) /\ 0 # c
         /\ k + 1 # n /\ c + 1 # n => ~Recent(c + 1, c, k, n) /\ c + 1 \in 0 .. n - 1
  BY DEF Recent

InTurn(L, count, c) ==
  \E k \in 0 .. Cardinality(L) - 1 : \A a \in L :
     count[a] = IF Recent(Place(L, a), c, k, Cardinality(L)) THEN 1 ELSE 0

TurnInv ==
  /\ cursor \in 0 .. CursorMod - 1
  /\ turns \in [layer : SUBSET Accounts, count : [Accounts -> Nat]]
  /\ turns.layer # {} => InTurn(turns.layer, turns.count, cursor % Cardinality(turns.layer))

\* One turn: the member the cursor points at is served and the cursor moves on.
ServedNext(L, n, c, d, before, a, after, count) ==
  /\ L \in SUBSET Accounts /\ L # {} /\ n = Cardinality(L)
  /\ c \in 0 .. n - 1 /\ d = (IF c + 1 = n THEN 0 ELSE c + 1)
  /\ before \in [Accounts -> Nat] /\ InTurn(L, before, c)
  /\ a = Nth(L, c) /\ after = [before EXCEPT ![a] = @ + 1]
  /\ count = [b \in Accounts |-> count[b]]
  /\ \A b \in Accounts : count[b] = IF b \in L THEN after[b] - Least(after, L) ELSE 0

LEMMA OneTurn ==
  ASSUME NEW L, NEW n, NEW c, NEW d, NEW before, NEW a, NEW after, NEW count,
         ServedNext(L, n, c, d, before, a, after, count)
  PROVE  count \in [Accounts -> Nat] /\ InTurn(L, count, d)
<1>0. /\ L \in SUBSET Accounts /\ L # {} /\ n = Cardinality(L)
      /\ c \in 0 .. n - 1 /\ d = (IF c + 1 = n THEN 0 ELSE c + 1)
      /\ before \in [Accounts -> Nat] /\ InTurn(L, before, c)
      /\ a = Nth(L, c) /\ after = [before EXCEPT ![a] = @ + 1]
      /\ count = [b \in Accounts |-> count[b]]
      /\ \A b \in Accounts : count[b] = IF b \in L THEN after[b] - Least(after, L) ELSE 0
  BY DEF ServedNext
<1> USE <1>0
<1>1. /\ IsFiniteSet(L) /\ n \in Nat \ {0}
      /\ \A b \in L : Place(L, b) \in 0 .. n - 1
      /\ \A b, e \in L : Place(L, b) = Place(L, e) => b = e
      /\ \A i \in 0 .. n - 1 : \E b \in L : Place(L, b) = i
  BY Places, FS_EmptySet
<1>2. a \in L /\ Place(L, a) = c
  BY NthOf
<1>3. PICK k \in 0 .. n - 1 : \A b \in L : before[b] = IF Recent(Place(L, b), c, k, n) THEN 1 ELSE 0
  BY DEF InTurn
<1>4. before[a] = 0
  BY <1>1, <1>2, <1>3, RecentNext
<1>5. /\ after \in [Accounts -> Nat] /\ \A b \in L : after[b] = IF b = a THEN 1 ELSE before[b]
  BY <1>2, <1>4
<1>6. \A b \in L : after[b] \in {0, 1}
  BY <1>3, <1>5
<1>7. CASE k + 1 = n
  <2>1. ASSUME NEW b \in L PROVE after[b] = 1
    <3>1. b # a => Place(L, b) # c /\ Place(L, b) \in 0 .. n - 1
      BY <1>1, <1>2
    <3>2. b # a => Recent(Place(L, b), c, k, n)
      BY <1>1, <1>7, <3>1, RecentNext
    <3> QED BY <1>3, <1>5, <3>2
  <2>2. {after[b] : b \in L} = {1}
    BY <2>1
  <2>3. Least(after, L) = 1
    BY <2>1, <2>2 DEF Least
  <2>4. count \in [Accounts -> Nat] /\ \A b \in L : count[b] = 0
    <3>1. \A b \in Accounts : count[b] = IF b \in L THEN after[b] - 1 ELSE 0
      BY <2>3
    <3>2. \A b \in Accounts : count[b] = 0
      BY <2>1, <3>1
    <3> QED BY <3>2
  <2>5. \A b \in L : ~Recent(Place(L, b), d, 0, n)
    BY <1>1, RecentNext
  <2>6. 0 \in 0 .. n - 1
    BY <1>1
  <2> QED BY <2>4, <2>5, <2>6 DEF InTurn
<1>8. CASE k + 1 # n
  <2>1. PICK b \in L : after[b] = 0
    <3>1. PICK i \in 0 .. n - 1 : ~Recent(i, c, k, n) /\ i # c
      <4>1. CASE c + 1 = n
        BY <1>1, <1>8, <4>1, RecentNext
      <4>2. CASE c + 1 # n
        <5>1. c + 1 \in 0 .. n - 1 /\ ~Recent(c + 1, c, k, n) /\ c + 1 # c
          BY <1>1, <1>8, <4>2, RecentNext
        <5> QED BY <5>1
      <4> QED BY <4>1, <4>2
    <3>2. PICK b \in L : Place(L, b) = i
      BY <1>1
    <3> QED BY <1>2, <1>3, <1>5, <3>1, <3>2
  <2>2. Least(after, L) = 0
    <3>1. 0 \in {after[e] : e \in L} /\ \A e \in L : 0 <= after[e]
      BY <1>6, <2>1
    <3>2. \A m \in {after[e] : e \in L} : (\A e \in L : m <= after[e]) => m = 0
      BY <1>6, <2>1
    <3> QED BY <3>1, <3>2 DEF Least
  <2>3. count \in [Accounts -> Nat] /\ \A e \in L : count[e] = after[e]
    <3>1. \A e \in Accounts : count[e] = IF e \in L THEN after[e] - 0 ELSE 0
      BY <2>2
    <3>2. \A e \in Accounts : after[e] \in Nat /\ after[e] - 0 = after[e]
      BY <1>5
    <3>3. \A e \in Accounts : count[e] = IF e \in L THEN after[e] ELSE 0
      BY <3>1, <3>2
    <3> QED BY <3>2, <3>3
  <2>4. k + 1 \in 0 .. n - 1
    BY <1>1, <1>8
  <2>5. ASSUME NEW e \in L
        PROVE  Recent(Place(L, e), d, k + 1, n) <=> e = a \/ Recent(Place(L, e), c, k, n)
    <3>1. Place(L, e) \in 0 .. n - 1 /\ (e = a <=> Place(L, e) = c)
      BY <1>1, <1>2
    <3> QED BY <1>1, <1>8, <3>1, RecentNext
  <2>6. \A e \in L : count[e] = IF Recent(Place(L, e), d, k + 1, n) THEN 1 ELSE 0
    BY <1>3, <1>5, <2>3, <2>5
  <2> QED BY <2>3, <2>4, <2>6 DEF InTurn
<1> QED BY <1>7, <1>8

LEMMA NthDrawn ==
  ASSUME NEW L \in SUBSET Accounts, L # {}, cursor \in Nat
  PROVE  cursor % Cardinality(L) \in 0 .. Cardinality(L) - 1 /\ Nth(L, cursor % Cardinality(L)) \in L
<1>1. Cardinality(L) \in Nat \ {0}
  BY Places, FS_EmptySet
<1>2. cursor % Cardinality(L) \in 0 .. Cardinality(L) - 1
  BY <1>1, Division
<1> QED BY <1>2, NthOf

-----------------------------------------------------------------------------
\* The selector.

SelInv == TableInv /\ PickInv /\ TurnInv

LEMMA SelStarts == SelInit => SelInv
<1> SUFFICES ASSUME SelInit PROVE SelInv
  OBVIOUS
<1>1. Init
  BY DEF SelInit
<1>2. TableInv
  <2>1. BoundKeys = {} /\ older = {}
    BY <1>1 DEF Init, BoundKeys, Bound, Absent
  <2>2. Capacity
    BY <2>1, FS_EmptySet, MaxAssumption DEF Capacity
  <2>3. RecencyTotal
    BY <2>1 DEF RecencyTotal
  <2> QED BY <1>1, <2>2, <2>3, IndexInit DEF TableInv
<1>3. PickInv
  <2>1. DOMAIN Idle = PickFields /\ Idle.pc = "idle" /\ Idle.key = NoKey
    BY DEF Idle, PickFields
  <2>2. PickOK(Idle)
    BY <2>1 DEF PickOK
  <2> QED BY <2>2 DEF SelInit, PickInv
<1>4. TurnInv
  <2>1. cursor = 0 /\ 0 \in 0 .. CursorMod - 1
    BY CursorAssumption DEF SelInit
  <2> QED BY <2>1 DEF SelInit, TurnInv
<1> QED BY <1>2, <1>3, <1>4 DEF SelInv

\* A pick of any strategy, section by section.
LEMMA PickSteps ==
  ASSUME PickInv, cursor \in Nat, NEW p \in Pickers,
         \/ Begin(p) \/ Lookup(p) \/ CheckPrimary(p) \/ CheckSecondary(p)
         \/ DrawLayer(p) \/ TakeTurn(p) \/ DrawSample(p) \/ Bind(p)
  PROVE  PickInv'
<1> DEFINE f == pick[p]
<1>1. PickOK(f) /\ DOMAIN f = PickFields /\ eligible \subseteq Accounts
  BY DEF PickInv, PickOK
<1>2. CASE Begin(p)
  <2>1. PICK k \in Keys \cup {NoKey}, tried \in Tried :
          pick' = [pick EXCEPT ![p] = [Idle EXCEPT
                !.pc = IF k = NoKey THEN "draw" ELSE "lookup", !.key = k,
                !.exclude = tried, !.strategy = strategy,
                !.seen = eligible, !.always = eligible]]
    BY <1>2 DEF Begin
  <2> DEFINE t == [Idle EXCEPT
                !.pc = IF k = NoKey THEN "draw" ELSE "lookup", !.key = k,
                !.exclude = tried, !.strategy = strategy,
                !.seen = eligible, !.always = eligible]
  <2>2. /\ DOMAIN t = PickFields /\ t.pc = IF k = NoKey THEN "draw" ELSE "lookup"
        /\ t.key = k /\ t.seen = eligible /\ t.always = eligible
    BY DEF Idle, PickFields
  <2>3. Step(p, t) /\ eligible' = eligible
    BY <1>2, <2>1 DEF Begin, Step
  <2> HIDE DEF t
  <2>4. PickOK(t)
    BY <2>2 DEF PickOK
  <2> QED BY <2>3, <2>4, Moved
<1>3. CASE Lookup(p)
  <2>1. f.pc = "lookup" /\ eligible' = eligible
    BY <1>3 DEF Lookup, At
  <2>2. \E pc \in {"primary", "draw"} : \E a, b :
          Step(p, [f EXCEPT !.pc = pc, !.primary = a, !.secondary = b])
    <3>1. CASE pick[p].current
      BY <1>3, <3>1 DEF Lookup
    <3>2. CASE Step(p, [pick[p] EXCEPT !.pc = "draw"])
      <4>1. [f EXCEPT !.pc = "draw"] =
              [f EXCEPT !.pc = "draw", !.primary = f.primary, !.secondary = f.secondary]
        BY <1>1 DEF PickFields
      <4> QED BY <3>2, <4>1
    <3>3. ASSUME NEW a \in Accounts, NEW b \in Accounts \cup {None},
                 Step(p, [pick[p] EXCEPT !.pc = "primary", !.primary = a, !.secondary = b])
          PROVE  \E pc \in {"primary", "draw"} : \E c, d :
                   Step(p, [f EXCEPT !.pc = pc, !.primary = c, !.secondary = d])
      BY <3>3
    <3> QED BY <1>3, <3>1, <3>2, <3>3 DEF Lookup
  <2>6. PICK pc \in {"primary", "draw"} : \E a, b :
          Step(p, [f EXCEPT !.pc = pc, !.primary = a, !.secondary = b])
    BY <2>2
  <2>3. PICK a, b : Step(p, [f EXCEPT !.pc = pc, !.primary = a, !.secondary = b])
    BY <2>6
  <2> DEFINE t == [f EXCEPT !.pc = pc, !.primary = a, !.secondary = b]
  <2>4. /\ DOMAIN t = PickFields /\ t.pc = pc /\ t.key = f.key
        /\ t.seen = f.seen /\ t.always = f.always
    BY <1>1 DEF PickFields
  <2>5. Step(p, t)
    BY <2>3
  <2> HIDE DEF t
  <2> QED BY <2>1, <2>4, <2>5, GoesOn
<1>s. ASSUME NEW pc \in {"secondary", "draw"}, Step(p, [pick[p] EXCEPT !.pc = pc]),
             f.pc \notin {"idle", "done"}, eligible' = eligible
      PROVE  PickInv'
  <2> DEFINE t == [f EXCEPT !.pc = pc]
  <2>1. /\ DOMAIN t = PickFields /\ t.pc = pc /\ t.key = f.key
        /\ t.seen = f.seen /\ t.always = f.always
    BY <1>1 DEF PickFields
  <2>2. Step(p, t)
    BY <1>s
  <2> HIDE DEF t
  <2> QED BY <1>s, <2>1, <2>2, GoesOn
<1>u. f.pc \notin {"idle", "done"} =>
        /\ f.always \subseteq eligible
        /\ \A a \in Candidates(p) : a \in Accounts /\ a \in f.seen \ f.exclude
        /\ \A a : Usable(p, a) => a \in Accounts /\ a \in f.seen \ f.exclude
  BY <1>1 DEF PickOK, Candidates, Usable
<1>4. CASE CheckPrimary(p)
  <2>1. f.pc = "primary" /\ eligible' = eligible
    BY <1>4 DEF CheckPrimary, At
  <2>2. CASE Usable(p, f.primary) /\ Return(p, f.primary)
    BY <1>u, <2>1, <2>2, NoneAssumption, Returned
  <2> QED BY <1>4, <1>s, <2>1, <2>2 DEF CheckPrimary
<1>5. CASE CheckSecondary(p)
  <2>1. f.pc = "secondary" /\ eligible' = eligible
    BY <1>5 DEF CheckSecondary, At
  <2>2. CASE Usable(p, f.secondary) /\ Step(p, [pick[p] EXCEPT !.pc = "bind", !.id = f.secondary])
    BY <1>u, <2>1, <2>2, Draws
  <2> QED BY <1>5, <1>s, <2>1, <2>2 DEF CheckSecondary
<1>n. ASSUME Candidates(p) = {}, Return(p, None), f.pc = "draw", eligible' = eligible PROVE PickInv'
  <2>1. f.always \subseteq f.exclude
    BY <1>u, <1>n DEF Candidates
  <2> QED BY <1>n, <2>1, Returned
<1>6. CASE DrawLayer(p)
  <2>1. f.pc = "draw" /\ eligible' = eligible
    BY <1>6 DEF DrawLayer, At
  <2>2. CASE Candidates(p) # {} /\ Step(p, [pick[p] EXCEPT !.pc = "turn", !.layer = TopLayer(Candidates(p))])
    <3> DEFINE L == TopLayer(Candidates(p))
               t == [f EXCEPT !.pc = "turn", !.layer = L]
    <3>1. L # {} /\ L \subseteq Accounts /\ L \subseteq f.seen \ f.exclude
      BY <1>u, <2>1, <2>2, TopExists
    <3> HIDE DEF L
    <3>2. /\ DOMAIN t = PickFields /\ t.pc = "turn" /\ t.layer = L /\ t.key = f.key
          /\ t.seen = f.seen /\ t.always = f.always /\ t.exclude = f.exclude
      BY <1>1 DEF PickFields
    <3>3. Step(p, t)
      BY <2>2 DEF L
    <3> HIDE DEF t
    <3>4. PickOK(t)
      BY <1>1, <2>1, <3>1, <3>2 DEF PickOK
    <3> QED BY <2>1, <3>3, <3>4, Moved
  <2> QED BY <1>6, <1>n, <2>1, <2>2 DEF DrawLayer
<1>7. CASE TakeTurn(p)
  <2> DEFINE a == Nth(f.layer, cursor % Cardinality(f.layer))
  <2>1. /\ f.pc = "turn" /\ eligible' = eligible
        /\ Step(p, [pick[p] EXCEPT !.pc = "bind", !.id = a])
    BY <1>7 DEF TakeTurn, At
  <2>2. a \in f.layer
    BY <1>1, <2>1, NthDrawn DEF PickOK
  <2>3. a \in Accounts /\ a \in f.seen \ f.exclude
    BY <1>1, <2>1, <2>2 DEF PickOK
  <2> HIDE DEF a
  <2> QED BY <2>1, <2>3, Draws
<1>8. CASE DrawSample(p)
  <2>1. f.pc = "draw" /\ eligible' = eligible
    BY <1>8 DEF DrawSample, At
  <2>2. ASSUME NEW a \in Candidates(p), Step(p, [pick[p] EXCEPT !.pc = "bind", !.id = a]) PROVE PickInv'
    BY <1>u, <2>1, <2>2, Draws
  <2> QED BY <1>8, <1>n, <2>1, <2>2 DEF DrawSample
<1>9. CASE Bind(p)
  <2>1. f.pc = "bind" /\ eligible' = eligible /\ Return(p, f.id)
    BY <1>9 DEF Bind, At
  <2> QED BY <1>1, <2>1, NoneAssumption, Returned DEF PickOK
<1> QED BY <1>2, <1>3, <1>4, <1>5, <1>6, <1>7, <1>8, <1>9

\* Everyone else: an account barred was eligible until now, one that recovers
\* has been seen, and a table that is replaced is remembered as such.
LEMMA OtherSteps ==
  ASSUME PickInv,
         \/ \E a \in Accounts : Bar(a) \/ Recover(a)
         \/ ApplyConfig
         \/ UNCHANGED <<eligible, pick>>
  PROVE  PickInv'
<1>1. \A p \in Pickers : PickOK(pick[p]) /\ DOMAIN pick[p] = PickFields
  BY DEF PickInv, PickOK
<1>2. ASSUME NEW a \in Accounts, Bar(a) PROVE PickInv'
  <2>1. /\ eligible' = eligible \ {a} /\ eligible' \subseteq Accounts
        /\ pick' = [p \in Pickers |-> [pick[p] EXCEPT !.always = @ \ {a}]]
    BY <1>2 DEF Bar, PickInv
  <2>2. ASSUME NEW p \in Pickers PROVE PickOK(pick[p])'
    <3> DEFINE f == pick[p]
               t == [f EXCEPT !.always = @ \ {a}]
    <3>1. PickOK(f) /\ DOMAIN f = PickFields
      BY <1>1
    <3> HIDE DEF f
    <3>2. /\ DOMAIN t = PickFields /\ t.always = f.always \ {a}
          /\ \A g \in PickFields \ {"always"} : t[g] = f[g]
      BY <3>1 DEF PickFields
    <3>3. /\ t.pc = f.pc /\ t.key = f.key /\ t.seen = f.seen /\ t.exclude = f.exclude
          /\ t.layer = f.layer /\ t.id = f.id
      BY <3>1 DEF PickFields
    <3>4. pick'[p] = t
      BY <2>1 DEF f
    <3> HIDE DEF t
    <3> QED BY <2>1, <3>1, <3>2, <3>3, <3>4 DEF PickOK, Answered
  <2> QED BY <2>1, <2>2 DEF PickInv
<1>3. ASSUME NEW a \in Accounts, Recover(a) PROVE PickInv'
  <2>1. /\ eligible' = eligible \cup {a} /\ eligible' \subseteq Accounts
        /\ pick' = [p \in Pickers |-> [pick[p] EXCEPT
                      !.seen = IF pick[p].pc \in {"idle", "done"} THEN @ ELSE @ \cup {a}]]
    BY <1>3 DEF Recover, PickInv
  <2>2. ASSUME NEW p \in Pickers PROVE PickOK(pick[p])'
    <3> DEFINE f == pick[p]
               s == IF f.pc \in {"idle", "done"} THEN f.seen ELSE f.seen \cup {a}
               t == [f EXCEPT !.seen = s]
    <3>1. PickOK(f) /\ DOMAIN f = PickFields
      BY <1>1
    <3>4. pick'[p] = t
      BY <2>1
    <3>5. /\ f.pc \in {"idle", "done"} => s = f.seen
          /\ f.pc \notin {"idle", "done"} => s = f.seen \cup {a}
      OBVIOUS
    <3> HIDE DEF f, s
    <3>2. DOMAIN t = PickFields /\ t.seen = s
      BY <3>1 DEF PickFields
    <3>3. /\ t.pc = f.pc /\ t.key = f.key /\ t.always = f.always /\ t.exclude = f.exclude
          /\ t.layer = f.layer /\ t.id = f.id
      BY <3>1 DEF PickFields
    <3> HIDE DEF t
    <3> QED BY <2>1, <3>1, <3>2, <3>3, <3>4, <3>5 DEF PickOK, Answered
  <2> QED BY <2>1, <2>2 DEF PickInv
<1>4. CASE eligible' = eligible /\ pick' = [p \in Pickers |-> [pick[p] EXCEPT !.current = FALSE]]
  <2>2. ASSUME NEW p \in Pickers PROVE PickOK(pick[p])'
    <3> DEFINE f == pick[p]
               t == [f EXCEPT !.current = FALSE]
    <3>1. PickOK(f) /\ DOMAIN f = PickFields
      BY <1>1
    <3>4. pick'[p] = t
      BY <1>4
    <3> HIDE DEF f
    <3>2. DOMAIN t = PickFields
      BY <3>1 DEF PickFields
    <3>3. /\ t.pc = f.pc /\ t.key = f.key /\ t.always = f.always /\ t.exclude = f.exclude
          /\ t.layer = f.layer /\ t.id = f.id /\ t.seen = f.seen
      BY <3>1 DEF PickFields
    <3> HIDE DEF t
    <3> QED BY <1>4, <3>1, <3>2, <3>3, <3>4 DEF PickOK, Answered
  <2> QED BY <1>4, <2>2 DEF PickInv
<1>5. CASE UNCHANGED <<eligible, pick>>
  BY <1>5 DEF PickInv, PickOK, Answered
<1>6. CASE ApplyConfig
  BY <1>4, <1>5, <1>6 DEF ApplyConfig
<1> QED BY <1>2, <1>3, <1>5, <1>6

\* The cursor and the history of turns, which only a turn moves.
LEMMA TurnKept ==
  ASSUME PickInv, TurnInv, NEW p \in Pickers, TakeTurn(p)
  PROVE  TurnInv'
<1> DEFINE L == pick[p].layer
           n == Cardinality(L)
           c == cursor % n
           d == IF c + 1 = n THEN 0 ELSE c + 1
           a == Nth(L, c)
           before == IF turns.layer = L THEN turns.count ELSE [b \in Accounts |-> 0]
           after == [before EXCEPT ![a] = @ + 1]
           count == [b \in Accounts |-> IF b \in L THEN after[b] - Least(after, L) ELSE 0]
<1>1. L # {} /\ L \in SUBSET Accounts /\ IsFiniteSet(L)
  BY Places DEF PickInv, PickOK, TakeTurn, At
<1>2. n \in 1 .. Cardinality(Accounts)
  <2>1. n <= Cardinality(Accounts) /\ n \in Nat /\ Cardinality(Accounts) \in Nat
    BY <1>1, CursorAssumption, FS_Subset, FS_CardinalityType
  <2>2. n # 0
    BY <1>1, FS_EmptySet
  <2> HIDE DEF n
  <2> QED BY <2>1, <2>2
<1>3. cursor \in 0 .. CursorMod - 1 /\ cursor \in Nat /\ n \in Nat \ {0}
  BY <1>2, CursorAssumption DEF TurnInv
<1>4. c \in 0 .. n - 1
  BY <1>3, Division
<1>5. cursor' = (cursor + 1) % CursorMod /\ turns' = [layer |-> L, count |-> count]
  BY DEF TakeTurn, Counted
<1>6. cursor' \in 0 .. CursorMod - 1 /\ cursor' % n = d
  BY <1>2, <1>3, <1>5, CursorMoves
<1>7. before \in [Accounts -> Nat] /\ InTurn(L, before, c)
  <2>1. CASE turns.layer = L
    BY <1>1, <2>1 DEF TurnInv
  <2>2. CASE turns.layer # L
    <3>1. before = [b \in Accounts |-> 0]
      BY <2>2
    <3>2. 0 \in 0 .. n - 1
      BY <1>3
    <3>3. \A i \in 0 .. n - 1 : ~Recent(i, c, 0, n)
      BY <1>3, <1>4 DEF Recent
    <3>4. \A b \in L : Place(L, b) \in 0 .. n - 1
      BY <1>1, Places
    <3> HIDE DEF before, n, c
    <3>5. \A b \in L : before[b] = 0
      BY <1>1, <3>1
    <3>6. InTurn(L, before, c)
      BY <3>2, <3>3, <3>4, <3>5 DEF InTurn, n
    <3> QED BY <3>1, <3>6
  <2> QED BY <2>1, <2>2
<1>8. /\ count = [b \in Accounts |-> count[b]]
      /\ \A b \in Accounts : count[b] = IF b \in L THEN after[b] - Least(after, L) ELSE 0
  OBVIOUS
<1>9. n = Cardinality(L) /\ a = Nth(L, c) /\ after = [before EXCEPT ![a] = @ + 1]
      /\ d = IF c + 1 = n THEN 0 ELSE c + 1
  OBVIOUS
<1> HIDE DEF L, n, c, d, a, before, after, count
<1>10. ServedNext(L, n, c, d, before, a, after, count)
  BY <1>1, <1>4, <1>7, <1>8, <1>9 DEF ServedNext
<1>13. count \in [Accounts -> Nat] /\ InTurn(L, count, d)
  BY <1>10, OneTurn
<1>11. turns'.layer = L /\ turns'.count = count /\ turns' = [layer |-> L, count |-> count]
  BY <1>5
<1>12. cursor' % Cardinality(L) = d
  BY <1>6, <1>9
<1> QED BY <1>1, <1>6, <1>11, <1>12, <1>13 DEF TurnInv


\* Whatever the selector does to the table is one of the table's own methods,
\* or the empty table of a new configuration.
LEMMA TableMoves == PickInv /\ [SelNext]_<<vars, selVars>> => [Next]_vars \/ Emptied
<1> SUFFICES ASSUME PickInv, [SelNext]_<<vars, selVars>> PROVE [Next]_vars \/ Emptied
  OBVIOUS
<1>1. ASSUME NEW p \in Pickers, Lookup(p) PROVE [Next]_vars
  <2>1. pick[p].pc = "lookup" /\ pick[p].key \in Keys
    BY <1>1 DEF Lookup, At, PickInv, PickOK
  <2>2. CASE GetPair(pick[p].key)
    BY <2>1, <2>2 DEF Next
  <2>3. GetPair(pick[p].key) \/ UNCHANGED vars
    BY <1>1 DEF Lookup
  <2> QED BY <2>2, <2>3
<1>2. ASSUME NEW p \in Pickers, Bind(p) PROVE [Next]_vars
  <2>1. pick[p].pc = "bind" /\ pick[p].id \in Accounts /\ pick[p].key \in Keys \cup {NoKey}
    BY <1>2 DEF Bind, At, PickInv, PickOK
  <2>2. CASE pick[p].key # NoKey /\ Put(pick[p].key, pick[p].id)
    BY <2>1, <2>2 DEF Next
  <2>3. (pick[p].key # NoKey /\ Put(pick[p].key, pick[p].id)) \/ UNCHANGED vars
    BY <1>2 DEF Bind
  <2> QED BY <2>2, <2>3
<1>3. ASSUME NEW p \in Pickers,
             \/ Begin(p) \/ CheckPrimary(p) \/ CheckSecondary(p)
             \/ DrawLayer(p) \/ TakeTurn(p) \/ DrawSample(p)
      PROVE  UNCHANGED vars
  BY <1>3 DEF Begin, CheckPrimary, CheckSecondary, DrawLayer, TakeTurn, DrawSample, vars
<1>4. ASSUME NEW a \in Accounts, Bar(a) \/ Recover(a) \/ ClearStickyAccount(a) PROVE [Next]_vars
  BY <1>4 DEF Bar, Recover, ClearStickyAccount, Next, vars
<1>5. ASSUME NEW k \in Keys, NEW a \in Accounts,
             ClearStickyKey(k) \/ BindSticky(k, a) \/ BindStickySecondary(k, a)
      PROVE  [Next]_vars
  BY <1>5 DEF ClearStickyKey, BindSticky, BindStickySecondary, Next
<1>6. CASE ApplyConfig
  BY <1>6 DEF ApplyConfig, Emptied, vars
<1>7. ASSUME NEW k \in Keys, ClearStickyKey(k) PROVE [Next]_vars
  BY <1>7 DEF ClearStickyKey, Next
<1>8. CASE UNCHANGED <<vars, selVars>>
  BY <1>8
<1> QED BY <1>1, <1>2, <1>3, <1>4, <1>5, <1>6, <1>7, <1>8 DEF SelNext, Next

LEMMA SelInductive == SelInv /\ [SelNext]_<<vars, selVars>> => SelInv'
<1> SUFFICES ASSUME SelInv, [SelNext]_<<vars, selVars>> PROVE SelInv'
  OBVIOUS
<1>1. TableInv /\ PickInv /\ TurnInv /\ cursor \in Nat
  BY CursorAssumption DEF SelInv, TurnInv
<1>2. TableInv'
  BY <1>1, TableMoves, TableKept
<1>t. ASSUME UNCHANGED <<cursor, turns>> PROVE TurnInv'
  <2>1. cursor' = cursor /\ turns' = turns /\ TurnInv
    BY <1>1, <1>t
  <2> QED BY <2>1 DEF TurnInv
<1>3. ASSUME NEW p \in Pickers,
             \/ Begin(p) \/ Lookup(p) \/ CheckPrimary(p) \/ CheckSecondary(p)
             \/ DrawLayer(p) \/ TakeTurn(p) \/ DrawSample(p) \/ Bind(p)
      PROVE  PickInv' /\ TurnInv'
  <2>1. PickInv'
    BY <1>1, <1>3, PickSteps
  <2>2. TakeTurn(p) \/ UNCHANGED <<cursor, turns>>
    BY <1>3 DEF Begin, Lookup, CheckPrimary, CheckSecondary, DrawLayer, DrawSample, Bind
  <2> QED BY <1>1, <1>t, <2>1, <2>2, TurnKept
<1>4. ASSUME \/ \E a \in Accounts : Bar(a) \/ Recover(a)
             \/ ApplyConfig
             \/ OthersUnchanged
             \/ UNCHANGED <<vars, selVars>>
      PROVE  PickInv' /\ TurnInv'
  <2>1. UNCHANGED <<cursor, turns>>
    BY <1>4 DEF Bar, Recover, ApplyConfig, OthersUnchanged, selVars
  <2>2. TurnInv'
    BY <1>t, <2>1
  <2>3. OthersUnchanged \/ UNCHANGED <<vars, selVars>> => UNCHANGED <<eligible, pick>>
    BY DEF OthersUnchanged, selVars
  <2> QED BY <1>1, <1>4, <2>2, <2>3, OtherSteps
<1>5. SelNext => \/ \E p \in Pickers :
                      \/ Begin(p) \/ Lookup(p) \/ CheckPrimary(p) \/ CheckSecondary(p)
                      \/ DrawLayer(p) \/ TakeTurn(p) \/ DrawSample(p) \/ Bind(p)
                 \/ \E a \in Accounts : Bar(a) \/ Recover(a)
                 \/ ApplyConfig
                 \/ OthersUnchanged
  BY DEF SelNext, ClearStickyAccount, ClearStickyKey, BindSticky, BindStickySecondary
<1>6. PickInv' /\ TurnInv'
  BY <1>3, <1>4, <1>5
<1> QED BY <1>2, <1>6 DEF SelInv

LEMMA SelAlways == SelSpec => []SelInv
  BY SelStarts, SelInductive, PTL DEF SelSpec

\* A pick answers only with an account that was eligible at some moment of the
\* pick and untried, and gives up only when every account eligible all along was
\* tried: whatever ClearSticky, reports and reloads do between its sections.
THEOREM SelectorAnswersEligible == SelSpec => []AnswersEligible
<1>1. SelInv => AnswersEligible
  BY DEF SelInv, PickInv, PickOK, Answered, AnswersEligible, At
<1> QED BY <1>1, SelAlways, PTL

\* Any number of concurrent picks share an unchanged layer evenly, through every
\* wrap of the cursor: the members served last are a run of places ending before
\* the cursor, and exactly those have had one turn more.
THEOREM SelectorFair == SelSpec => []RoundRobinFair
<1>1. SelInv => RoundRobinFair
  <2> SUFFICES ASSUME SelInv, NEW a \in turns.layer, NEW b \in turns.layer
               PROVE  turns.count[a] <= turns.count[b] + 1
    BY DEF RoundRobinFair
  <2>1. InTurn(turns.layer, turns.count, cursor % Cardinality(turns.layer))
    BY DEF SelInv, TurnInv
  <2>2. turns.count[a] \in {0, 1} /\ turns.count[b] \in {0, 1}
    BY <2>1 DEF InTurn
  <2> QED BY <2>2
<1> QED BY <1>1, SelAlways, PTL

\* The table keeps its index, its pairs, its capacity and its order also under
\* concurrent picks, repeated bindings of the cluster and reconfigurations.
THEOREM SelectorTable == SelSpec => [](IndexExact /\ DistinctPair /\ Capacity /\ RecencyTotal)
<1>1. SelInv => IndexExact /\ DistinctPair /\ Capacity /\ RecencyTotal
  BY DEF SelInv, TableInv, IInv
<1> QED BY <1>1, SelAlways, PTL

\* Also while picks run and tables are replaced, once ClearStickyAccount returns
\* no binding names the account.
THEOREM SelectorClearForgets == SelSpec => ClearForgets
<1>1. IInv => [\A a \in Accounts : DeleteAccount(a) =>
          \A k \in Keys : entry'[k].primary # a /\ entry'[k].secondary # a]_vars
  <2> SUFFICES ASSUME IInv, NEW a \in Accounts, DeleteAccount(a), NEW k \in Keys
               PROVE  entry'[k].primary # a /\ entry'[k].secondary # a
    OBVIOUS
  <2> QED BY NoneAssumption DEF IInv, DeleteAccount, TypeOK, IndexExact, DistinctPair, Binding, Absent
<1>2. SelInv => IInv
  BY DEF SelInv, TableInv
<1> QED BY <1>1, <1>2, SelAlways, PTL DEF ClearForgets


=============================================================================
