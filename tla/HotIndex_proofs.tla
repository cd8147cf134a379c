-------------------------- MODULE HotIndex_proofs --------------------------
(* Proofs about HotIndex, whatever the number of accounts and loaders: the   *)
(* dense list and the position map stay exact under every method, and no     *)
(* method but an overtaken reload outgrows the capacity or changes a count.  *)
EXTENDS HotIndex, FiniteSetTheorems, TLAPS

ListInv == ids \in Seq(Accounts) /\ DOMAIN hot \subseteq Accounts /\ DenseExact

LEMMA ListInit == Init => ListInv
  BY DEF Init, ListInv, DenseExact

\* Removal of a hot id.
LEMMA RemoveExact ==
  ASSUME ListInv, NEW a \in DOMAIN hot
  PROVE  /\ Len(ids) \in Nat \ {0}
         /\ ListWithout(a) \in Seq(Accounts)
         /\ Len(ListWithout(a)) = Len(ids) - 1
         /\ DOMAIN PosWithout(a) = DOMAIN hot \ {a}
         /\ \A b \in DOMAIN hot \ {a} : /\ PosWithout(a)[b] \in 1..(Len(ids) - 1)
                                        /\ ListWithout(a)[PosWithout(a)[b]] = b
         /\ \A i \in 1..(Len(ids) - 1) : /\ ListWithout(a)[i] \in DOMAIN hot \ {a}
                                         /\ PosWithout(a)[ListWithout(a)[i]] = i
<1> DEFINE n == Len(ids)
<1>1. /\ n \in Nat /\ pos[a] \in 1..n /\ ids[pos[a]] = a /\ DOMAIN pos = DOMAIN hot
      /\ ids \in [1..n -> Accounts]
      /\ \A b \in DOMAIN hot : pos[b] \in 1..n /\ ids[pos[b]] = b
      /\ \A i \in 1..n : ids[i] \in DOMAIN hot /\ pos[ids[i]] = i
  BY DEF ListInv, DenseExact
<1>2. /\ ListWithout(a) = [j \in 1..(n - 1) |-> IF j = pos[a] THEN ids[n] ELSE ids[j]]
      /\ PosWithout(a) = [b \in DOMAIN hot \ {a} |-> IF b = ids[n] THEN pos[a] ELSE pos[b]]
  BY <1>1 DEF ListWithout, PosWithout
<1> HIDE DEF n
<1>3. n \in Nat \ {0} /\ n - 1 \in Nat /\ n \in 1..n /\ \A i \in 1..(n - 1) : i \in 1..n /\ i # n
  BY <1>1
<1>4. /\ ListWithout(a) \in [1..(n - 1) -> Accounts]
      /\ \A i \in 1..(n - 1) : ListWithout(a)[i] = IF i = pos[a] THEN ids[n] ELSE ids[i]
  BY <1>1, <1>2, <1>3
<1>5. ListWithout(a) \in Seq(Accounts) /\ Len(ListWithout(a)) = n - 1
  BY <1>3, <1>4
<1>6. /\ DOMAIN PosWithout(a) = DOMAIN hot \ {a}
      /\ \A b \in DOMAIN hot \ {a} : PosWithout(a)[b] = IF b = ids[n] THEN pos[a] ELSE pos[b]
  BY <1>2
<1>7. ASSUME NEW b \in DOMAIN hot \ {a}
      PROVE  PosWithout(a)[b] \in 1..(n - 1) /\ ListWithout(a)[PosWithout(a)[b]] = b
  BY <1>1, <1>3, <1>4, <1>6
<1>8. ASSUME NEW i \in 1..(n - 1)
      PROVE  ListWithout(a)[i] \in DOMAIN hot \ {a} /\ PosWithout(a)[ListWithout(a)[i]] = i
  BY <1>1, <1>3, <1>4, <1>6
<1> QED BY <1>3, <1>5, <1>6, <1>7, <1>8 DEF n

LEMMA ListStep == ListInv /\ [Next]_vars => ListInv'
<1> SUFFICES ASSUME ListInv, [Next]_vars PROVE ListInv'
  OBVIOUS
<1> USE AccountsAssumption
<1>1. ASSUME UNCHANGED <<ids, pos>>, DOMAIN hot' = DOMAIN hot PROVE ListInv'
  BY <1>1 DEF ListInv, DenseExact
<1>2. ASSUME NEW a \in DOMAIN hot, Remove(a) PROVE ListInv'
  <2> DEFINE l == ListWithout(a)  p == PosWithout(a)  n == Len(ids)
  <2>1. /\ n \in Nat \ {0} /\ l \in Seq(Accounts) /\ Len(l) = n - 1 /\ DOMAIN p = DOMAIN hot \ {a}
        /\ \A b \in DOMAIN hot \ {a} : p[b] \in 1..(n - 1) /\ l[p[b]] = b
        /\ \A i \in 1..(n - 1) : l[i] \in DOMAIN hot \ {a} /\ p[l[i]] = i
    BY RemoveExact
  <2>2. ids' = l /\ pos' = p /\ DOMAIN hot' = DOMAIN hot \ {a} /\ DOMAIN hot \subseteq Accounts
    BY <1>2 DEF Remove, Less, ListInv
  <2> HIDE DEF l, p, n
  <2> QED BY <2>1, <2>2 DEF ListInv, DenseExact
<1>3. ASSUME NEW next, DOMAIN next \subseteq Accounts, ReplaceAll(next) PROVE ListInv'
  <2>1. /\ Cardinality(DOMAIN next) \in Nat
    BY <1>3, FS_Subset, FS_CardinalityType
  <2>2. PICK s \in Enumerations(DOMAIN next) :
          /\ ids' = s
          /\ pos' = [a \in DOMAIN next |-> CHOOSE i \in DOMAIN s : s[i] = a]
    BY <1>3 DEF ReplaceAll
  <2>3. /\ ids' \in Seq(Accounts)
        /\ Len(ids') = Cardinality(DOMAIN next)
        /\ DOMAIN ids' = 1..Len(ids')
    BY <1>3, <2>1, <2>2 DEF Enumerations
  <2>4. \A a \in DOMAIN next : pos'[a] \in DOMAIN s /\ s[pos'[a]] = a
    BY <2>2 DEF Enumerations
  <2>5. \A i \in DOMAIN s : s[i] \in DOMAIN next /\ pos'[s[i]] = i
    BY <2>2, <2>4 DEF Enumerations
  <2> QED BY <1>3, <2>2, <2>3, <2>4, <2>5 DEF ReplaceAll, ListInv, DenseExact
<1>4. ASSUME NEW a \in Accounts, NEW m \in Inputs, Promote(a, m) PROVE ListInv'
  <2>1. CASE a \in DOMAIN hot /\ hot' = Updated(hot, a, m) /\ UNCHANGED <<ids, pos>>
    BY <1>1, <2>1 DEF Updated
  <2>2. CASE /\ a \notin DOMAIN hot
             /\ hot' = With(hot, a, m)
             /\ ids' = Append(ids, a)
             /\ pos' = Added(pos, Len(ids), a)
    BY <2>2 DEF ListInv, DenseExact, With, Added
  <2>3. ASSUME NEW v \in DOMAIN hot, a \notin DOMAIN hot,
               hot' = With(Less(hot, {v}), a, m),
               ids' = Append(ListWithout(v), a),
               pos' = Added(PosWithout(v), Len(ids) - 1, a)
        PROVE  ListInv'
    <3> DEFINE list == ListWithout(v)
               place == PosWithout(v)
    <3>1. /\ Len(ids) \in Nat \ {0}
          /\ list \in Seq(Accounts)
          /\ Len(list) = Len(ids) - 1
          /\ DOMAIN place = DOMAIN hot \ {v}
          /\ \A b \in DOMAIN hot \ {v} : place[b] \in 1..(Len(ids) - 1) /\ list[place[b]] = b
          /\ \A i \in 1..(Len(ids) - 1) : list[i] \in DOMAIN hot \ {v} /\ place[list[i]] = i
      BY RemoveExact
    <3>2. ids' = Append(list, a) /\ pos' = Added(place, Len(ids) - 1, a)
      BY <2>3
    <3> HIDE DEF list, place
    <3>3. /\ ids' \in Seq(Accounts)
          /\ Len(ids') = Len(ids)
          /\ ids'[Len(ids)] = a
          /\ \A i \in 1..(Len(ids) - 1) : ids'[i] = list[i]
      BY <3>1, <3>2
    <3>4. DOMAIN hot' = (DOMAIN hot \ {v}) \cup {a}
      BY <2>3 DEF With, Less
    <3>5. pos' = [b \in DOMAIN place \cup {a} |-> IF b = a THEN Len(ids) - 1 + 1 ELSE place[b]]
      BY <3>2 DEF Added
    <3>6. /\ DOMAIN pos' = DOMAIN hot'
          /\ pos'[a] = Len(ids)
          /\ \A b \in DOMAIN hot \ {v} : pos'[b] = place[b]
      <4>1. a \notin DOMAIN place
        BY <2>3, <3>1
      <4> QED BY <3>1, <3>4, <3>5, <4>1
    <3>7. \A b \in DOMAIN hot' : pos'[b] \in 1..Len(ids') /\ ids'[pos'[b]] = b
      BY <3>1, <3>3, <3>4, <3>6
    <3>8. \A i \in 1..Len(ids') : ids'[i] \in DOMAIN hot' /\ pos'[ids'[i]] = i
      BY <3>1, <3>3, <3>4, <3>6
    <3> QED BY <3>3, <3>4, <3>6, <3>7, <3>8 DEF ListInv, DenseExact
  <2> QED BY <1>4, <2>1, <2>2, <2>3 DEF Promote, PromoteNew
<1>5. ASSUME NEW n \in 1..MaxCap, Resize(n) PROVE ListInv'
  <2>1. CASE Len(ids) <= n
    BY <1>5, <2>1 DEF Resize, ListInv, DenseExact
  <2>2. CASE Len(ids) > n
    <3>1. /\ ids' = SubSeq(ids, 1, n)
          /\ DOMAIN hot' = {ids[i] : i \in 1..n}
          /\ pos' = [a \in DOMAIN hot' |-> pos[a]]
      BY <1>5, <2>2 DEF Resize, ListInv
    <3>2. /\ ids' \in Seq(Accounts)
          /\ Len(ids') = n
          /\ \A i \in 1..n : ids'[i] = ids[i]
      BY <2>2, <3>1 DEF ListInv
    <3>3. /\ Len(ids) \in Nat /\ DOMAIN pos = DOMAIN hot /\ DOMAIN hot \subseteq Accounts
          /\ \A i \in 1..Len(ids) : ids[i] \in DOMAIN hot /\ pos[ids[i]] = i
      BY DEF ListInv, DenseExact
    <3>4. \A i \in 1..n : i \in 1..Len(ids)
      BY <2>2, <3>3
    <3>5. /\ DOMAIN pos' = DOMAIN hot' /\ DOMAIN hot' \subseteq Accounts
          /\ \A i \in 1..n : ids'[i] \in DOMAIN hot' /\ pos'[ids'[i]] = i
      BY <3>1, <3>2, <3>3, <3>4
    <3>6. \A b \in DOMAIN hot' : pos'[b] \in 1..n /\ ids'[pos'[b]] = b
      BY <3>1, <3>2, <3>3, <3>4
    <3> QED BY <3>2, <3>5, <3>6 DEF ListInv, DenseExact
  <2> QED BY <2>1, <2>2 DEF ListInv
<1>6. ASSUME NEW a \in Accounts,
             Demote(a) \/ DemoteNext(a) \/ AddInflight(a) \/ SubInflight(a)
      PROVE  ListInv'
  BY <1>1, <1>2, <1>6 DEF Demote, DemoteNext, AddInflight, SubInflight,
                          Incremented, Decremented
<1>7. ASSUME NEW a \in Accounts, NEW until \in 0..MaxCount, SetCooldown(a, until)
      PROVE  ListInv'
  BY <1>1, <1>7 DEF SetCooldown
<1>8. ASSUME NEW S \in SUBSET Accounts, NEW m \in Inputs, LoadMetas(S, m) PROVE ListInv'
  BY <1>3, <1>8 DEF LoadMetas, Rebuilt
<1>9. ASSUME NEW l \in Loaders, NEW S \in SUBSET Accounts, NEW m \in Inputs,
             LoadCommit(l, S, m)
      PROVE  ListInv'
  BY <1>3, <1>9 DEF LoadCommit, Rebuilt
<1>10. CASE UNCHANGED <<hot, ids, pos>>
  BY <1>1, <1>10
<1> QED
  BY <1>4, <1>5, <1>6, <1>7, <1>8, <1>9, <1>10
     DEF Next, vars, DemoteMany, LoadBegin, LoadAbort, Close

\* Every hot account can be drawn by the sampler, exactly once per list
\* position, and every removal finds its place.
THEOREM DenseAlwaysExact == Spec => []DenseExact
<1>1. ListInv => DenseExact
  BY DEF ListInv
<1> QED
  BY ListInit, ListStep, <1>1, PTL DEF Spec
-----------------------------------------------------------------------------
(* What a step may do.                                                     *)

LoadType(x) ==
  /\ x.busy \in BOOLEAN /\ x.cap \in 0..MaxCap
  /\ \A a \in DOMAIN x.saved : x.saved[a] \in Nat

\* TypeOK with the domains it leaves open and the copies of the loaders.
TypeInv ==
  /\ DOMAIN hot \subseteq Accounts
  /\ \A a \in DOMAIN hot : hot[a] \in Meta
  /\ cap \in 1..MaxCap
  /\ closed \in BOOLEAN
  /\ batch \subseteq Accounts
  /\ DOMAIN load = Loaders
  /\ \A l \in Loaders : LoadType(load[l])

LEMMA InputsTyped == Inputs \subseteq Meta
<1> SUFFICES ASSUME NEW f \in 0..MaxCount PROVE [FreshMeta EXCEPT !.failure = f] \in Meta
  BY DEF Inputs
<1>1. f \in Nat
  BY MaxCountAssumption
<1> QED BY <1>1 DEF FreshMeta, Meta

\* Promote of a hot account leaves its count alone.
LEMMA UpdatedTyped ==
  ASSUME NEW h, NEW a \in DOMAIN h, \A b \in DOMAIN h : h[b] \in Meta, NEW m \in Meta
  PROVE  /\ DOMAIN Updated(h, a, m) = DOMAIN h
         /\ \A b \in DOMAIN h : /\ Updated(h, a, m)[b] \in Meta
                                /\ Updated(h, a, m)[b].inflight = h[b].inflight
<1> DEFINE x == [m EXCEPT !.inflight = h[a].inflight]
<1>1. h[a].inflight \in Nat
  BY DEF Meta
<1>2. x \in Meta /\ x.inflight = h[a].inflight
  BY <1>1 DEF Meta
<1>3. Updated(h, a, m) = [h EXCEPT ![a] = x]
  BY DEF Updated
<1> HIDE DEF x
<1> QED BY <1>2, <1>3

\* A write of one field of a hot account.
LEMMA FieldTyped ==
  ASSUME NEW h, NEW a \in DOMAIN h, \A b \in DOMAIN h : h[b] \in Meta, NEW n \in Nat
  PROVE  /\ \A b \in DOMAIN h : [h EXCEPT ![a].inflight = n][b] \in Meta
         /\ \A b \in DOMAIN h : /\ [h EXCEPT ![a].coolUntil = n][b] \in Meta
                                /\ [h EXCEPT ![a].coolUntil = n][b].inflight = h[b].inflight
<1> DEFINE x == [h[a] EXCEPT !.inflight = n]
           y == [h[a] EXCEPT !.coolUntil = n]
<1>1. x \in Meta
  BY DEF Meta
<1>2. y \in Meta /\ y.inflight = h[a].inflight
  BY DEF Meta
<1>3. [h EXCEPT ![a].inflight = n] = [h EXCEPT ![a] = x]
  OBVIOUS
<1>4. [h EXCEPT ![a].coolUntil = n] = [h EXCEPT ![a] = y]
  OBVIOUS
<1> HIDE DEF x, y
<1> QED BY <1>1, <1>2, <1>3, <1>4

\* The hot set a reload builds.
LEMMA RebuiltTyped ==
  ASSUME NEW S, NEW rows, \A a \in S : rows[a] \in Meta,
         NEW saved, \A a \in DOMAIN saved : saved[a] \in Nat
  PROVE  /\ DOMAIN Rebuilt(rows, S, saved) = S
         /\ \A a \in S :
              /\ Rebuilt(rows, S, saved)[a] \in Meta
              /\ a \in DOMAIN saved => Rebuilt(rows, S, saved)[a].inflight = saved[a]
<1> DEFINE n(a) == IF a \in DOMAIN saved THEN saved[a] ELSE 0
           r == Rebuilt(rows, S, saved)
<1>1. \A a \in S : n(a) \in Nat /\ (a \in DOMAIN saved => n(a) = saved[a])
  OBVIOUS
<1>2. r = [a \in S |-> [rows[a] EXCEPT !.inflight = n(a)]]
  BY DEF Rebuilt
<1> HIDE DEF n, r
<1>3. DOMAIN r = S /\ \A a \in S : r[a] = [rows[a] EXCEPT !.inflight = n(a)]
  BY <1>2
<1>4. ASSUME NEW a \in S
      PROVE  r[a] \in Meta /\ (a \in DOMAIN saved => r[a].inflight = saved[a])
  <2>1. PICK m \in Meta : m = rows[a]
    OBVIOUS
  <2>2. PICK k \in Nat : k = n(a)
    BY <1>1
  <2>3. r[a] = [m EXCEPT !.inflight = k]
    BY <1>3, <2>1, <2>2
  <2>4. r[a] \in Meta /\ r[a].inflight = k
    BY <2>3 DEF Meta
  <2> QED BY <1>1, <2>2, <2>4
<1>5. DOMAIN r = S
  BY <1>3
<1> QED BY <1>4, <1>5 DEF r

LEMMA InflightTyped ==
  ASSUME TypeInv
  PROVE  \A a \in DOMAIN InflightOf(hot) : a \in DOMAIN hot /\ InflightOf(hot)[a] = hot[a].inflight
                                           /\ InflightOf(hot)[a] \in Nat
<1>1. \A a \in DOMAIN hot : hot[a].inflight \in Nat
  BY DEF TypeInv, Meta
<1> QED BY <1>1 DEF InflightOf

LEMMA TypeInit == Init => TypeInv
<1> SUFFICES ASSUME Init PROVE TypeInv
  OBVIOUS
<1>1. LoadType(NoLoad)
  <2>1. NoLoad.busy \in BOOLEAN /\ NoLoad.cap \in 0..MaxCap /\ DOMAIN NoLoad.saved = {}
    BY MaxCapAssumption DEF NoLoad
  <2> QED BY <2>1 DEF LoadType
<1>2. DOMAIN load = Loaders /\ \A l \in Loaders : load[l] = NoLoad
  BY DEF Init
<1>3. DOMAIN hot = {} /\ cap \in 1..MaxCap /\ closed = FALSE /\ batch = {}
  BY DEF Init
<1> QED BY <1>1, <1>2, <1>3 DEF TypeInv

\* What each step does to the counts and the loads, in one place: the hot set keeps its
\* type, and the count of an account that stays changes by a lease or a reload only.
LEMMA HotStep ==
  ASSUME TypeInv, DenseExact, [Next]_vars
  PROVE  /\ DOMAIN hot' \subseteq Accounts /\ \A a \in DOMAIN hot' : hot'[a] \in Meta
         /\ \A a \in DOMAIN hot \cap DOMAIN hot' :
               \/ hot'[a].inflight = hot[a].inflight
               \/ AddInflight(a) \/ SubInflight(a)
               \/ \E l \in Loaders : load[l].busy /\ ~load'[l].busy
<1> DEFINE Typed == DOMAIN hot' \subseteq Accounts /\ \A a \in DOMAIN hot' : hot'[a] \in Meta
           Goal == /\ Typed
                   /\ \A a \in DOMAIN hot \cap DOMAIN hot' :
                         \/ hot'[a].inflight = hot[a].inflight
                         \/ AddInflight(a) \/ SubInflight(a)
                         \/ \E l \in Loaders : load[l].busy /\ ~load'[l].busy
<1> SUFFICES Goal
  OBVIOUS
<1>0. DOMAIN hot \subseteq Accounts /\ \A a \in DOMAIN hot : hot[a] \in Meta
  BY DEF TypeInv
<1>1. ASSUME NEW a \in Accounts, NEW m \in Inputs, Promote(a, m) PROVE Goal
  <2>0. m \in Meta
    BY InputsTyped
  <2>1. CASE a \in DOMAIN hot /\ hot' = Updated(hot, a, m)
    BY <1>0, <2>0, <2>1, UpdatedTyped
  <2>2. CASE hot' = With(hot, a, m) /\ a \notin DOMAIN hot
    BY <1>0, <2>0, <2>2 DEF With
  <2>3. CASE \E v \in DOMAIN hot : hot' = With(Less(hot, {v}), a, m) /\ a \notin DOMAIN hot
    BY <1>0, <2>0, <2>3 DEF With, Less
  <2> HIDE DEF Goal
  <2> QED BY <1>1, <2>1, <2>2, <2>3 DEF Promote, PromoteNew
<1>2. CASE UNCHANGED hot
  BY <1>0, <1>2
<1>3. ASSUME NEW a \in DOMAIN hot, Remove(a) PROVE Goal
  BY <1>0, <1>3 DEF Remove, Less
<1>4. ASSUME NEW a \in Accounts, AddInflight(a) PROVE Goal
  <2>1. hot[a].inflight + 1 \in Nat /\ a \in DOMAIN hot
    BY <1>0, <1>4 DEF AddInflight, Meta
  <2>2. hot' = [hot EXCEPT ![a].inflight = hot[a].inflight + 1]
    BY <1>4 DEF AddInflight, Incremented
  <2>3. DOMAIN hot' = DOMAIN hot /\ \A b \in DOMAIN hot : hot'[b] \in Meta /\ (b # a => hot'[b] = hot[b])
    BY <1>0, <2>1, <2>2, FieldTyped
  <2> QED BY <1>0, <1>4, <2>3
<1>5. ASSUME NEW a \in Accounts, SubInflight(a) PROVE Goal
  <2> DEFINE n == IF hot[a].inflight > 0 THEN hot[a].inflight - 1 ELSE 0
  <2>1. n \in Nat /\ a \in DOMAIN hot
    BY <1>0, <1>5 DEF SubInflight, Meta
  <2>2. hot' = [hot EXCEPT ![a].inflight = n]
    BY <1>5 DEF SubInflight, Decremented
  <2> HIDE DEF n
  <2>3. DOMAIN hot' = DOMAIN hot /\ \A b \in DOMAIN hot : hot'[b] \in Meta /\ (b # a => hot'[b] = hot[b])
    BY <1>0, <2>1, <2>2, FieldTyped
  <2> QED BY <1>0, <1>5, <2>3
<1>6. ASSUME NEW a \in Accounts, NEW until \in 0..MaxCount, SetCooldown(a, until) PROVE Goal
  <2>1. a \in DOMAIN hot /\ hot' = [hot EXCEPT ![a].coolUntil = until] /\ until \in Nat
    BY <1>6, MaxCountAssumption DEF SetCooldown
  <2>2. DOMAIN hot' = DOMAIN hot
    BY <2>1
  <2>3. \A b \in DOMAIN hot : hot'[b] \in Meta /\ hot'[b].inflight = hot[b].inflight
    <3> DEFINE h == [hot EXCEPT ![a].coolUntil = until]
    <3>1. \A b \in DOMAIN hot : h[b] \in Meta /\ h[b].inflight = hot[b].inflight
      BY <1>0, <2>1, FieldTyped
    <3> HIDE DEF h
    <3> QED BY <2>1, <3>1 DEF h
  <2> QED BY <1>0, <2>2, <2>3
<1>7. ASSUME NEW S \in SUBSET Accounts, NEW m \in Inputs, LoadMetas(S, m) PROVE Goal
  <2> DEFINE rows == [a \in S |-> m]
             saved == InflightOf(hot)
  <2>1. hot' = Rebuilt(rows, S, saved)
    BY <1>7 DEF LoadMetas, ReplaceAll
  <2>2. \A a \in S : rows[a] \in Meta
    BY InputsTyped
  <2>3. /\ \A a \in DOMAIN saved : saved[a] \in Nat
        /\ \A a \in DOMAIN hot : a \in DOMAIN saved /\ saved[a] = hot[a].inflight
    BY InflightTyped DEF InflightOf
  <2> HIDE DEF rows, saved
  <2>4. /\ DOMAIN hot' = S
        /\ \A a \in S : hot'[a] \in Meta /\ (a \in DOMAIN saved => hot'[a].inflight = saved[a])
    BY <2>1, <2>2, <2>3, RebuiltTyped
  <2>5. \A a \in DOMAIN hot \cap DOMAIN hot' : hot'[a].inflight = hot[a].inflight
    BY <2>3, <2>4
  <2> QED BY <2>4, <2>5
<1>8. ASSUME NEW l \in Loaders, NEW S \in SUBSET Accounts, NEW m \in Inputs, LoadCommit(l, S, m) PROVE Goal
  <2> DEFINE rows == [a \in S |-> m]
             saved == load[l].saved
  <2>1. hot' = Rebuilt(rows, S, saved)
    BY <1>8 DEF LoadCommit, ReplaceAll
  <2>2. (\A a \in S : rows[a] \in Meta) /\ \A a \in DOMAIN saved : saved[a] \in Nat
    BY InputsTyped DEF TypeInv, LoadType
  <2>3. load[l].busy /\ ~load'[l].busy
    BY <1>8 DEF LoadCommit, NoLoad, TypeInv
  <2> HIDE DEF rows, saved
  <2>4. DOMAIN hot' = S /\ \A a \in S : hot'[a] \in Meta
    BY <2>1, <2>2, RebuiltTyped
  <2> QED BY <2>3, <2>4
<1>9. ASSUME NEW n \in 1..MaxCap, Resize(n), DenseExact PROVE Goal
  <2>1. DOMAIN hot' \subseteq DOMAIN hot /\ \A a \in DOMAIN hot' : hot'[a] = hot[a]
    <3> DEFINE K == 1..(IF Len(ids) < n THEN Len(ids) ELSE n)
    <3>1. hot' = [a \in {ids[i] : i \in K} |-> hot[a]]
      BY <1>9 DEF Resize
    <3>2. K \subseteq 1..Len(ids)
      BY <1>9
    <3>3. \A i \in K : ids[i] \in DOMAIN hot
      BY <3>2 DEF DenseExact
    <3> HIDE DEF K
    <3> QED BY <3>1, <3>3
  <2> QED BY <1>0, <2>1
<1> HIDE DEF Goal
<1>10. ASSUME NEW a \in Accounts, Demote(a) \/ DemoteNext(a) PROVE Goal
  BY <1>2, <1>3, <1>10 DEF Demote, DemoteNext
<1>11. ASSUME NEW l \in Loaders, LoadBegin(l) \/ LoadAbort(l) PROVE Goal
  BY <1>2, <1>11 DEF LoadBegin, LoadAbort
<1>12. ASSUME NEW S \in SUBSET Accounts, DemoteMany(S) PROVE Goal
  BY <1>2, <1>12 DEF DemoteMany
<1>13. CASE Close \/ UNCHANGED vars
  BY <1>2, <1>13 DEF Close, vars
<1> QED
  BY <1>1, <1>4, <1>5, <1>6, <1>7, <1>8, <1>9, <1>10, <1>11, <1>12, <1>13 DEF Next


LEMMA TypeStep == TypeInv /\ DenseExact /\ [Next]_vars => TypeInv'
<1> SUFFICES ASSUME TypeInv, DenseExact, [Next]_vars PROVE TypeInv'
  OBVIOUS
<1>1. DOMAIN hot' \subseteq Accounts /\ \A a \in DOMAIN hot' : hot'[a] \in Meta
  BY HotStep
<1>2. cap' \in 1..MaxCap /\ closed' \in BOOLEAN /\ batch' \subseteq Accounts
  BY DEF TypeInv, Next, vars, Promote, Demote, DemoteMany, DemoteNext, Resize, AddInflight, SubInflight,
         SetCooldown, LoadMetas, LoadBegin, LoadCommit, LoadAbort, Close
<1>3. DOMAIN load' = Loaders /\ \A l \in Loaders : LoadType(load'[l])
  <2> DEFINE copy == [busy |-> TRUE, cap |-> cap, saved |-> InflightOf(hot)]
  <2>1. LoadType(copy)
    <3>1. \A a \in DOMAIN InflightOf(hot) : InflightOf(hot)[a] \in Nat
      BY InflightTyped
    <3>2. copy.busy = TRUE /\ copy.cap = cap /\ copy.saved = InflightOf(hot)
      OBVIOUS
    <3>3. cap \in 0..MaxCap
      BY MaxCapAssumption DEF TypeInv
    <3> HIDE DEF copy
    <3> QED BY <3>1, <3>2, <3>3 DEF LoadType
  <2>2. LoadType(NoLoad)
    <3>1. NoLoad.busy \in BOOLEAN /\ NoLoad.cap \in 0..MaxCap /\ DOMAIN NoLoad.saved = {}
      BY MaxCapAssumption DEF NoLoad
    <3> QED BY <3>1 DEF LoadType
  <2>3. \/ UNCHANGED load
        \/ \E l \in Loaders : load' = [load EXCEPT ![l] = copy] \/ load' = [load EXCEPT ![l] = NoLoad]
    BY DEF Next, vars, Promote, Demote, DemoteMany, DemoteNext, Resize, AddInflight, SubInflight,
           SetCooldown, LoadMetas, LoadBegin, LoadCommit, LoadAbort, Close
  <2>4. DOMAIN load = Loaders /\ \A l \in Loaders : LoadType(load[l])
    BY DEF TypeInv
  <2> HIDE DEF copy
  <2> QED BY <2>1, <2>2, <2>3, <2>4
<1> QED BY <1>1, <1>2, <1>3 DEF TypeInv

\* The first n ids of the list are at most n accounts.
LEMMA KeptFew ==
  ASSUME ids \in Seq(Accounts), NEW n \in Nat, NEW k \in Nat, k <= n, k <= Len(ids)
  PROVE  Cardinality({ids[i] : i \in 1..k}) <= n
<1> DEFINE S == {ids[i] : i \in 1..k}
           f == [i \in 1..k |-> ids[i]]
<1>1. f \in Surjection(1..k, S)
  BY DEF Surjection
<1>2. IsFiniteSet(1..k) /\ Cardinality(1..k) = k
  <2>1. 1 \in Int /\ k \in Int
    OBVIOUS
  <2>2. IsFiniteSet(1..k) /\ Cardinality(1..k) = IF 1 > k THEN 0 ELSE k - 1 + 1
    BY <2>1, FS_Interval
  <2> QED BY <2>2
<1> HIDE DEF S, f
<1>3. IsFiniteSet(S) /\ Cardinality(S) <= Cardinality(1..k)
  BY <1>1, <1>2, FS_Surjection
<1>4. Cardinality(S) \in Nat
  BY <1>3, FS_CardinalityType
<1> QED BY <1>2, <1>3, <1>4 DEF S

LEMMA GrowthStep ==
  ASSUME TypeInv, ListInv, [Next]_vars
  PROVE  \/ Cardinality(DOMAIN hot') <= cap'
         \/ cap' = cap /\ Cardinality(DOMAIN hot') <= Cardinality(DOMAIN hot)
         \/ \E l \in Loaders : /\ load[l].busy /\ ~load'[l].busy
                               /\ Cardinality(DOMAIN hot') <= load[l].cap
<1> DEFINE Goal == \/ Cardinality(DOMAIN hot') <= cap'
                   \/ cap' = cap /\ Cardinality(DOMAIN hot') <= Cardinality(DOMAIN hot)
                   \/ \E l \in Loaders : /\ load[l].busy /\ ~load'[l].busy
                                         /\ Cardinality(DOMAIN hot') <= load[l].cap
<1> SUFFICES Goal
  OBVIOUS
<1>0. IsFiniteSet(DOMAIN hot) /\ Cardinality(DOMAIN hot) \in Nat /\ cap \in Nat
  <2>1. IsFiniteSet(DOMAIN hot)
    BY AccountsAssumption, FS_Subset DEF TypeInv
  <2> QED BY <2>1, FS_CardinalityType DEF TypeInv
<1>1. ASSUME DOMAIN hot' \subseteq DOMAIN hot, cap' = cap PROVE Goal
  BY <1>0, <1>1, FS_Subset
<1>2. ASSUME NEW a \in Accounts, NEW m \in Inputs, Promote(a, m) PROVE Goal
  <2>1. CASE a \in DOMAIN hot /\ hot' = Updated(hot, a, m)
    <3>1. DOMAIN hot' = DOMAIN hot /\ cap' = cap
      BY <1>2, <2>1 DEF Updated, Promote
    <3> QED BY <1>1, <3>1
  <2>2. CASE a \notin DOMAIN hot /\ Cardinality(DOMAIN hot) < cap /\ hot' = With(hot, a, m)
    <3>1. DOMAIN hot' = DOMAIN hot \cup {a} /\ cap' = cap
      BY <1>2, <2>2 DEF With, Promote
    <3>2. Cardinality(DOMAIN hot \cup {a}) = Cardinality(DOMAIN hot) + 1
      BY <1>0, <2>2, FS_AddElement
    <3> QED BY <1>0, <2>2, <3>1, <3>2
  <2>3. ASSUME NEW v \in DOMAIN hot, a \notin DOMAIN hot, hot' = With(Less(hot, {v}), a, m), cap' = cap
        PROVE  Goal
    <3>1. DOMAIN hot' = (DOMAIN hot \ {v}) \cup {a}
      BY <2>3 DEF With, Less
    <3>2. /\ IsFiniteSet(DOMAIN hot \ {v})
          /\ Cardinality(DOMAIN hot \ {v}) = Cardinality(DOMAIN hot) - 1
      BY <1>0, FS_RemoveElement
    <3>3. Cardinality((DOMAIN hot \ {v}) \cup {a}) = Cardinality(DOMAIN hot \ {v}) + 1
      BY <2>3, <3>2, FS_AddElement
    <3> QED BY <1>0, <2>3, <3>1, <3>2, <3>3
  <2>4. cap' = cap
    BY <1>2 DEF Promote
  <2> HIDE DEF Goal
  <2> QED BY <1>2, <2>1, <2>2, <2>3, <2>4 DEF Promote, PromoteNew
<1>3. ASSUME NEW n \in 1..MaxCap, Resize(n) PROVE Goal
  <2> DEFINE k == IF Len(ids) < n THEN Len(ids) ELSE n
  <2>1. DOMAIN hot' = {ids[i] : i \in 1..k} /\ cap' = n
    BY <1>3 DEF Resize
  <2>2. ids \in Seq(Accounts) /\ n \in Nat /\ k \in Nat /\ k <= n /\ k <= Len(ids)
    BY DEF ListInv
  <2> HIDE DEF k
  <2>3. Cardinality({ids[i] : i \in 1..k}) <= n
    BY <2>2, KeptFew
  <2> QED BY <2>1, <2>3
<1>4. ASSUME NEW S \in SUBSET Accounts, NEW m \in Inputs, LoadMetas(S, m) PROVE Goal
  <2>1. DOMAIN hot' = S /\ Cardinality(S) <= cap /\ cap' = cap
    BY <1>4 DEF LoadMetas, ReplaceAll, Rebuilt
  <2> QED BY <2>1
<1>5. ASSUME NEW l \in Loaders, NEW S \in SUBSET Accounts, NEW m \in Inputs, LoadCommit(l, S, m) PROVE Goal
  <2>1. DOMAIN hot' = S /\ Cardinality(S) <= load[l].cap
    BY <1>5 DEF LoadCommit, ReplaceAll, Rebuilt
  <2>2. load[l].busy /\ ~load'[l].busy
    BY <1>5 DEF LoadCommit, NoLoad, TypeInv
  <2> QED BY <2>1, <2>2
<1>6. ASSUME NEW a \in Accounts, AddInflight(a) \/ SubInflight(a) PROVE Goal
  BY <1>1, <1>6 DEF AddInflight, SubInflight, Incremented, Decremented
<1>7. ASSUME NEW a \in Accounts, NEW until \in 0..MaxCount, SetCooldown(a, until) PROVE Goal
  BY <1>1, <1>7 DEF SetCooldown
<1>8. ASSUME NEW a \in Accounts, Demote(a) \/ DemoteNext(a) PROVE Goal
  BY <1>1, <1>8 DEF Demote, DemoteNext, Remove, Less
<1> HIDE DEF Goal
<1>9. ASSUME UNCHANGED <<hot, cap>> PROVE Goal
  BY <1>1, <1>9
<1>10. ASSUME NEW l \in Loaders, LoadBegin(l) \/ LoadAbort(l) PROVE Goal
  BY <1>9, <1>10 DEF LoadBegin, LoadAbort
<1>11. ASSUME NEW S \in SUBSET Accounts, DemoteMany(S) PROVE Goal
  BY <1>9, <1>11 DEF DemoteMany
<1>12. ASSUME Close \/ UNCHANGED vars PROVE Goal
  BY <1>9, <1>12 DEF Close, vars
<1> QED
  BY <1>2, <1>3, <1>4, <1>5, <1>6, <1>7, <1>8, <1>10, <1>11, <1>12 DEF Next

\* No method but a reload that another overtook puts more accounts into the hot set than
\* its capacity, or changes the count of an account that stays.
THEOREM StepsAlwaysSound == Spec => StepsSound
<1>1. TypeInv /\ ListInv /\ [Next]_vars =>
        [ \/ Cardinality(DOMAIN hot') <= cap'
          \/ (cap' = cap /\ Cardinality(DOMAIN hot') <= Cardinality(DOMAIN hot))
          \/ \E l \in Loaders : /\ load[l].busy /\ ~load'[l].busy
                                /\ Cardinality(DOMAIN hot') <= load[l].cap ]_vars
  BY GrowthStep
<1>2. TypeInv /\ ListInv /\ [Next]_vars =>
        [ \A a \in DOMAIN hot \cap DOMAIN hot' :
            \/ hot'[a].inflight = hot[a].inflight
            \/ AddInflight(a)
            \/ SubInflight(a)
            \/ \E l \in Loaders : load[l].busy /\ ~load'[l].busy ]_vars
  BY HotStep DEF ListInv
<1>3. TypeInv /\ ListInv /\ [Next]_vars => TypeInv'
  BY TypeStep DEF ListInv
<1> QED
  BY <1>1, <1>2, <1>3, TypeInit, ListInit, ListStep, PTL
     DEF Spec, StepsSound, GrowthWithinCap, InflightByLeases


\* Every field keeps its type.
THEOREM TypeCorrect == Spec => []TypeOK
<1>1. TypeInv /\ ListInv => TypeOK
  BY DEF TypeInv, LoadType, ListInv, TypeOK
<1>2. TypeInv /\ ListInv /\ [Next]_vars => TypeInv'
  BY TypeStep DEF ListInv
<1> QED
  BY <1>1, <1>2, TypeInit, ListInit, ListStep, PTL DEF Spec


=============================================================================
