---------------------------- MODULE Cluster_proofs ----------------------------
(* Proofs about the parts of a cluster, for any number of workers, requests, *)
(* accounts and refreshers.                                                  *)
EXTENDS Cluster, Integers, FiniteSetTheorems, TLAPS

-------------------------------------------------------------------------------
(* Counting.                                                               *)

Bit(b) == IF b THEN 1 ELSE 0

\* A finite set that may gain or lose one element.
LEMMA CardMoves ==
  ASSUME NEW S, NEW T, NEW r, IsFiniteSet(S), T \ {r} = S \ {r}
  PROVE  /\ IsFiniteSet(T) /\ Cardinality(S) \in Nat /\ Cardinality(T) \in Nat
         /\ Cardinality(T) = Cardinality(S) + Bit(r \in T) - Bit(r \in S)
<1> DEFINE U == S \ {r}
<1>1. IsFiniteSet(U) /\ r \notin U /\ Cardinality(U) \in Nat
  BY FS_Subset, FS_CardinalityType
<1>2. S = U \/ S = U \cup {r}
  OBVIOUS
<1>3. T = U \/ T = U \cup {r}
  OBVIOUS
<1>4. r \in S <=> S # U
  OBVIOUS
<1>5. r \in T <=> T # U
  OBVIOUS
<1> HIDE DEF U
<1>6. IsFiniteSet(U \cup {r}) /\ Cardinality(U \cup {r}) = Cardinality(U) + 1
  BY <1>1, FS_AddElement
<1> QED
  BY <1>1, <1>2, <1>3, <1>4, <1>5, <1>6 DEF Bit

\* A subset of a finite set is finite and no larger.
LEMMA CardSubset ==
  ASSUME NEW S, NEW T, IsFiniteSet(S), T \subseteq S
  PROVE  /\ IsFiniteSet(T) /\ Cardinality(T) \in Nat /\ Cardinality(S) \in Nat
         /\ Cardinality(T) <= Cardinality(S)
BY FS_Subset, FS_CardinalityType

\* The parts count as this module does.
LEMMA SameCardinality == \A S : Gate!Cardinality(S) = Cardinality(S) /\ Entry!Cardinality(S) = Cardinality(S)
  BY DEF Gate!Cardinality, Entry!Cardinality, Cardinality

-------------------------------------------------------------------------------
(* The in-flight counts of ClusterGate.                                    *)

GatePcs == {"idle", "pick", "incr", "row", "undo", "undoDel", "leased", "release", "releaseDel", "report"}
GateReq == [pc : GatePcs, on : Accounts \cup {NoAccount}, tried : SUBSET Accounts,
            live : BOOLEAN, good : BOOLEAN]

GateTyped ==
  /\ backend \in {"memory", "redis"}
  /\ count \in [Accounts -> Int]
  /\ rq \in [Requests -> GateReq]
  /\ leaked \in [Accounts -> Nat]

\* Requests whose attempt was let in, until the count gives them back.
LetIn(a) == {r \in Requests : rq[r].pc \in {"row", "leased", "release"} /\ rq[r].on = a}

\* An attempt is at an account; only Redis deletes a key in a command of its own.
AtAccount ==
  \A r \in Requests :
    /\ rq[r].pc \notin {"idle", "pick"} => rq[r].on \in Accounts
    /\ rq[r].pc \in {"undoDel", "releaseDel"} => backend = "redis"

\* In memory nothing leaks, so the count is exact and the cap holds.
ExactInMemory ==
  backend = "memory" =>
    \A a \in Accounts :
      /\ count[a] = Cardinality(Gate!CountedOn(a))
      /\ Cardinality(LetIn(a)) <= MaxInflight

GateInv == GateTyped /\ AtAccount /\ Gate!NeverOverCounts /\ ExactInMemory

USE ClusterAssumption

\* The sets of requests that are counted.
LEMMA CountedFinite ==
  \A a : /\ IsFiniteSet(Gate!CountedOn(a)) /\ Cardinality(Gate!CountedOn(a)) \in Nat
         /\ IsFiniteSet(LetIn(a)) /\ Cardinality(LetIn(a)) \in Nat
         /\ Cardinality(LetIn(a)) <= Cardinality(Gate!CountedOn(a))
         /\ Cardinality(Gate!CountedOn(a)') \in Nat /\ Cardinality(LetIn(a)') \in Nat
         /\ Cardinality(LetIn(a)') <= Cardinality(Gate!CountedOn(a)')
<1>1. \A a : LetIn(a) \subseteq Gate!CountedOn(a) /\ Gate!CountedOn(a) \subseteq Requests
  BY DEF LetIn, Gate!CountedOn, Gate!Counted
<1>2. \A a : LetIn(a)' \subseteq Gate!CountedOn(a)' /\ Gate!CountedOn(a)' \subseteq Requests
  BY DEF LetIn, Gate!CountedOn, Gate!Counted
<1> QED BY <1>1, <1>2, CardSubset

IsCounted(m, a) == m.pc \in {"row", "undo", "leased", "release"} /\ m.on = a
IsLetIn(m, a) == m.pc \in {"row", "leased", "release"} /\ m.on = a
Placed(m) ==
  /\ m.pc \notin {"idle", "pick"} => m.on \in Accounts
  /\ m.pc \in {"undoDel", "releaseDel"} => backend = "redis"

\* What one request that moves does to the sets that are counted.
LEMMA OneRequest ==
  ASSUME GateTyped, NEW r \in Requests, NEW m \in GateReq, rq' = [rq EXCEPT ![r] = m], NEW a
  PROVE  /\ rq' \in [Requests -> GateReq] /\ rq'[r] = m /\ \A q \in Requests \ {r} : rq'[q] = rq[q]
         /\ Cardinality(Gate!CountedOn(a)') =
              Cardinality(Gate!CountedOn(a)) + Bit(IsCounted(m, a)) - Bit(IsCounted(rq[r], a))
         /\ Cardinality(LetIn(a)') = Cardinality(LetIn(a)) + Bit(IsLetIn(m, a)) - Bit(IsLetIn(rq[r], a))
         /\ IsCounted(rq[r], a) => Cardinality(Gate!CountedOn(a)) > 0
<1> DEFINE C == Gate!CountedOn(a)  D == Gate!CountedOn(a)'
           K == LetIn(a)  L == LetIn(a)'
<1>1. rq' \in [Requests -> GateReq] /\ rq'[r] = m /\ \A q \in Requests \ {r} : rq'[q] = rq[q]
  BY DEF GateTyped
<1>2. /\ D \ {r} = C \ {r} /\ (r \in D <=> IsCounted(m, a)) /\ (r \in C <=> IsCounted(rq[r], a))
  BY <1>1 DEF Gate!CountedOn, Gate!Counted, IsCounted
<1>3. /\ L \ {r} = K \ {r} /\ (r \in L <=> IsLetIn(m, a)) /\ (r \in K <=> IsLetIn(rq[r], a))
  BY <1>1 DEF LetIn, IsLetIn
<1>4. IsFiniteSet(C) /\ IsFiniteSet(K)
  BY CountedFinite
<1> HIDE DEF C, D, K, L
<1>5. Cardinality(D) = Cardinality(C) + Bit(r \in D) - Bit(r \in C)
  BY <1>2, <1>4, CardMoves
<1>6. Cardinality(L) = Cardinality(K) + Bit(r \in L) - Bit(r \in K)
  BY <1>3, <1>4, CardMoves
<1>7. r \in C => Cardinality(C) > 0
  BY <1>4, FS_EmptySet, FS_CardinalityType
<1>8. /\ Cardinality(D) = Cardinality(C) + Bit(IsCounted(m, a)) - Bit(IsCounted(rq[r], a))
      /\ Cardinality(L) = Cardinality(K) + Bit(IsLetIn(m, a)) - Bit(IsLetIn(rq[r], a))
      /\ IsCounted(rq[r], a) => Cardinality(C) > 0
  BY <1>2, <1>3, <1>5, <1>6, <1>7 DEF Bit
<1> QED BY <1>1, <1>8 DEF C, D, K, L

LEMMA CountsMove ==
  ASSUME GateInv, NEW r \in Requests, NEW m \in GateReq, rq' = [rq EXCEPT ![r] = m]
  PROVE  \A a : /\ Cardinality(Gate!CountedOn(a)') =
                     Cardinality(Gate!CountedOn(a)) + Bit(IsCounted(m, a)) - Bit(IsCounted(rq[r], a))
                /\ Cardinality(LetIn(a)') = Cardinality(LetIn(a)) + Bit(IsLetIn(m, a)) - Bit(IsLetIn(rq[r], a))
  BY OneRequest, Zenon DEF GateInv

\* When a request moves: the conditions under which the counts stay right.
LEMMA RequestMoves ==
  ASSUME GateInv, NEW r \in Requests, NEW m \in GateReq, rq' = [rq EXCEPT ![r] = m],
         UNCHANGED backend, count' \in [Accounts -> Int], leaked' \in [Accounts -> Nat], Placed(m),
         \A a \in Accounts :
           \/ count'[a] <= 0
           \/ count'[a] - leaked'[a] - Bit(IsCounted(m, a)) <= count[a] - leaked[a] - Bit(IsCounted(rq[r], a)),
         backend = "memory" => \A a \in Accounts :
           /\ count'[a] - Bit(IsCounted(m, a)) = count[a] - Bit(IsCounted(rq[r], a))
           /\ IsLetIn(m, a) => IsLetIn(rq[r], a) \/ count'[a] <= MaxInflight
  PROVE  GateInv'
<1>1. \A a : /\ Cardinality(Gate!CountedOn(a)') =
                  Cardinality(Gate!CountedOn(a)) + Bit(IsCounted(m, a)) - Bit(IsCounted(rq[r], a))
             /\ Cardinality(LetIn(a)') = Cardinality(LetIn(a)) + Bit(IsLetIn(m, a)) - Bit(IsLetIn(rq[r], a))
  BY CountsMove
<1>2. rq' \in [Requests -> GateReq] /\ rq'[r] = m /\ \A q \in Requests \ {r} : rq'[q] = rq[q]
  <2>1. rq \in [Requests -> GateReq]
    BY DEF GateInv, GateTyped
  <2> QED BY <2>1
<1>3. \A a : /\ Cardinality(Gate!CountedOn(a)) \in Nat /\ Cardinality(LetIn(a)) \in Nat
             /\ Cardinality(Gate!CountedOn(a)') \in Nat
             /\ Cardinality(LetIn(a)') <= Cardinality(Gate!CountedOn(a)')
  BY CountedFinite
<1>4. GateTyped'
  BY <1>2 DEF GateInv, GateTyped
<1>5. AtAccount'
  BY <1>2 DEF GateInv, AtAccount, Placed
<1>6. Gate!NeverOverCounts'
  <2> SUFFICES ASSUME NEW a \in Accounts
      PROVE  count'[a] <= Cardinality(Gate!CountedOn(a)') + leaked'[a]
    BY SameCardinality DEF Gate!NeverOverCounts
  <2>1. count[a] <= Cardinality(Gate!CountedOn(a)) + leaked[a]
    BY SameCardinality DEF GateInv, Gate!NeverOverCounts
  <2>2. count[a] \in Int /\ count'[a] \in Int /\ leaked[a] \in Nat /\ leaked'[a] \in Nat
    BY DEF GateInv, GateTyped
  <2> QED BY <1>1, <1>3, <2>1, <2>2 DEF Bit
<1>7. ExactInMemory'
  <2> SUFFICES ASSUME backend = "memory", NEW a \in Accounts
      PROVE  /\ count'[a] = Cardinality(Gate!CountedOn(a)')
             /\ Cardinality(LetIn(a)') <= MaxInflight
    BY DEF ExactInMemory
  <2>1. count[a] = Cardinality(Gate!CountedOn(a)) /\ Cardinality(LetIn(a)) <= MaxInflight
    BY DEF GateInv, ExactInMemory
  <2>2. count[a] \in Int /\ count'[a] \in Int
    BY DEF GateInv, GateTyped
  <2>3. count'[a] = Cardinality(Gate!CountedOn(a)')
    BY <1>1, <1>3, <2>1, <2>2 DEF Bit
  <2>4. Cardinality(LetIn(a)') <= MaxInflight
    BY <1>1, <1>3, <2>1, <2>2, <2>3 DEF Bit
  <2> QED BY <2>3, <2>4
<1> QED BY <1>4, <1>5, <1>6, <1>7 DEF GateInv

\* A step that neither takes nor gives back a place.
LEMMA NothingCounted ==
  ASSUME GateInv, NEW r \in Requests, NEW m \in GateReq, rq' = [rq EXCEPT ![r] = m],
         UNCHANGED <<backend, count, leaked>>, Placed(m),
         \A a : (IsCounted(m, a) <=> IsCounted(rq[r], a)) /\ (IsLetIn(m, a) => IsLetIn(rq[r], a))
  PROVE  GateInv'
<1>1. count \in [Accounts -> Int] /\ leaked \in [Accounts -> Nat]
  BY DEF GateInv, GateTyped
<1>2. \A a \in Accounts : count'[a] - leaked'[a] - Bit(IsCounted(m, a))
                            <= count[a] - leaked[a] - Bit(IsCounted(rq[r], a))
  BY <1>1 DEF Bit
<1>3. \A a \in Accounts : count'[a] - Bit(IsCounted(m, a)) = count[a] - Bit(IsCounted(rq[r], a))
  BY <1>1 DEF Bit
<1> QED BY <1>1, <1>2, <1>3, RequestMoves

\* Every step of the gate keeps the counts right.
LEMMA GateRequestStep ==
  ASSUME GateInv, NEW r \in Requests,
         \/ Gate!Arrive(r) \/ Gate!GiveUp(r) \/ Gate!Incr(r) \/ Gate!Decr(r) \/ Gate!Del(r)
         \/ Gate!ClientGone(r)
         \/ \E a \in Accounts : Gate!Pick(r, a)
         \/ \E b \in BOOLEAN : Gate!GetRow(r, b) \/ Gate!EndLease(r, b)
         \/ \E cools, more \in BOOLEAN : Gate!Report(r, cools, more)
  PROVE  GateInv'
<1> DEFINE l == rq[r]
<1>0. l \in GateReq /\ rq \in [Requests -> GateReq] /\ Placed(l)
      /\ count \in [Accounts -> Int] /\ leaked \in [Accounts -> Nat]
      /\ backend \in {"memory", "redis"}
  BY DEF GateInv, GateTyped, AtAccount, Placed
<1>i. Gate!Idle \in GateReq /\ Gate!Idle.pc = "idle"
  BY DEF Gate!Idle, GateReq, GatePcs
<1>1. CASE Gate!Arrive(r)
  <2> DEFINE m == [l EXCEPT !.pc = "pick"]
  <2>1. l.pc = "idle" /\ rq' = [rq EXCEPT ![r] = m] /\ UNCHANGED <<backend, count, leaked>>
    BY <1>1 DEF Gate!Arrive, Gate!To
  <2> HIDE DEF l
  <2>2. m \in GateReq /\ m.pc = "pick"
    BY <1>0 DEF GateReq, GatePcs
  <2> HIDE DEF m
  <2> QED BY <2>1, <2>2, NothingCounted DEF Placed, IsCounted, IsLetIn, l
<1>2. CASE Gate!GiveUp(r)
  <2>1. l.pc = "pick" /\ rq' = [rq EXCEPT ![r] = Gate!Idle] /\ UNCHANGED <<backend, count, leaked>>
    BY <1>2 DEF Gate!GiveUp
  <2> QED BY <2>1, <1>i, NothingCounted DEF Placed, IsCounted, IsLetIn
<1>3. CASE Gate!ClientGone(r)
  <2> DEFINE m == [l EXCEPT !.live = FALSE]
  <2>1. rq' = [rq EXCEPT ![r] = m] /\ UNCHANGED <<backend, count, leaked>>
    BY <1>3 DEF Gate!ClientGone
  <2> HIDE DEF l
  <2>2. m \in GateReq /\ m.pc = l.pc /\ m.on = l.on
    BY <1>0 DEF GateReq
  <2> HIDE DEF m
  <2> QED BY <1>0, <2>1, <2>2, NothingCounted DEF Placed, IsCounted, IsLetIn, l
<1>4. ASSUME NEW b \in Accounts, Gate!Pick(r, b) PROVE GateInv'
  <2>1. l.pc = "pick" /\ UNCHANGED <<backend, count, leaked>>
    BY <1>4 DEF Gate!Pick
  <2>2. PICK m \in GateReq : rq' = [rq EXCEPT ![r] = m] /\ m.pc \in {"pick", "incr"}
                             /\ (m.pc = "incr" => m.on \in Accounts)
    <3> DEFINE m == [l EXCEPT !.tried = @ \cup {b}, !.on = IF b \in cool THEN NoAccount ELSE b,
                              !.pc = IF b \in cool THEN "pick" ELSE "incr"]
    <3>1. rq' = [rq EXCEPT ![r] = m]
      BY <1>0, <1>4 DEF Gate!Pick
    <3> HIDE DEF l
    <3>2. m \in GateReq
      BY <1>0 DEF GateReq, GatePcs
    <3>3. m.pc = (IF b \in cool THEN "pick" ELSE "incr") /\ m.on = (IF b \in cool THEN NoAccount ELSE b)
      BY <1>0 DEF GateReq
    <3> HIDE DEF m
    <3> QED BY <3>1, <3>2, <3>3
  <2> QED BY <2>1, <2>2, NothingCounted DEF Placed, IsCounted, IsLetIn
<1>5. ASSUME NEW b \in BOOLEAN, Gate!GetRow(r, b) PROVE GateInv'
  <2>1. l.pc = "row" /\ UNCHANGED <<backend, count, leaked>>
    BY <1>5 DEF Gate!GetRow
  <2>2. PICK pc \in {"leased", "undo"} : rq' = [rq EXCEPT ![r] = [l EXCEPT !.pc = pc]]
    BY <1>5 DEF Gate!GetRow, Gate!To, Gate!Refused
  <2> DEFINE m == [l EXCEPT !.pc = pc]
  <2> HIDE DEF l
  <2>3. m \in GateReq /\ m.pc = pc /\ m.on = l.on
    BY <1>0 DEF GateReq, GatePcs
  <2>4. rq' = [rq EXCEPT ![r] = m]
    BY <2>2
  <2> HIDE DEF m
  <2> QED BY <1>0, <2>1, <2>3, <2>4, NothingCounted DEF Placed, IsCounted, IsLetIn, l
<1>6. ASSUME NEW b \in BOOLEAN, Gate!EndLease(r, b) PROVE GateInv'
  <2> DEFINE m == [l EXCEPT !.pc = "release", !.good = b]
  <2>1. l.pc = "leased" /\ UNCHANGED <<backend, count, leaked>>
    BY <1>6 DEF Gate!EndLease
  <2>2. rq' = [rq EXCEPT ![r] = m]
    BY <1>0, <1>6 DEF Gate!EndLease
  <2> HIDE DEF l
  <2>3. m \in GateReq /\ m.pc = "release" /\ m.on = l.on
    BY <1>0 DEF GateReq, GatePcs
  <2> HIDE DEF m
  <2> QED BY <1>0, <2>1, <2>2, <2>3, NothingCounted DEF Placed, IsCounted, IsLetIn, l
<1>7. ASSUME NEW cools \in BOOLEAN, NEW more \in BOOLEAN, Gate!Report(r, cools, more) PROVE GateInv'
  <2>1. l.pc = "report" /\ UNCHANGED <<backend, count, leaked>>
    BY <1>7 DEF Gate!Report
  <2>2. PICK m \in GateReq : rq' = [rq EXCEPT ![r] = m] /\ m.pc \in {"pick", "idle"}
    <3> DEFINE m == [l EXCEPT !.pc = "pick", !.on = NoAccount]
    <3>1. rq' = [rq EXCEPT ![r] = m] \/ rq' = [rq EXCEPT ![r] = Gate!Idle]
      BY <1>0, <1>7 DEF Gate!Report
    <3> HIDE DEF l
    <3>2. m \in GateReq /\ m.pc = "pick"
      BY <1>0 DEF GateReq, GatePcs
    <3> HIDE DEF m
    <3> QED BY <1>i, <3>1, <3>2
  <2> QED BY <2>1, <2>2, NothingCounted DEF Placed, IsCounted, IsLetIn
<1>8. CASE Gate!Incr(r)
  <2>1. l.pc = "incr" /\ l.on \in Accounts /\ UNCHANGED <<backend, leaked>>
    BY <1>0, <1>8 DEF Gate!Incr, Placed
  <2>2. CASE rq' = [rq EXCEPT ![r].pc = "pick"] /\ UNCHANGED count
    <3> DEFINE m == [l EXCEPT !.pc = "pick"]
    <3>1. rq' = [rq EXCEPT ![r] = m]
      BY <2>2
    <3> HIDE DEF l
    <3>2. m \in GateReq /\ m.pc = "pick"
      BY <1>0 DEF GateReq, GatePcs
    <3> HIDE DEF m
    <3> QED BY <2>1, <2>2, <3>1, <3>2, NothingCounted DEF Placed, IsCounted, IsLetIn, l
  <2>3. CASE /\ count' = [count EXCEPT ![l.on] = @ + 1]
             /\ rq' = [rq EXCEPT ![r].pc = IF count[l.on] + 1 > MaxInflight THEN "undo" ELSE "row"]
    <3> DEFINE pc == IF count[l.on] + 1 > MaxInflight THEN "undo" ELSE "row"
               m == [l EXCEPT !.pc = pc]
    <3>1. rq' = [rq EXCEPT ![r] = m]
      BY <2>3
    <3> HIDE DEF l
    <3>2. m \in GateReq /\ m.pc = pc /\ m.on = l.on
      BY <1>0 DEF GateReq, GatePcs
    <3> HIDE DEF m
    <3>3. \A a : /\ IsCounted(m, a) <=> a = l.on
                 /\ ~IsCounted(l, a) /\ ~IsLetIn(l, a)
                 /\ IsLetIn(m, a) => a = l.on /\ count[l.on] + 1 <= MaxInflight
      BY <1>0, <2>1, <3>2 DEF IsCounted, IsLetIn
    <3>4. count' \in [Accounts -> Int]
          /\ \A a \in Accounts : count'[a] = IF a = l.on THEN count[a] + 1 ELSE count[a]
      BY <1>0, <2>1, <2>3
    <3>5. Placed(m)
      BY <2>1, <3>2 DEF Placed
    <3>6. \A a \in Accounts : count'[a] - leaked'[a] - Bit(IsCounted(m, a))
                                <= count[a] - leaked[a] - Bit(IsCounted(l, a))
      BY <1>0, <2>1, <3>3, <3>4 DEF Bit
    <3>7. \A a \in Accounts : /\ count'[a] - Bit(IsCounted(m, a)) = count[a] - Bit(IsCounted(l, a))
                              /\ IsLetIn(m, a) => count'[a] <= MaxInflight
      BY <1>0, <2>1, <3>3, <3>4 DEF Bit
    <3> QED BY <1>0, <2>1, <3>1, <3>2, <3>4, <3>5, <3>6, <3>7, RequestMoves DEF l
  <2> QED BY <1>8, <2>2, <2>3 DEF Gate!Incr, Gate!To, Gate!OverCap
<1>9. CASE Gate!Decr(r)
  <2> DEFINE a0 == l.on
  <2>1. /\ l.pc \in {"undo", "release"} /\ a0 \in Accounts /\ UNCHANGED backend
    BY <1>0, <1>9 DEF Gate!Decr, Placed
  <2>2. \A a : IsCounted(l, a) <=> a = a0
    BY <2>1 DEF IsCounted
  <2>3. ASSUME NEW pc \in {"pick", "report", "undoDel", "releaseDel"}, rq' = [rq EXCEPT ![r] = [l EXCEPT !.pc = pc]]
        PROVE  \E m \in GateReq : /\ rq' = [rq EXCEPT ![r] = m] /\ m.pc = pc /\ m.on = a0
                                  /\ \A a : ~IsCounted(m, a) /\ ~IsLetIn(m, a)
    <3> DEFINE m == [l EXCEPT !.pc = pc]
    <3>1. rq' = [rq EXCEPT ![r] = m]
      BY <2>3
    <3> HIDE DEF l
    <3>2. m \in GateReq /\ m.pc = pc /\ m.on = l.on
      BY <1>0 DEF GateReq, GatePcs
    <3> HIDE DEF m
    <3> QED BY <3>1, <3>2 DEF IsCounted, IsLetIn
  <2>4. CASE /\ leaked' = [leaked EXCEPT ![a0] = @ + 1] /\ UNCHANGED count
             /\ rq' = [rq EXCEPT ![r].pc = Gate!AfterDecr(l.pc)] /\ backend = "redis"
    <3>1. PICK m \in GateReq : /\ rq' = [rq EXCEPT ![r] = m] /\ m.pc \in {"pick", "report"} /\ m.on = a0
                               /\ \A a : ~IsCounted(m, a) /\ ~IsLetIn(m, a)
      BY <2>3, <2>4 DEF Gate!AfterDecr
    <3>2. /\ leaked' \in [Accounts -> Nat]
          /\ \A a \in Accounts : leaked'[a] = IF a = a0 THEN leaked[a] + 1 ELSE leaked[a]
      BY <1>0, <2>1, <2>4
    <3>3. Placed(m)
      BY <2>1, <3>1 DEF Placed
    <3> HIDE DEF l
    <3>4. \A a \in Accounts : count'[a] - leaked'[a] - Bit(IsCounted(m, a))
                                <= count[a] - leaked[a] - Bit(IsCounted(l, a))
      BY <1>0, <2>2, <2>4, <3>1, <3>2 DEF Bit
    <3>5. count' \in [Accounts -> Int] /\ backend # "memory"
      BY <1>0, <2>4
    <3> QED BY <2>1, <3>1, <3>2, <3>3, <3>4, <3>5, RequestMoves DEF l
  <2>5. CASE /\ count' = [count EXCEPT ![a0] = Gate!Floor(count[a0] - 1)] /\ UNCHANGED leaked
             /\ rq' = [rq EXCEPT ![r].pc =
                         IF count[a0] - 1 > 0 \/ backend = "memory" THEN Gate!AfterDecr(l.pc)
                         ELSE IF l.pc = "undo" THEN "undoDel" ELSE "releaseDel"]
    <3>1. PICK m \in GateReq : /\ rq' = [rq EXCEPT ![r] = m] /\ m.on = a0
                               /\ m.pc \in {"pick", "report", "undoDel", "releaseDel"}
                               /\ m.pc \in {"undoDel", "releaseDel"} => backend = "redis"
                               /\ \A a : ~IsCounted(m, a) /\ ~IsLetIn(m, a)
      <4> DEFINE pc == IF count[a0] - 1 > 0 \/ backend = "memory" THEN Gate!AfterDecr(l.pc)
                       ELSE IF l.pc = "undo" THEN "undoDel" ELSE "releaseDel"
      <4>1. pc \in {"pick", "report", "undoDel", "releaseDel"}
            /\ (pc \in {"undoDel", "releaseDel"} => backend = "redis")
        BY <1>0 DEF Gate!AfterDecr
      <4>2. rq' = [rq EXCEPT ![r] = [l EXCEPT !.pc = pc]]
        BY <2>5
      <4> HIDE DEF pc
      <4> QED BY <2>3, <4>1, <4>2
    <3>2. backend = "memory" => count[a0] > 0
      <4>1. Cardinality(Gate!CountedOn(a0)) > 0
        <5>1. IsCounted(rq[r], a0)
          BY <2>2
        <5> QED BY <5>1, <3>1, OneRequest DEF GateInv
      <4> QED BY <4>1, <2>1 DEF GateInv, ExactInMemory
    <3>3. Placed(m)
      BY <2>1, <3>1 DEF Placed
    <3> HIDE DEF l
    <3>4. Gate!Floor(count[a0] - 1) = count[a0] - 1
      BY <1>0, <2>1, <3>2 DEF Gate!Floor
    <3>5. count' \in [Accounts -> Int]
          /\ \A a \in Accounts : count'[a] = IF a = a0 THEN count[a] - 1 ELSE count[a]
      BY <1>0, <2>1, <2>5, <3>4
    <3>6. \A a \in Accounts : count'[a] - leaked'[a] - Bit(IsCounted(m, a))
                                <= count[a] - leaked[a] - Bit(IsCounted(l, a))
      BY <1>0, <2>2, <2>5, <3>1, <3>5 DEF Bit
    <3>7. \A a \in Accounts : /\ count'[a] - Bit(IsCounted(m, a)) = count[a] - Bit(IsCounted(l, a))
                              /\ ~IsLetIn(m, a)
      BY <1>0, <2>2, <2>5, <3>1, <3>5 DEF Bit
    <3>8. leaked' \in [Accounts -> Nat]
      BY <1>0, <2>5
    <3> QED BY <2>1, <3>1, <3>3, <3>5, <3>6, <3>7, <3>8, RequestMoves DEF l
  <2> QED BY <1>9, <2>4, <2>5 DEF Gate!Decr, Gate!To, Gate!Skips
<1>10. CASE Gate!Del(r)
  <2>1. /\ l.pc \in {"undoDel", "releaseDel"} /\ l.on \in Accounts /\ backend = "redis" /\ UNCHANGED backend
    BY <1>0, <1>10 DEF Gate!Del, Placed
  <2>2. PICK pc \in {"pick", "report"} : rq' = [rq EXCEPT ![r] = [l EXCEPT !.pc = pc]]
    BY <1>10 DEF Gate!Del, Gate!To, Gate!AfterDecr
  <2> DEFINE m == [l EXCEPT !.pc = pc]
  <2>3. rq' = [rq EXCEPT ![r] = m]
    BY <2>2
  <2>4. \/ UNCHANGED <<count, leaked>>
        \/ count' = [count EXCEPT ![l.on] = 0] /\ leaked' = [leaked EXCEPT ![l.on] = 0]
    BY <1>10 DEF Gate!Del
  <2> HIDE DEF l
  <2>5. m \in GateReq /\ m.pc = pc /\ m.on = l.on
    BY <1>0 DEF GateReq, GatePcs
  <2> HIDE DEF m
  <2>6. Placed(m) /\ \A a : ~IsCounted(m, a) /\ ~IsLetIn(m, a) /\ ~IsCounted(l, a)
    BY <2>1, <2>5 DEF Placed, IsCounted, IsLetIn
  <2>7. /\ count' \in [Accounts -> Int] /\ leaked' \in [Accounts -> Nat]
        /\ \A a \in Accounts : count'[a] = 0 \/ (count'[a] = count[a] /\ leaked'[a] = leaked[a])
    BY <1>0, <2>1, <2>4
  <2>8. \A a \in Accounts :
          \/ count'[a] <= 0
          \/ count'[a] - leaked'[a] - Bit(IsCounted(m, a)) <= count[a] - leaked[a] - Bit(IsCounted(l, a))
    <3> SUFFICES ASSUME NEW a \in Accounts, count'[a] # 0
        PROVE  count'[a] - leaked'[a] - Bit(IsCounted(m, a)) <= count[a] - leaked[a] - Bit(IsCounted(l, a))
      BY <2>7
    <3>1. count'[a] = count[a] /\ leaked'[a] = leaked[a] /\ count[a] \in Int /\ leaked[a] \in Nat
      BY <1>0, <2>7
    <3> QED BY <2>6, <3>1 DEF Bit
  <2> QED BY <2>1, <2>3, <2>5, <2>6, <2>7, <2>8, RequestMoves DEF l
<1> QED
  BY <1>1, <1>2, <1>3, <1>4, <1>5, <1>6, <1>7, <1>8, <1>9, <1>10

\* A crash leaves behind what its requests had counted.
LEMMA GateCrash ==
  ASSUME GateInv, NEW w \in Workers, Gate!Crash(w)
  PROVE  GateInv'
<1> DEFINE of == {r \in Requests : WorkerOf[r] = w}
<1>1. /\ backend = "redis" /\ UNCHANGED <<backend, count>>
      /\ rq' = [r \in Requests |-> IF r \in of THEN Gate!Idle ELSE rq[r]]
      /\ leaked' = [a \in Accounts |-> leaked[a] + Cardinality(of \cap Gate!CountedOn(a))]
  BY SameCardinality DEF Gate!Crash
<1>i. Gate!Idle \in GateReq /\ Gate!Idle.pc = "idle"
  BY DEF Gate!Idle, GateReq, GatePcs
<1> HIDE DEF of
<1>2. \A a : /\ Cardinality(of \cap Gate!CountedOn(a)) \in Nat
             /\ Cardinality(Gate!CountedOn(a)') =
                  Cardinality(Gate!CountedOn(a)) - Cardinality(of \cap Gate!CountedOn(a))
  <2> SUFFICES ASSUME NEW a
      PROVE  /\ Cardinality(of \cap Gate!CountedOn(a)) \in Nat
             /\ Cardinality(Gate!CountedOn(a)') =
                  Cardinality(Gate!CountedOn(a)) - Cardinality(of \cap Gate!CountedOn(a))
    OBVIOUS
  <2> DEFINE C == Gate!CountedOn(a)  D == Gate!CountedOn(a)'
  <2>1. D = C \ of
    BY <1>1, <1>i DEF GateInv, GateTyped, Gate!CountedOn, Gate!Counted
  <2>2. IsFiniteSet(C)
    BY CountedFinite
  <2> HIDE DEF C, D
  <2>3. of \cap C = C \cap of /\ IsFiniteSet(C \cap of)
    BY <2>2, FS_Subset
  <2>4. Cardinality(C \ of) = Cardinality(C) - Cardinality(C \cap of) /\ Cardinality(C \cap of) \in Nat
    BY <2>2, <2>3, FS_Difference, FS_CardinalityType
  <2> QED BY <2>1, <2>3, <2>4 DEF C, D
<1>3. GateTyped'
  BY <1>1, <1>2, <1>i DEF GateInv, GateTyped
<1>4. AtAccount'
  BY <1>1, <1>i DEF GateInv, AtAccount
<1>5. Gate!NeverOverCounts'
  <2> SUFFICES ASSUME NEW a \in Accounts
      PROVE  count'[a] <= Cardinality(Gate!CountedOn(a)') + leaked'[a]
    BY SameCardinality DEF Gate!NeverOverCounts
  <2>1. count[a] <= Cardinality(Gate!CountedOn(a)) + leaked[a]
    BY SameCardinality DEF GateInv, Gate!NeverOverCounts
  <2>2. count[a] \in Int /\ leaked[a] \in Nat /\ Cardinality(Gate!CountedOn(a)) \in Nat
    BY CountedFinite DEF GateInv, GateTyped
  <2>3. leaked'[a] = leaked[a] + Cardinality(of \cap Gate!CountedOn(a)) /\ count'[a] = count[a]
    BY <1>1
  <2> QED BY <1>2, <2>1, <2>2, <2>3
<1>6. ExactInMemory'
  BY <1>1 DEF ExactInMemory
<1> QED BY <1>3, <1>4, <1>5, <1>6 DEF GateInv

\* The gate keeps its counts right, whatever the world does.
LEMMA GateStep == GateInv /\ Gate!Next => GateInv'
<1> SUFFICES ASSUME GateInv, Gate!Next PROVE GateInv'
  OBVIOUS
<1>1. ASSUME UNCHANGED <<backend, rq, count, leaked>> PROVE GateInv'
  <2>1. \A a : Gate!CountedOn(a)' = Gate!CountedOn(a) /\ LetIn(a)' = LetIn(a)
    BY <1>1 DEF Gate!CountedOn, Gate!Counted, LetIn
  <2>2. Gate!NeverOverCounts'
    BY <1>1, <2>1, SameCardinality DEF GateInv, Gate!NeverOverCounts
  <2> QED BY <1>1, <2>1, <2>2 DEF GateInv, GateTyped, AtAccount, ExactInMemory
<1>2. ASSUME NEW a \in Accounts, Gate!ExpireCount(a) PROVE GateInv'
  <2>1. /\ backend = "redis" /\ UNCHANGED <<backend, rq>>
        /\ count' = [count EXCEPT ![a] = 0] /\ leaked' = [leaked EXCEPT ![a] = 0]
    BY <1>2 DEF Gate!ExpireCount
  <2>2. GateTyped'
    BY <2>1 DEF GateInv, GateTyped
  <2>3. AtAccount' /\ ExactInMemory'
    BY <2>1 DEF GateInv, AtAccount, ExactInMemory
  <2>4. Gate!NeverOverCounts'
    <3> SUFFICES ASSUME NEW b \in Accounts
        PROVE  count'[b] <= Cardinality(Gate!CountedOn(b)') + leaked'[b]
      BY SameCardinality DEF Gate!NeverOverCounts
    <3>1. Gate!CountedOn(b)' = Gate!CountedOn(b)
      BY <2>1 DEF Gate!CountedOn, Gate!Counted
    <3>2. count[b] <= Cardinality(Gate!CountedOn(b)) + leaked[b]
      BY SameCardinality DEF GateInv, Gate!NeverOverCounts
    <3>3. count' = [count EXCEPT ![a] = 0] /\ leaked' = [leaked EXCEPT ![a] = 0]
          /\ count \in [Accounts -> Int] /\ leaked \in [Accounts -> Nat]
      BY <2>1 DEF GateInv, GateTyped
    <3> QED BY <3>1, <3>2, <3>3, CountedFinite
  <2> QED BY <2>2, <2>3, <2>4 DEF GateInv
<1>3. ASSUME NEW a \in Accounts, Gate!Warm(a) PROVE GateInv'
  BY <1>1, <1>3 DEF Gate!Warm
<1>4. ASSUME NEW a \in Accounts, NEW to \in Gate!Rows, Gate!ChangeRow(a, to) PROVE GateInv'
  BY <1>1, <1>4 DEF Gate!ChangeRow
<1> QED
  BY <1>2, <1>3, <1>4, GateCrash, GateRequestStep DEF Gate!Next

\* The parts that do not move stay as they were at the start.
GateAtRest ==
  /\ count = [a \in Accounts |-> 0] /\ leaked = [a \in Accounts |-> 0]
  /\ rq = [r \in Requests |-> Gate!Idle]

GateSound == IF part = "gate" THEN GateInv ELSE GateAtRest

\* The shared count never exceeds the attempts and leases that stand and the
\* decrements that were lost, and with the state in memory no account has more
\* leases than its cap: for any number of workers, requests and accounts.
THEOREM CountAlwaysSound == Spec => []CountSound
<1>1. Init => GateSound
  <2> SUFFICES ASSUME Init PROVE GateSound
    OBVIOUS
  <2>1. GateAtRest /\ backend \in {"memory", "redis"}
    BY DEF Init, Gate!Init, GateAtRest
  <2>i. Gate!Idle \in GateReq /\ Gate!Idle.pc = "idle"
    BY DEF Gate!Idle, GateReq, GatePcs
  <2>2. GateTyped /\ AtAccount
    BY <2>1, <2>i DEF GateAtRest, GateTyped, AtAccount
  <2>3. \A a : Gate!CountedOn(a) = {} /\ LetIn(a) = {}
    BY <2>1, <2>i DEF GateAtRest, Gate!CountedOn, Gate!Counted, LetIn
  <2>4. Gate!NeverOverCounts
    BY <2>1, <2>3, SameCardinality, FS_EmptySet DEF GateAtRest, Gate!NeverOverCounts
  <2>5. ExactInMemory
    BY <2>1, <2>3, FS_EmptySet DEF GateAtRest, ExactInMemory
  <2> QED BY <2>1, <2>2, <2>4, <2>5 DEF GateSound, GateInv
<1>2. GateSound /\ [Next]_vars => GateSound'
  <2> SUFFICES ASSUME GateSound, [Next]_vars PROVE GateSound'
    OBVIOUS
  <2>1. ASSUME UNCHANGED <<part, count, leaked, rq>>, part = "gate" => UNCHANGED backend PROVE GateSound'
    <3>1. CASE part = "gate"
      <4>1. \A a : Gate!CountedOn(a)' = Gate!CountedOn(a) /\ LetIn(a)' = LetIn(a)
        BY <2>1 DEF Gate!CountedOn, Gate!Counted, LetIn
      <4>2. Gate!NeverOverCounts => Gate!NeverOverCounts'
        BY <2>1, <4>1, SameCardinality DEF Gate!NeverOverCounts
      <4> QED BY <2>1, <3>1, <4>1, <4>2 DEF GateSound, GateInv, GateTyped, AtAccount, ExactInMemory
    <3>2. CASE part # "gate"
      BY <2>1, <3>2 DEF GateSound, GateAtRest
    <3> QED BY <3>1, <3>2
  <2>2. CASE part = "gate" /\ Gate!Next /\ UNCHANGED part
    BY <2>2, GateStep DEF GateSound
  <2>3. CASE part # "gate" /\ Next
    BY <2>1, <2>3 DEF Next, gateVars
  <2>4. CASE UNCHANGED vars
    BY <2>1, <2>4 DEF vars, gateVars
  <2> QED BY <2>2, <2>3, <2>4 DEF Next
<1>3. GateSound => CountSound
  <2> SUFFICES ASSUME GateSound PROVE Gate!NeverOverCounts /\ Gate!CapInMemory
    BY DEF CountSound
  <2> DEFINE Leased(a) == {r \in Requests : rq[r].pc = "leased" /\ rq[r].on = a}
  <2>1. CASE part = "gate"
    <3>1. \A a : Leased(a) \subseteq LetIn(a)
      BY DEF LetIn
    <3> HIDE DEF Leased
    <3>2. \A a : Cardinality(Leased(a)) <= Cardinality(LetIn(a)) /\ Cardinality(Leased(a)) \in Nat
      BY <3>1, CardSubset, CountedFinite
    <3>3. backend = "memory" => \A a \in Accounts : Cardinality(Leased(a)) <= MaxInflight
      BY <2>1, <3>2, CountedFinite DEF GateSound, GateInv, ExactInMemory
    <3>4. Gate!CapInMemory
      BY <3>3, SameCardinality DEF Gate!CapInMemory, Leased
    <3> QED BY <2>1, <3>4 DEF GateSound, GateInv
  <2>2. CASE part # "gate"
    <3>1. GateAtRest /\ Gate!Idle.pc = "idle"
      BY <2>2 DEF GateSound, Gate!Idle
    <3>2. \A a : Gate!CountedOn(a) = {} /\ Leased(a) = {}
      BY <3>1 DEF GateAtRest, Gate!CountedOn, Gate!Counted
    <3>3. Gate!NeverOverCounts
      BY <3>1, <3>2, SameCardinality, FS_EmptySet DEF GateAtRest, Gate!NeverOverCounts
    <3>4. \A a \in Accounts : Gate!Cardinality(Leased(a)) <= MaxInflight
      BY <3>2, SameCardinality, FS_EmptySet
    <3>5. Gate!CapInMemory
      BY <3>4 DEF Gate!CapInMemory
    <3> QED BY <3>3, <3>5
  <2> QED BY <2>1, <2>2
<1> QED
  BY <1>1, <1>2, <1>3, PTL DEF Spec

-------------------------------------------------------------------------------
(* The admission counter of Gateway.                                       *)

EntryReq == [pc : {"idle", "limit", "added", "route", "proxy"}, limit : Nat, n : Nat,
             to : Workers \cup {Nobody}]
EntryPut == [pc : {"idle", "apply"}, limit : Nat]

EntryTyped ==
  /\ live \in Nat /\ saved \in [mem : Nat, file : Nat]
  /\ g \in [Requests -> EntryReq] /\ put \in [Puts -> EntryPut]

HasPlace(m) == m.pc \in {"added", "route", "proxy"}
Inside(m) == m.pc \in {"route", "proxy"}
WithPlace == {r \in Requests : HasPlace(g[r])}

\* The counter is exact; among any requests with a place one has counted them all
\* when it came; and a request inside counted no more than the limit it had read.
EntryInv ==
  /\ EntryTyped
  /\ inflight = Cardinality(WithPlace)
  /\ \A S \in SUBSET WithPlace : S # {} => \E q \in S : Cardinality(S) <= g[q].n
  /\ \A r \in Requests : Inside(g[r]) => g[r].n <= g[r].limit

\* The requests with a place can be counted, now and after a step.
LEMMA PlacesFinite ==
  /\ IsFiniteSet(WithPlace) /\ Cardinality(WithPlace) \in Nat
  /\ IsFiniteSet(WithPlace') /\ Cardinality(WithPlace') \in Nat
<1>1. WithPlace \subseteq Requests /\ WithPlace' \subseteq Requests
  BY DEF WithPlace
<1> QED BY <1>1, CardSubset

\* A request moves without taking a place: it may give one back.
LEMMA EntryMoves ==
  ASSUME EntryInv, NEW r \in Requests, NEW m \in EntryReq, g' = [g EXCEPT ![r] = m],
         HasPlace(m) => HasPlace(g[r]) /\ m.n = g[r].n,
         Inside(m) => m.n <= m.limit,
         inflight' = inflight + Bit(HasPlace(m)) - Bit(HasPlace(g[r])),
         live' \in Nat, saved' \in [mem : Nat, file : Nat], put' \in [Puts -> EntryPut]
  PROVE  EntryInv'
<1>1. g' \in [Requests -> EntryReq] /\ g'[r] = m /\ \A q \in Requests \ {r} : g'[q] = g[q]
  BY DEF EntryInv, EntryTyped
<1>2. /\ WithPlace' \ {r} = WithPlace \ {r} /\ WithPlace' \subseteq WithPlace
      /\ r \in WithPlace' <=> HasPlace(m)
      /\ r \in WithPlace <=> HasPlace(g[r])
  BY <1>1 DEF WithPlace
<1>3. Cardinality(WithPlace') = Cardinality(WithPlace) + Bit(HasPlace(m)) - Bit(HasPlace(g[r]))
  <2> DEFINE P == WithPlace  Q == WithPlace'
  <2>1. IsFiniteSet(P) /\ Q \ {r} = P \ {r}
        /\ (r \in Q <=> HasPlace(m)) /\ (r \in P <=> HasPlace(g[r]))
    BY <1>2, PlacesFinite
  <2> HIDE DEF P, Q
  <2>2. Cardinality(Q) = Cardinality(P) + Bit(r \in Q) - Bit(r \in P)
    BY <2>1, CardMoves
  <2>3. Cardinality(Q) = Cardinality(P) + Bit(HasPlace(m)) - Bit(HasPlace(g[r]))
    BY <2>1, <2>2 DEF Bit
  <2> QED BY <2>3 DEF P, Q
<1>4. EntryTyped' /\ inflight' = Cardinality(WithPlace')
  BY <1>1, <1>3 DEF EntryInv, EntryTyped
<1>5. \A q \in WithPlace' : g'[q].n = g[q].n
  BY <1>1, <1>2 DEF WithPlace
<1>6. \A S \in SUBSET WithPlace' : S # {} => \E q \in S : Cardinality(S) <= g'[q].n
  BY <1>2, <1>5 DEF EntryInv
<1>7. \A q \in Requests : Inside(g'[q]) => g'[q].n <= g'[q].limit
  BY <1>1 DEF EntryInv
<1> QED BY <1>4, <1>6, <1>7 DEF EntryInv

\* A request takes its place after all that have one.
LEMMA EntryCounts ==
  ASSUME EntryInv, NEW r \in Requests, Entry!Count(r)
  PROVE  EntryInv'
<1> DEFINE m == [g[r] EXCEPT !.pc = "added", !.n = inflight + 1]
<1>0. g[r] \in EntryReq /\ g[r].pc = "limit" /\ inflight \in Nat
  BY PlacesFinite DEF Entry!Count, EntryInv, EntryTyped
<1>1. m \in EntryReq /\ m.pc = "added" /\ m.n = inflight + 1
  <2> DEFINE k == inflight + 1  h == g[r]
  <2>1. k \in Nat /\ h \in EntryReq
    BY <1>0
  <2> HIDE DEF k, h
  <2>2. [h EXCEPT !.pc = "added", !.n = k] \in EntryReq
    BY <2>1 DEF EntryReq
  <2> QED BY <1>0, <2>2 DEF k, h, EntryReq
<1>2. /\ g' = [g EXCEPT ![r] = m] /\ inflight' = inflight + 1
      /\ UNCHANGED <<live, saved, put>>
  BY DEF Entry!Count, EntryInv, EntryTyped
<1> HIDE DEF m
<1>3. g' \in [Requests -> EntryReq] /\ g'[r] = m /\ \A q \in Requests \ {r} : g'[q] = g[q]
  BY <1>1, <1>2 DEF EntryInv, EntryTyped
<1>4. WithPlace' = WithPlace \cup {r} /\ r \notin WithPlace
  BY <1>0, <1>1, <1>3 DEF WithPlace, HasPlace
<1>5. Cardinality(WithPlace') = Cardinality(WithPlace) + 1
  <2> DEFINE P == WithPlace  Q == WithPlace'
  <2>1. IsFiniteSet(P) /\ r \notin P /\ Q = P \cup {r}
    BY <1>4, PlacesFinite
  <2> HIDE DEF P, Q
  <2>2. Cardinality(Q) = Cardinality(P) + 1
    BY <2>1, FS_AddElement
  <2> QED BY <2>2 DEF P, Q
<1>6. EntryTyped' /\ inflight' = Cardinality(WithPlace')
  BY <1>2, <1>3, <1>5 DEF EntryInv, EntryTyped
<1>7. ASSUME NEW S \in SUBSET WithPlace', S # {}
      PROVE  \E q \in S : Cardinality(S) <= g'[q].n
  <2>1. CASE r \in S
    <3> DEFINE Q == WithPlace'
    <3>1. IsFiniteSet(Q) /\ S \subseteq Q
      BY PlacesFinite
    <3> HIDE DEF Q
    <3>2. Cardinality(S) <= Cardinality(Q)
      BY <3>1, CardSubset
    <3>3. g'[r].n = Cardinality(Q)
      BY <1>1, <1>2, <1>3, <1>6 DEF Q
    <3> QED BY <2>1, <3>2, <3>3
  <2>2. CASE r \notin S
    <3>1. S \in SUBSET WithPlace
      BY <1>4, <2>2
    <3>2. PICK q \in S : Cardinality(S) <= g[q].n
      BY <1>7, <3>1 DEF EntryInv
    <3>3. q \in Requests \ {r}
      BY <2>2, <3>1 DEF WithPlace
    <3> QED BY <1>3, <3>2, <3>3
  <2> QED BY <2>1, <2>2
<1>8. \A q \in Requests : Inside(g'[q]) => g'[q].n <= g'[q].limit
  BY <1>1, <1>3 DEF EntryInv, Inside
<1> QED BY <1>6, <1>7, <1>8 DEF EntryInv

\* Every step of the gateway keeps its admission exact.
LEMMA EntryStep == EntryInv /\ Entry!Next => EntryInv'
<1> SUFFICES ASSUME EntryInv, Entry!Next PROVE EntryInv'
  OBVIOUS
<1>0. /\ live \in Nat /\ saved \in [mem : Nat, file : Nat] /\ put \in [Puts -> EntryPut]
      /\ g \in [Requests -> EntryReq] /\ inflight \in Nat
  BY PlacesFinite DEF EntryInv, EntryTyped
<1>i. Entry!Idle \in EntryReq /\ Entry!Idle.pc = "idle"
  BY DEF Entry!Idle, EntryReq
<1>u. ASSUME UNCHANGED <<g, inflight>>, live' \in Nat, saved' \in [mem : Nat, file : Nat],
             put' \in [Puts -> EntryPut]
      PROVE  EntryInv'
  <2>1. WithPlace' = WithPlace
    BY <1>u DEF WithPlace
  <2> QED BY <1>u, <2>1 DEF EntryInv, EntryTyped
<1>1. ASSUME NEW r \in Requests, Entry!Arrive(r) PROVE EntryInv'
  <2> DEFINE m == [g[r] EXCEPT !.pc = "limit", !.limit = live]
  <2>1. g[r].pc = "idle" /\ g' = [g EXCEPT ![r] = m] /\ UNCHANGED <<inflight, live, saved, put>>
    BY <1>0, <1>1 DEF Entry!Arrive
  <2>2. m \in EntryReq /\ m.pc = "limit"
    BY <1>0 DEF EntryReq
  <2> HIDE DEF m
  <2>3. ~HasPlace(m) /\ ~Inside(m) /\ ~HasPlace(g[r])
    BY <2>1, <2>2 DEF HasPlace, Inside
  <2>4. inflight' = inflight + Bit(HasPlace(m)) - Bit(HasPlace(g[r]))
    BY <1>0, <2>1, <2>3 DEF Bit
  <2> QED BY <1>0, <2>1, <2>2, <2>3, <2>4, EntryMoves
<1>2. ASSUME NEW r \in Requests, Entry!Bounce(r) \/ Entry!Answer(r) PROVE EntryInv'
  <2>1. /\ g[r].pc \in {"added", "proxy"} /\ g' = [g EXCEPT ![r] = Entry!Idle]
        /\ inflight' = inflight - 1 /\ UNCHANGED <<live, saved, put>>
    BY <1>2 DEF Entry!Bounce, Entry!Answer
  <2>2. ~HasPlace(Entry!Idle) /\ ~Inside(Entry!Idle) /\ HasPlace(g[r])
    BY <1>i, <2>1 DEF HasPlace, Inside
  <2>3. inflight' = inflight + Bit(HasPlace(Entry!Idle)) - Bit(HasPlace(g[r]))
    BY <1>0, <2>1, <2>2 DEF Bit
  <2> QED BY <1>0, <1>i, <2>1, <2>2, <2>3, EntryMoves
<1>3. ASSUME NEW r \in Requests, Entry!Admit(r) PROVE EntryInv'
  <2> DEFINE m == [g[r] EXCEPT !.pc = "route"]
  <2>1. /\ g[r].pc = "added" /\ g[r].n <= g[r].limit
        /\ g' = [g EXCEPT ![r] = m] /\ UNCHANGED <<inflight, live, saved, put>>
    BY <1>3 DEF Entry!Admit, Entry!Admitted
  <2>2. m \in EntryReq /\ m.pc = "route" /\ m.n = g[r].n /\ m.limit = g[r].limit
    BY <1>0 DEF EntryReq
  <2> HIDE DEF m
  <2>3. HasPlace(m) /\ HasPlace(g[r])
    BY <2>1, <2>2 DEF HasPlace
  <2>4. inflight' = inflight + Bit(HasPlace(m)) - Bit(HasPlace(g[r]))
    BY <1>0, <2>1, <2>3 DEF Bit
  <2> QED BY <1>0, <2>1, <2>2, <2>3, <2>4, EntryMoves
<1>4. ASSUME NEW r \in Requests, Entry!Pick(r) PROVE EntryInv'
  <2>1. PICK w \in Workers : g' = [g EXCEPT ![r].pc = "proxy", ![r].to = w]
    BY <1>4 DEF Entry!Pick
  <2>2. g[r].pc = "route" /\ UNCHANGED <<inflight, live, saved, put>>
    BY <1>4 DEF Entry!Pick
  <2> DEFINE m == [g[r] EXCEPT !.pc = "proxy", !.to = w]
  <2>3. g' = [g EXCEPT ![r] = m]
    BY <1>0, <2>1
  <2>4. m \in EntryReq /\ m.pc = "proxy" /\ m.n = g[r].n /\ m.limit = g[r].limit
    BY <1>0 DEF EntryReq
  <2> HIDE DEF m
  <2>5. HasPlace(m) /\ HasPlace(g[r]) /\ m.n <= m.limit
    BY <2>2, <2>4 DEF HasPlace, EntryInv, Inside
  <2>6. inflight' = inflight + Bit(HasPlace(m)) - Bit(HasPlace(g[r]))
    BY <1>0, <2>2, <2>5 DEF Bit
  <2> QED BY <1>0, <2>2, <2>3, <2>4, <2>5, <2>6, EntryMoves
<1>5. ASSUME NEW p \in Puts, NEW limit \in Limits, Entry!Apply(p, limit) \/ Entry!ApplyFails(p, limit)
      PROVE  EntryInv'
  <2>1. Entry!Merged(limit) \in Nat
    BY <1>0 DEF Entry!Merged
  <2>2. UNCHANGED <<g, inflight, live>> /\ saved' \in [mem : Nat, file : Nat]
    BY <1>0, <1>5, <2>1 DEF Entry!Apply, Entry!ApplyFails
  <2>3. put' \in [Puts -> EntryPut]
    BY <1>0, <1>5, <2>1 DEF Entry!Apply, Entry!ApplyFails, EntryPut
  <2> QED BY <1>0, <1>u, <2>2, <2>3
<1>6. ASSUME NEW p \in Puts, Entry!InForceNow(p) PROVE EntryInv'
  <2>1. live' \in Nat /\ put' \in [Puts -> EntryPut] /\ UNCHANGED <<g, inflight, saved>>
    BY <1>0, <1>6 DEF Entry!InForceNow, EntryPut
  <2> QED BY <1>0, <1>u, <2>1
<1>7. CASE Entry!Restart
  <2>1. live' \in Nat /\ saved' \in [mem : Nat, file : Nat] /\ put' \in [Puts -> EntryPut]
    BY <1>0, <1>7 DEF Entry!Restart, EntryPut
  <2>2. g' = [r \in Requests |-> Entry!Idle] /\ inflight' = 0
    BY <1>7 DEF Entry!Restart
  <2>3. WithPlace' = {} /\ g' \in [Requests -> EntryReq]
    BY <1>i, <2>2 DEF WithPlace, HasPlace
  <2> QED BY <1>i, <2>1, <2>2, <2>3, FS_EmptySet DEF EntryInv, EntryTyped, Inside
<1>8. ASSUME NEW o \in Owners, Entry!OwnerChanges(o) PROVE EntryInv'
  BY <1>0, <1>u, <1>8 DEF Entry!OwnerChanges
<1> QED
  BY <1>1, <1>2, <1>3, <1>4, <1>5, <1>6, <1>7, <1>8, EntryCounts DEF Entry!Next

\* The admission counter of the gateway is the number of requests that have a
\* place, and a request is let in only among fewer than the limit it read.
THEOREM AdmissionAlwaysExact == Spec => []AdmissionExact
<1>1. Init => EntryInv
  <2> SUFFICES ASSUME Init PROVE EntryInv
    OBVIOUS
  <2>1. Entry!Init
    BY DEF Init
  <2>i. Entry!Idle \in EntryReq /\ Entry!Idle.pc = "idle"
    BY DEF Entry!Idle, EntryReq
  <2>2. EntryTyped
    BY <2>1, <2>i DEF Entry!Init, EntryTyped, EntryPut
  <2>3. WithPlace = {}
    BY <2>1, <2>i DEF Entry!Init, WithPlace, HasPlace
  <2> QED BY <2>1, <2>i, <2>2, <2>3, FS_EmptySet DEF Entry!Init, EntryInv, Inside
<1>2. EntryInv /\ [Next]_vars => EntryInv'
  <2> SUFFICES ASSUME EntryInv, [Next]_vars PROVE EntryInv'
    OBVIOUS
  <2>1. ASSUME UNCHANGED entryVars PROVE EntryInv'
    BY <2>1 DEF entryVars, EntryInv, EntryTyped, WithPlace
  <2> QED BY <2>1, EntryStep DEF Next, vars
<1>3. EntryInv => AdmissionExact
  <2> SUFFICES ASSUME EntryInv
      PROVE  /\ inflight = Cardinality(Entry!Inside \cup {r \in Requests : g[r].pc = "added"})
             /\ Entry!Inside # {} => \E q \in Entry!Inside : Cardinality(Entry!Inside) <= g[q].limit
    BY SameCardinality DEF AdmissionExact, Entry!AdmissionExact
  <2>1. Entry!Inside \cup {r \in Requests : g[r].pc = "added"} = WithPlace
        /\ Entry!Inside \in SUBSET WithPlace
    BY DEF Entry!Inside, WithPlace, HasPlace
  <2>2. ASSUME NEW q \in Entry!Inside, Cardinality(Entry!Inside) <= g[q].n
        PROVE  Cardinality(Entry!Inside) <= g[q].limit
    <3>1. g[q] \in EntryReq /\ g[q].n <= g[q].limit
      BY DEF Entry!Inside, EntryInv, EntryTyped, Inside
    <3>2. Cardinality(Entry!Inside) \in Nat
      BY <2>1, PlacesFinite, CardSubset
    <3> QED BY <2>2, <3>1, <3>2 DEF EntryReq
  <2> QED BY <2>1, <2>2 DEF EntryInv
<1> QED
  BY <1>1, <1>2, <1>3, PTL DEF Spec

-------------------------------------------------------------------------------
(* The queue of due accounts of RefreshQueue.                              *)

RowOf == [tok : Nat, rev : Nat]
Refr == [pc : {"idle", "lock", "zrem", "work", "exchange", "store", "requeue"},
         seen : SUBSET Accounts, got : SUBSET Accounts, on : Accounts \cup {NoAccount},
         read : RowOf, new : Nat, sure : SUBSET Accounts]

QueueTyped ==
  /\ due \in [Accounts -> {"no", "later", "now"}]
  /\ lock \in [Accounts -> Refreshers \cup {NoRefresher}]
  /\ token \in [Accounts -> RowOf] /\ provider \in [Accounts -> Nat]
  /\ rf \in [Refreshers -> Refr]
  /\ pending \subseteq Accounts /\ forgotten \subseteq Accounts /\ lost \subseteq Accounts

\* A refresher is at an account between two batches of its work only.
Shape(m) ==
  /\ m.pc \in {"idle", "lock", "work"} => m.on = NoAccount
  /\ m.pc \in {"zrem", "exchange", "store", "requeue"} => m.on \in Accounts
  /\ m.pc = "idle" => m.got = {}

\* Revision and token of a row grow together, so a row that was read is current
\* or older in both; a rotated token is the successor of the one that was read.
History(m) ==
  /\ m.pc \in {"exchange", "store"} =>
       \/ m.read = token[m.on]
       \/ m.read.rev < token[m.on].rev /\ m.read.tok < token[m.on].tok
  /\ m.pc = "store" => m.new = m.read.tok + 1 /\ m.new <= provider[m.on]

\* A lock that has not run out since is still the refresher's.
Locked(r, m) == \A a \in m.sure : lock[a] = r

\* A refresher whose compare-and-swap would fail does not answer for its account.
Stale(m, a) == m.pc = "store" /\ m.on = a /\ token[a].rev # m.read.rev
Answers(m, a) == (a \in m.got \/ a = m.on) /\ ~Stale(m, a)
InOnePlace ==
  \A a \in pending \ forgotten : due[a] # "no" \/ \E r \in Refreshers : Answers(rf[r], a)

Holder(m, a) == m.pc = "store" /\ m.on = a /\ m.new = provider[a] /\ token[a].rev = m.read.rev
Kept == \A a \in Accounts \ lost : token[a].tok = provider[a] \/ \E r \in Refreshers : Holder(rf[r], a)

QueueInv ==
  /\ QueueTyped
  /\ \A r \in Refreshers : Shape(rf[r]) /\ History(rf[r]) /\ Locked(r, rf[r])
  /\ \A a \in Accounts : token[a].tok <= provider[a]
  /\ InOnePlace /\ Kept

\* A refresher moves while no token does: the conditions under which nothing is lost.
LEMMA RefresherMoves ==
  ASSUME QueueInv, NEW r \in Refreshers, NEW m \in Refr, rf' = [rf EXCEPT ![r] = m],
         UNCHANGED <<token, provider>>, Shape(m), History(m),
         due' \in [Accounts -> {"no", "later", "now"}],
         lock' \in [Accounts -> Refreshers \cup {NoRefresher}],
         pending' \subseteq Accounts, forgotten' \subseteq Accounts, lost' \subseteq Accounts,
         \A a \in m.sure : lock'[a] = r,
         \A a \in Accounts : lock'[a] = lock[a] \/ lock[a] = NoRefresher,
         lost \subseteq lost',
         rf[r].pc = "store" =>
           m = rf[r] \/ rf[r].on \in lost' \/ token[rf[r].on].rev # rf[r].read.rev,
         \A a \in pending' \ forgotten' :
           \/ due'[a] # "no"
           \/ Answers(m, a)
           \/ due'[a] = due[a] /\ a \in pending \ forgotten /\ ~Answers(rf[r], a)
  PROVE  QueueInv'
<1>1. rf' \in [Refreshers -> Refr] /\ rf'[r] = m /\ \A q \in Refreshers \ {r} : rf'[q] = rf[q]
  BY DEF QueueInv, QueueTyped
<1>2. QueueTyped'
  BY <1>1 DEF QueueInv, QueueTyped
<1>3. ASSUME NEW q \in Refreshers PROVE (Shape(rf[q]) /\ History(rf[q]) /\ Locked(q, rf[q]))'
  <2>1. CASE q = r
    BY <1>1, <2>1 DEF Shape, History, Locked
  <2>2. CASE q # r
    <3>1. Shape(rf[q]) /\ History(rf[q]) /\ Locked(q, rf[q]) /\ rf[q].sure \subseteq Accounts
      BY DEF QueueInv, QueueTyped, Refr
    <3> QED BY <1>1, <2>2, <3>1, ClusterAssumption DEF Shape, History, Locked
  <2> QED BY <2>1, <2>2
<1>4. \A a \in Accounts : (token[a].tok <= provider[a])'
  BY DEF QueueInv
<1>5. InOnePlace'
  <2> SUFFICES ASSUME NEW a \in pending' \ forgotten', due'[a] = "no", ~Answers(m, a)
      PROVE  \E q \in Refreshers : Answers(rf[q], a)'
    BY <1>1 DEF InOnePlace, Answers, Stale
  <2>1. PICK q \in Refreshers : Answers(rf[q], a)
    BY DEF QueueInv, InOnePlace
  <2>2. q # r
    BY <2>1
  <2> QED BY <1>1, <2>1, <2>2 DEF Answers, Stale
<1>6. Kept'
  <2> SUFFICES ASSUME NEW a \in Accounts \ lost', token[a].tok # provider[a]
      PROVE  \E q \in Refreshers : Holder(rf[q], a)'
    BY DEF Kept
  <2>1. PICK q \in Refreshers : Holder(rf[q], a)
    BY DEF QueueInv, Kept
  <2>2. rf'[q] = rf[q]
    BY <1>1, <2>1 DEF Holder
  <2> QED BY <2>1, <2>2 DEF Holder
<1> QED BY <1>2, <1>3, <1>4, <1>5, <1>6 DEF QueueInv

\* Every step of a refresher but an exchange or a store that succeeds.
LEMMA RefresherStep ==
  ASSUME QueueInv, NEW r \in Refreshers,
         \/ Queue!ReadDue(r) \/ Queue!RemoveDue(r) \/ Queue!ClaimEnds(r) \/ Queue!BatchEnds(r)
         \/ Queue!ExchangeFails(r) \/ Queue!Requeue(r) \/ (Queue!Store(r) /\ ~Queue!Swaps(r))
         \/ Queue!StoreFails(r) \/ Queue!Crash(r)
         \/ \E a \in Accounts : \/ Queue!LockDue(r, a) \/ Queue!ReadRow(r, a)
                                \/ Queue!ReadFails(r, a) \/ Queue!EnqueueExpiring(r, a)
         \/ \E ids \in SUBSET Accounts : Queue!ClaimMemory(r, ids)
  PROVE  QueueInv'
<1> DEFINE l == rf[r]
<1>0. /\ l \in Refr /\ Shape(l) /\ History(l) /\ Locked(r, l) /\ rf = [rf EXCEPT ![r] = l]
      /\ rf \in [Refreshers -> Refr] /\ token \in [Accounts -> RowOf]
      /\ due \in [Accounts -> {"no", "later", "now"}]
      /\ lock \in [Accounts -> Refreshers \cup {NoRefresher}]
      /\ pending \subseteq Accounts /\ forgotten \subseteq Accounts /\ lost \subseteq Accounts
  BY DEF QueueInv, QueueTyped
<1>i. Queue!Idle \in Refr /\ Queue!Idle.pc = "idle" /\ Queue!Idle.sure = {} /\ Shape(Queue!Idle)
      /\ History(Queue!Idle)
  BY DEF Queue!Idle, Refr, RowOf, Shape, History
<1>m. ASSUME NEW m \in Refr, rf' = [rf EXCEPT ![r] = m],
             UNCHANGED <<token, provider>>, Shape(m), History(m),
             due' \in [Accounts -> {"no", "later", "now"}],
             lock' \in [Accounts -> Refreshers \cup {NoRefresher}],
             pending' \subseteq Accounts, forgotten' \subseteq Accounts, lost' \subseteq Accounts,
             \A a \in m.sure : lock'[a] = r,
             \A a \in Accounts : lock'[a] = lock[a] \/ lock[a] = NoRefresher,
             lost \subseteq lost',
             l.pc = "store" => m = l \/ l.on \in lost' \/ token[l.on].rev # l.read.rev,
             \A a \in pending' \ forgotten' :
               \/ due'[a] # "no"
               \/ Answers(m, a)
               \/ due'[a] = due[a] /\ a \in pending \ forgotten /\ ~Answers(l, a)
      PROVE  QueueInv'
  BY <1>m, RefresherMoves
<1> HIDE DEF l
\* Only the place of the refresher in its loop changes.
<1>u. ASSUME NEW m \in Refr, rf' = [rf EXCEPT ![r] = m], l.pc # "store",
             m.pc # "store", m.pc # "exchange", Shape(m),
             m.on = l.on, m.got = l.got, m.sure = l.sure,
             UNCHANGED <<due, lock, token, provider, pending, forgotten, lost>>
      PROVE  QueueInv'
  <2>1. History(m) /\ \A a \in m.sure : lock'[a] = r
    BY <1>0, <1>u DEF History, Locked
  <2>2. \A a \in Accounts : Answers(l, a) => Answers(m, a)
    BY <1>u DEF Answers, Stale
  <2>3. /\ due' \in [Accounts -> {"no", "later", "now"}]
        /\ lock' \in [Accounts -> Refreshers \cup {NoRefresher}]
    BY <1>0, <1>u
  <2>4. /\ \A a \in Accounts : lock'[a] = lock[a] /\ due'[a] = due[a]
        /\ pending' = pending /\ forgotten' = forgotten /\ lost' = lost
        /\ token' = token /\ provider' = provider
    BY <1>u
  <2> QED BY <1>0, <1>m, <1>u, <2>1, <2>2, <2>3, <2>4
\* The refresher turns from the account it was at.
<1>n. ASSUME Queue!Next1(r), l.pc \in {"requeue", "store"}
      PROVE  \E m \in Refr : /\ rf' = [rf EXCEPT ![r] = m] /\ Shape(m) /\ History(m)
                             /\ m.sure \subseteq l.sure /\ m.got = l.got /\ m.pc = "work"
                             /\ m.on = NoAccount
  <2> DEFINE m == [l EXCEPT !.pc = "work", !.on = NoAccount, !.sure = @ \ {l.on}]
  <2>1. rf' = [rf EXCEPT ![r] = m]
    BY <1>0, <1>n DEF Queue!Next1, l
  <2>2. m \in Refr /\ m.pc = "work" /\ m.on = NoAccount /\ m.got = l.got /\ m.sure \subseteq l.sure
    BY <1>0 DEF Refr
  <2> HIDE DEF m
  <2> QED BY <2>1, <2>2 DEF Shape, History
<1>1. CASE Queue!ReadDue(r)
  <2> DEFINE S == {a \in Accounts : due[a] = "now"}
             m == [l EXCEPT !.pc = "lock", !.seen = S]
  <2>1. l.pc = "idle" /\ rf' = [rf EXCEPT ![r] = m]
        /\ UNCHANGED <<due, lock, token, provider, pending, forgotten, lost>>
    BY <1>0, <1>1 DEF Queue!ReadDue, l
  <2>2. S \in SUBSET Accounts
    OBVIOUS
  <2> HIDE DEF S
  <2>3. m \in Refr /\ m.pc = "lock" /\ m.on = l.on /\ m.got = l.got /\ m.sure = l.sure
    BY <1>0, <2>2 DEF Refr
  <2> HIDE DEF m
  <2>4. Shape(m)
    BY <1>0, <2>1, <2>3 DEF Shape
  <2> QED BY <1>u, <2>1, <2>3, <2>4
<1>2. ASSUME NEW b \in Accounts, Queue!LockDue(r, b) PROVE QueueInv'
  <2>1. l.pc = "lock" /\ UNCHANGED <<due, token, provider, pending, forgotten, lost>>
    BY <1>2 DEF Queue!LockDue, l
  <2>2. CASE /\ lock[b] = NoRefresher /\ lock' = [lock EXCEPT ![b] = r]
             /\ rf' = [rf EXCEPT ![r].pc = "zrem", ![r].seen = @ \ {b}, ![r].on = b, ![r].sure = @ \cup {b}]
    <3> DEFINE m == [l EXCEPT !.pc = "zrem", !.seen = @ \ {b}, !.on = b, !.sure = @ \cup {b}]
    <3>1. rf' = [rf EXCEPT ![r] = m]
      BY <1>0, <2>2 DEF l
    <3>2. m \in Refr /\ m.pc = "zrem" /\ m.on = b /\ m.got = l.got /\ m.sure = l.sure \cup {b}
      BY <1>0 DEF Refr
    <3> HIDE DEF m
    <3>3. lock' \in [Accounts -> Refreshers \cup {NoRefresher}]
          /\ \A a \in Accounts : lock'[a] = IF a = b THEN r ELSE lock[a]
      BY <1>0, <2>2
    <3>4. \A a \in m.sure : lock'[a] = r
      BY <1>0, <3>2, <3>3 DEF Locked, Refr
    <3>5. Shape(m) /\ History(m)
      BY <3>2 DEF Shape, History
    <3>6. \A a \in Accounts : Answers(l, a) => Answers(m, a)
      BY <1>0, <2>1, <3>2, ClusterAssumption DEF Shape, Answers, Stale
    <3>7. \A a \in Accounts : lock'[a] = lock[a] \/ lock[a] = NoRefresher
      BY <2>2, <3>3
    <3> QED BY <1>0, <1>m, <2>1, <3>1, <3>2, <3>3, <3>4, <3>5, <3>6, <3>7
  <2>3. CASE rf' = [rf EXCEPT ![r].seen = @ \ {b}] /\ UNCHANGED lock
    <3> DEFINE m == [l EXCEPT !.seen = @ \ {b}]
    <3>1. rf' = [rf EXCEPT ![r] = m]
      BY <1>0, <2>3 DEF l
    <3>2. m \in Refr /\ m.pc = l.pc /\ m.on = l.on /\ m.got = l.got /\ m.sure = l.sure
      BY <1>0 DEF Refr
    <3> HIDE DEF m
    <3>3. Shape(m)
      BY <1>0, <3>2 DEF Shape
    <3> QED BY <1>u, <2>1, <2>3, <3>1, <3>2, <3>3
  <2>4. \/ lock[b] = NoRefresher /\ lock' = [lock EXCEPT ![b] = r]
           /\ rf' = [rf EXCEPT ![r].pc = "zrem", ![r].seen = @ \ {b}, ![r].on = b, ![r].sure = @ \cup {b}]
        \/ rf' = [rf EXCEPT ![r].seen = @ \ {b}] /\ UNCHANGED lock
    BY <1>2 DEF Queue!LockDue, Queue!Lockable
  <2> QED BY <2>2, <2>3, <2>4, Zenon
<1>3. CASE Queue!RemoveDue(r)
  <2> DEFINE m == [l EXCEPT !.pc = "lock", !.got = @ \cup {l.on}, !.on = NoAccount]
  <2>1. l.pc = "zrem" /\ l.on \in Accounts
        /\ UNCHANGED <<lock, token, provider, pending, forgotten, lost>>
    BY <1>0, <1>3 DEF Queue!RemoveDue, l, Shape
  <2>2. rf' = [rf EXCEPT ![r] = m] /\ due' = [due EXCEPT ![l.on] = "no"]
    BY <1>0, <1>3 DEF Queue!RemoveDue, l
  <2>3. m \in Refr /\ m.pc = "lock" /\ m.on = NoAccount /\ m.got = l.got \cup {l.on} /\ m.sure = l.sure
    BY <1>0, <2>1 DEF Refr
  <2> HIDE DEF m
  <2>4. due' \in [Accounts -> {"no", "later", "now"}] /\ \A a \in Accounts \ {l.on} : due'[a] = due[a]
    BY <1>0, <2>2
  <2>5. Shape(m) /\ History(m) /\ \A a \in m.sure : lock'[a] = r
    BY <1>0, <2>1, <2>3 DEF Shape, History, Locked
  <2>6. \A a \in Accounts : Answers(l, a) => Answers(m, a)
    BY <2>1, <2>3 DEF Answers, Stale
  <2>7. Answers(m, l.on)
    BY <2>3 DEF Answers, Stale
  <2>8. \A a \in pending' \ forgotten' :
          \/ Answers(m, a)
          \/ due'[a] = due[a] /\ a \in pending \ forgotten /\ ~Answers(l, a)
    BY <1>0, <2>1, <2>4, <2>6, <2>7
  <2>9. l.pc # "store" /\ \A a \in Accounts : lock'[a] = lock[a]
    BY <2>1
  <2>10. lock' \in [Accounts -> Refreshers \cup {NoRefresher}]
    BY <1>0, <2>1
  <2> QED BY <1>0, <1>m, <2>1, <2>2, <2>3, <2>4, <2>5, <2>8, <2>9, <2>10
<1>4. CASE Queue!ClaimEnds(r)
  <2> DEFINE m == [l EXCEPT !.pc = "work", !.seen = {}]
  <2>1. l.pc = "lock" /\ rf' = [rf EXCEPT ![r] = m]
        /\ UNCHANGED <<due, lock, token, provider, pending, forgotten, lost>>
    BY <1>0, <1>4 DEF Queue!ClaimEnds, l
  <2>2. m \in Refr /\ m.pc = "work" /\ m.on = l.on /\ m.got = l.got /\ m.sure = l.sure
    BY <1>0 DEF Refr
  <2> HIDE DEF m
  <2>3. Shape(m)
    BY <1>0, <2>1, <2>2 DEF Shape
  <2> QED BY <1>u, <2>1, <2>2, <2>3
<1>5. CASE Queue!BatchEnds(r)
  <2>1. l.pc = "work" /\ l.got = {} /\ rf' = [rf EXCEPT ![r] = Queue!Idle]
        /\ UNCHANGED <<due, lock, token, provider, pending, forgotten, lost>>
    BY <1>5 DEF Queue!BatchEnds, l
  <2>2. \A a \in Accounts : ~Answers(l, a)
    BY <1>0, <2>1 DEF Shape, Answers
  <2> QED BY <1>0, <1>i, <1>m, <2>1, <2>2
<1>6. CASE Queue!ExchangeFails(r)
  <2> DEFINE m == [l EXCEPT !.pc = "requeue"]
  <2>1. l.pc = "exchange" /\ rf' = [rf EXCEPT ![r] = m]
        /\ UNCHANGED <<due, lock, token, provider, pending, forgotten, lost>>
    BY <1>0, <1>6 DEF Queue!ExchangeFails, l
  <2>2. m \in Refr /\ m.pc = "requeue" /\ m.on = l.on /\ m.got = l.got /\ m.sure = l.sure
    BY <1>0 DEF Refr
  <2> HIDE DEF m
  <2>3. Shape(m)
    BY <1>0, <2>1, <2>2 DEF Shape
  <2> QED BY <1>u, <2>1, <2>2, <2>3
<1>7. CASE Queue!Requeue(r)
  <2>1. l.pc = "requeue" /\ l.on \in Accounts /\ Queue!Next1(r) /\ due' = [due EXCEPT ![l.on] = "later"]
        /\ UNCHANGED <<lock, token, provider, pending, forgotten, lost>>
    BY <1>0, <1>7 DEF Queue!Requeue, l, Shape
  <2>2. PICK m \in Refr : /\ rf' = [rf EXCEPT ![r] = m] /\ Shape(m) /\ History(m)
                          /\ m.sure \subseteq l.sure /\ m.got = l.got /\ m.pc = "work"
                          /\ m.on = NoAccount
    BY <1>n, <2>1
  <2>3. /\ due' \in [Accounts -> {"no", "later", "now"}]
        /\ \A a \in Accounts : due'[a] = IF a = l.on THEN "later" ELSE due[a]
    BY <1>0, <2>1
  <2>4. \A a \in m.sure : lock'[a] = r
    BY <1>0, <2>1, <2>2 DEF Locked
  <2>5. \A a \in Accounts \ {l.on} : Answers(l, a) => Answers(m, a)
    BY <2>1, <2>2 DEF Answers, Stale
  <2>6. /\ lock' \in [Accounts -> Refreshers \cup {NoRefresher}] /\ \A a \in Accounts : lock'[a] = lock[a]
        /\ pending' = pending /\ forgotten' = forgotten /\ lost' = lost /\ l.pc # "store"
    BY <1>0, <2>1
  <2> QED BY <1>0, <1>m, <2>1, <2>2, <2>3, <2>4, <2>5, <2>6
<1>8. CASE Queue!Store(r) /\ ~Queue!Swaps(r)
  <2>1. /\ l.pc = "store" /\ l.on \in Accounts /\ Queue!Next1(r) /\ token[l.on].rev # l.read.rev
        /\ UNCHANGED <<due, lock, token, provider, pending, forgotten, lost>>
    BY <1>0, <1>8 DEF Queue!Store, Queue!Swaps, l, Shape
  <2>2. PICK m \in Refr : /\ rf' = [rf EXCEPT ![r] = m] /\ Shape(m) /\ History(m)
                          /\ m.sure \subseteq l.sure /\ m.got = l.got /\ m.pc = "work"
                          /\ m.on = NoAccount
    BY <1>n, <2>1
  <2>3. \A a \in Accounts : Answers(l, a) => Answers(m, a)
    BY <2>1, <2>2 DEF Answers, Stale
  <2>4. \A a \in m.sure : lock'[a] = r
    BY <1>0, <2>1, <2>2 DEF Locked
  <2>5. /\ lock' \in [Accounts -> Refreshers \cup {NoRefresher}] /\ \A a \in Accounts : lock'[a] = lock[a]
        /\ due' \in [Accounts -> {"no", "later", "now"}] /\ \A a \in Accounts : due'[a] = due[a]
        /\ pending' = pending /\ forgotten' = forgotten /\ lost' = lost
    BY <1>0, <2>1
  <2> QED BY <1>0, <1>m, <2>1, <2>2, <2>3, <2>4, <2>5
<1>9. CASE Queue!StoreFails(r)
  <2>1. /\ l.pc = "store" /\ l.on \in Accounts /\ Queue!Next1(r)
        /\ forgotten' = forgotten \cup {l.on} /\ lost' = lost \cup {l.on}
        /\ UNCHANGED <<due, lock, token, provider, pending>>
    BY <1>0, <1>9 DEF Queue!StoreFails, l, Shape
  <2>2. PICK m \in Refr : /\ rf' = [rf EXCEPT ![r] = m] /\ Shape(m) /\ History(m)
                          /\ m.sure \subseteq l.sure /\ m.got = l.got /\ m.pc = "work"
                          /\ m.on = NoAccount
    BY <1>n, <2>1
  <2>3. \A a \in m.sure : lock'[a] = r
    BY <1>0, <2>1, <2>2 DEF Locked
  <2>4. \A a \in Accounts \ {l.on} : Answers(l, a) => Answers(m, a)
    BY <2>1, <2>2 DEF Answers, Stale
  <2>5. /\ lock' \in [Accounts -> Refreshers \cup {NoRefresher}] /\ \A a \in Accounts : lock'[a] = lock[a]
        /\ due' \in [Accounts -> {"no", "later", "now"}] /\ \A a \in Accounts : due'[a] = due[a]
        /\ forgotten' \subseteq Accounts /\ lost' \subseteq Accounts
    BY <1>0, <2>1
  <2> QED BY <1>0, <1>m, <2>1, <2>2, <2>3, <2>4, <2>5
<1>10. CASE Queue!Crash(r)
  <2>1. /\ rf' = [rf EXCEPT ![r] = Queue!Idle]
        /\ forgotten' = forgotten \cup {a \in Queue!Claimed(r) : due[a] = "no"}
        /\ lost' = IF l.pc = "store" THEN lost \cup {l.on} ELSE lost
        /\ UNCHANGED <<due, lock, token, provider, pending>>
    BY <1>10 DEF Queue!Crash, l
  <2>2. Queue!Claimed(r) = l.got \cup (IF l.on = NoAccount THEN {} ELSE {l.on})
    BY DEF Queue!Claimed, l
  <2>3. Queue!Claimed(r) \subseteq Accounts /\ \A a \in Accounts : Answers(l, a) => a \in Queue!Claimed(r)
    BY <1>0, <2>2, ClusterAssumption DEF Refr, Answers
  <2>4. forgotten' \subseteq Accounts /\ lost' \subseteq Accounts /\ lost \subseteq lost'
        /\ (l.pc = "store" => l.on \in lost')
    BY <1>0, <2>1, <2>3 DEF Shape
  <2>5. \A a \in pending' \ forgotten' :
          due'[a] # "no" \/ (due'[a] = due[a] /\ a \in pending \ forgotten /\ ~Answers(l, a))
    BY <1>0, <2>1, <2>3
  <2> QED BY <1>0, <1>i, <1>m, <2>1, <2>4, <2>5
<1>11. ASSUME NEW b \in Accounts, Queue!ReadRow(r, b) PROVE QueueInv'
  <2> DEFINE m == [l EXCEPT !.pc = "exchange", !.got = @ \ {b}, !.on = b, !.read = token[b]]
  <2>1. l.pc = "work" /\ b \in l.got /\ UNCHANGED <<due, lock, token, provider, pending, forgotten, lost>>
    BY <1>11 DEF Queue!ReadRow, l
  <2>2. rf' = [rf EXCEPT ![r] = m]
    BY <1>0, <1>11 DEF Queue!ReadRow, l
  <2>3. m \in Refr /\ m.pc = "exchange" /\ m.on = b /\ m.got = l.got \ {b} /\ m.sure = l.sure
        /\ m.read = token[b]
    BY <1>0 DEF Refr
  <2> HIDE DEF m
  <2>4. Shape(m) /\ History(m) /\ \A a \in m.sure : lock'[a] = r
    BY <1>0, <2>1, <2>3 DEF Shape, History, Locked
  <2>5. \A a \in Accounts : Answers(l, a) => Answers(m, a)
    BY <1>0, <2>1, <2>3, ClusterAssumption DEF Shape, Answers, Stale
  <2>6. /\ lock' \in [Accounts -> Refreshers \cup {NoRefresher}] /\ \A a \in Accounts : lock'[a] = lock[a]
        /\ due' \in [Accounts -> {"no", "later", "now"}] /\ \A a \in Accounts : due'[a] = due[a]
        /\ pending' = pending /\ forgotten' = forgotten /\ lost' = lost
    BY <1>0, <2>1
  <2> QED BY <1>0, <1>m, <2>1, <2>2, <2>3, <2>4, <2>5, <2>6
<1>12. ASSUME NEW b \in Accounts, Queue!ReadFails(r, b) PROVE QueueInv'
  <2> DEFINE m == [l EXCEPT !.got = @ \ {b}, !.sure = @ \ {b}]
  <2>1. l.pc = "work" /\ forgotten' = forgotten \cup {b} /\ UNCHANGED <<due, lock, token, provider, pending, lost>>
    BY <1>12 DEF Queue!ReadFails, l
  <2>2. rf' = [rf EXCEPT ![r] = m]
    BY <1>0, <1>12 DEF Queue!ReadFails, l
  <2>3. m \in Refr /\ m.pc = "work" /\ m.on = l.on /\ m.got = l.got \ {b} /\ m.sure \subseteq l.sure
    BY <1>0, <2>1 DEF Refr
  <2> HIDE DEF m
  <2>4. Shape(m) /\ History(m) /\ \A a \in m.sure : lock'[a] = r
    BY <1>0, <2>1, <2>3 DEF Shape, History, Locked
  <2>5. \A a \in Accounts \ {b} : Answers(l, a) => Answers(m, a)
    BY <2>1, <2>3 DEF Answers, Stale
  <2>6. /\ lock' \in [Accounts -> Refreshers \cup {NoRefresher}] /\ \A a \in Accounts : lock'[a] = lock[a]
        /\ due' \in [Accounts -> {"no", "later", "now"}] /\ \A a \in Accounts : due'[a] = due[a]
        /\ pending' = pending /\ lost' = lost
    BY <1>0, <2>1
  <2> QED BY <1>0, <1>m, <2>1, <2>2, <2>3, <2>4, <2>5, <2>6
<1>13. ASSUME NEW b \in Accounts, Queue!EnqueueExpiring(r, b) PROVE QueueInv'
  <2>1. /\ due' = [due EXCEPT ![b] = "now"] /\ pending' = pending \cup {b}
        /\ forgotten' = forgotten \ {b} /\ UNCHANGED <<lock, token, provider, rf, lost>>
    BY <1>13 DEF Queue!EnqueueExpiring
  <2>2. /\ due' \in [Accounts -> {"no", "later", "now"}]
        /\ \A a \in Accounts : due'[a] = IF a = b THEN "now" ELSE due[a]
    BY <1>0, <2>1
  <2>3. rf' = [rf EXCEPT ![r] = l]
    BY <1>0, <2>1
  <2> QED BY <1>0, <1>m, <2>1, <2>2, <2>3 DEF Locked
<1>14. ASSUME NEW ids \in SUBSET Accounts, Queue!ClaimMemory(r, ids) PROVE QueueInv'
  <2> DEFINE m == [l EXCEPT !.pc = "work", !.got = ids, !.sure = ids]
  <2>1. /\ l.pc = "idle" /\ \A a \in ids : lock[a] = NoRefresher
        /\ UNCHANGED <<token, provider, pending, forgotten, lost>>
    BY <1>14 DEF Queue!ClaimMemory, Queue!Lockable, l
  <2>2. rf' = [rf EXCEPT ![r] = m]
    <3>1. rf' = [rf EXCEPT ![r].pc = "work", ![r].got = ids, ![r].sure = ids]
      BY <1>14 DEF Queue!ClaimMemory
    <3> QED BY <1>0, <3>1 DEF l
  <2>3. /\ lock' = [a \in Accounts |-> IF a \in ids THEN r ELSE lock[a]]
        /\ due' = [a \in Accounts |-> IF a \in ids THEN "no" ELSE due[a]]
    BY <1>14 DEF Queue!ClaimMemory
  <2>4. m \in Refr /\ m.pc = "work" /\ m.on = l.on /\ m.got = ids /\ m.sure = ids
    BY <1>0 DEF Refr
  <2> HIDE DEF m
  <2>5. /\ due' \in [Accounts -> {"no", "later", "now"}]
        /\ lock' \in [Accounts -> Refreshers \cup {NoRefresher}]
        /\ \A a \in ids : lock'[a] = r
        /\ \A a \in Accounts : lock'[a] = lock[a] \/ lock[a] = NoRefresher
        /\ \A a \in Accounts \ ids : due'[a] = due[a]
    BY <1>0, <2>1, <2>3
  <2>6. \A a \in Accounts : ~Answers(l, a)
    BY <1>0, <2>1, ClusterAssumption DEF Shape, Answers
  <2>7. \A a \in ids : Answers(m, a)
    BY <2>4 DEF Answers, Stale
  <2> QED BY <1>0, <1>m, <2>1, <2>2, <2>4, <2>5, <2>6, <2>7 DEF Shape, History
<1> QED
  BY <1>1, <1>2, <1>3, <1>4, <1>5, <1>6, <1>7, <1>8, <1>9, <1>10, <1>11, <1>12, <1>13, <1>14

\* An exchange that succeeds was made with the token of the row, which the refresher now holds.
LEMMA ExchangeStep ==
  ASSUME QueueInv, NEW r \in Refreshers, Queue!Exchange(r)
  PROVE  QueueInv'
<1> DEFINE l == rf[r]
           b == l.on
           m == [l EXCEPT !.pc = "store", !.new = provider[b] + 1]
<1>0. /\ l \in Refr /\ Shape(l) /\ History(l) /\ Locked(r, l)
      /\ rf \in [Refreshers -> Refr] /\ token \in [Accounts -> RowOf] /\ provider \in [Accounts -> Nat]
      /\ \A a \in Accounts : token[a].tok <= provider[a]
  BY DEF QueueInv, QueueTyped
<1>1. /\ l.pc = "exchange" /\ l.read.tok = provider[b] /\ rf' = [rf EXCEPT ![r] = m]
      /\ provider' = [provider EXCEPT ![b] = @ + 1]
      /\ UNCHANGED <<due, lock, token, pending, forgotten, lost>>
  BY <1>0 DEF Queue!Exchange
<1> HIDE DEF l
<1>2. b \in Accounts /\ provider[b] \in Nat /\ token[b] \in RowOf /\ l.read \in RowOf
  BY <1>0, <1>1 DEF Shape, Refr
<1>3. l.read = token[b]
  BY <1>0, <1>1, <1>2 DEF History, RowOf
<1>4. /\ m \in Refr /\ m.pc = "store" /\ m.on = b /\ m.got = l.got /\ m.sure = l.sure
      /\ m.read = token[b] /\ m.new = provider[b] + 1
  <2>1. provider[b] + 1 \in Nat
    BY <1>2
  <2> QED BY <1>0, <1>3, <2>1 DEF Refr
<1>e. m.new = m.read.tok + 1
  BY <1>1, <1>3, <1>4
<1> HIDE DEF m
<1>5. /\ provider' \in [Accounts -> Nat] /\ provider'[b] = provider[b] + 1
      /\ \A a \in Accounts \ {b} : provider'[a] = provider[a]
  BY <1>0, <1>1, <1>2
<1>6. rf' \in [Refreshers -> Refr] /\ rf'[r] = m /\ \A q \in Refreshers \ {r} : rf'[q] = rf[q]
  BY <1>0, <1>1, <1>4
<1> HIDE DEF b
<1>7. QueueTyped'
  BY <1>1, <1>5, <1>6 DEF QueueInv, QueueTyped
<1>g. \A a \in Accounts : provider[a] \in Nat /\ provider'[a] \in Nat /\ provider[a] <= provider'[a]
  BY <1>0, <1>2, <1>5
<1>8. ASSUME NEW q \in Refreshers PROVE (Shape(rf[q]) /\ History(rf[q]) /\ Locked(q, rf[q]))'
  <2>1. CASE q = r
    <3>1. m.new <= provider'[b]
      BY <1>2, <1>4, <1>5
    <3> QED BY <1>0, <1>1, <1>2, <1>4, <1>e, <1>6, <2>1, <3>1 DEF Shape, History, Locked
  <2>2. CASE q # r
    <3> DEFINE k == rf[q]
    <3>1. k \in Refr /\ Shape(k) /\ History(k) /\ Locked(q, k) /\ rf'[q] = k
      BY <1>0, <1>6, <2>2 DEF QueueInv
    <3> HIDE DEF k
    <3>2. k.pc = "store" => k.on \in Accounts /\ k.new \in Nat /\ k.new <= provider[k.on]
      BY <3>1 DEF Shape, History, Refr
    <3>3. k.pc = "store" => k.new <= provider'[k.on]
      BY <1>g, <3>2
    <3> QED BY <1>1, <3>1, <3>3 DEF Shape, History, Locked
  <2> QED BY <2>1, <2>2
<1>9. \A a \in Accounts : (token[a].tok <= provider[a])'
  <2> SUFFICES ASSUME NEW a \in Accounts PROVE (token[a].tok <= provider[a])'
    OBVIOUS
  <2>1. token[a].tok \in Nat /\ token[a].tok <= provider[a]
    BY <1>0 DEF RowOf
  <2> QED BY <1>1, <1>g, <2>1
<1>10. InOnePlace'
  <2> SUFFICES ASSUME NEW a \in pending' \ forgotten', due'[a] = "no"
      PROVE  \E q \in Refreshers : Answers(rf[q], a)'
    BY DEF InOnePlace
  <2>1. PICK q \in Refreshers : Answers(rf[q], a)
    BY <1>1 DEF QueueInv, InOnePlace
  <2>2. CASE q = r
    <3>1. Answers(l, a)
      BY <2>1, <2>2 DEF l
    <3>2. a \in m.got \/ a = m.on
      BY <1>4, <3>1 DEF Answers, b
    <3> QED BY <1>1, <1>4, <1>6, <3>2 DEF Answers, Stale
  <2>3. CASE q # r
    BY <1>1, <1>6, <2>1, <2>3 DEF Answers, Stale
  <2> QED BY <2>2, <2>3
<1>11. Kept'
  <2> SUFFICES ASSUME NEW a \in Accounts \ lost', (token[a].tok # provider[a])'
      PROVE  \E q \in Refreshers : Holder(rf[q], a)'
    BY DEF Kept
  <2>1. CASE a = b
    BY <1>1, <1>4, <1>5, <1>6, <2>1 DEF Holder
  <2>2. CASE a # b
    <3>1. PICK q \in Refreshers : Holder(rf[q], a)
      BY <1>1, <1>5, <2>2 DEF QueueInv, Kept
    <3>2. q # r
      BY <1>1, <3>1 DEF Holder, l
    <3> QED BY <1>1, <1>5, <1>6, <2>2, <3>1, <3>2 DEF Holder
  <2> QED BY <2>1, <2>2
<1> QED BY <1>7, <1>8, <1>9, <1>10, <1>11 DEF QueueInv

\* A store that succeeds puts the newest token in the row: two refreshers that
\* read the same row hold the same successor of its token.
LEMMA StoreStep ==
  ASSUME QueueInv, NEW r \in Refreshers, Queue!Store(r), Queue!Swaps(r)
  PROVE  QueueInv'
<1> DEFINE l == rf[r]
           b == l.on
           n == [tok |-> l.new, rev |-> l.read.rev + 1]
           m == [l EXCEPT !.pc = "work", !.on = NoAccount, !.sure = @ \ {l.on}]
<1>0. /\ l \in Refr /\ Shape(l) /\ History(l) /\ Locked(r, l)
      /\ rf \in [Refreshers -> Refr] /\ token \in [Accounts -> RowOf] /\ provider \in [Accounts -> Nat]
      /\ \A a \in Accounts : token[a].tok <= provider[a]
  BY DEF QueueInv, QueueTyped
<1>1. /\ l.pc = "store" /\ token[b].rev = l.read.rev /\ rf' = [rf EXCEPT ![r] = m]
      /\ token' = [token EXCEPT ![b] = n] /\ pending' = pending \ {b}
      /\ UNCHANGED <<due, lock, provider, forgotten, lost>>
  BY <1>0 DEF Queue!Store, Queue!Swaps, Queue!Next1
<1> HIDE DEF l
<1>2. b \in Accounts /\ provider[b] \in Nat /\ token[b] \in RowOf /\ l.read \in RowOf /\ l.new \in Nat
  BY <1>0, <1>1 DEF Shape, Refr
<1>3. l.read = token[b] /\ l.new = token[b].tok + 1 /\ l.new <= provider[b]
  BY <1>0, <1>1, <1>2 DEF History, RowOf
<1>4. m \in Refr /\ m.pc = "work" /\ m.on = NoAccount /\ m.got = l.got /\ m.sure \subseteq l.sure
  BY <1>0 DEF Refr
<1> HIDE DEF m
<1>5. n \in RowOf /\ n.tok = token[b].tok + 1 /\ n.rev = token[b].rev + 1
  BY <1>2, <1>3 DEF RowOf
<1> HIDE DEF n
<1>6. token' \in [Accounts -> RowOf] /\ token'[b] = n /\ \A a \in Accounts \ {b} : token'[a] = token[a]
  BY <1>0, <1>1, <1>2, <1>5
<1>7. rf' \in [Refreshers -> Refr] /\ rf'[r] = m /\ \A q \in Refreshers \ {r} : rf'[q] = rf[q]
  BY <1>0, <1>1, <1>4
<1>on. l.on = b
  OBVIOUS
<1> HIDE DEF b
<1>8. QueueTyped'
  BY <1>1, <1>6, <1>7 DEF QueueInv, QueueTyped
<1>9. ASSUME NEW q \in Refreshers PROVE (Shape(rf[q]) /\ History(rf[q]) /\ Locked(q, rf[q]))'
  <2>1. CASE q = r
    <3>1. m.sure \subseteq Accounts
      BY <1>4 DEF Refr
    <3> QED BY <1>0, <1>1, <1>4, <1>7, <2>1, <3>1 DEF Shape, History, Locked
  <2>2. CASE q # r
    <3> DEFINE k == rf[q]
    <3>1. k \in Refr /\ Shape(k) /\ History(k) /\ Locked(q, k) /\ rf'[q] = k
      BY <1>0, <1>7, <2>2 DEF QueueInv
    <3> HIDE DEF k
    <3>2. CASE k.pc \in {"exchange", "store"} /\ k.on = b
      <4>1. k.read \in RowOf /\ (k.read = token[b] \/ (k.read.rev < token[b].rev /\ k.read.tok < token[b].tok))
        BY <3>1, <3>2 DEF History, Refr
      <4>2. k.read.rev < n.rev /\ k.read.tok < n.tok
        BY <1>2, <1>5, <4>1 DEF RowOf
      <4> QED BY <1>1, <1>6, <3>1, <3>2, <4>2 DEF Shape, History, Locked
    <3>3. CASE k.pc \in {"exchange", "store"} /\ k.on # b
      <4>1. k.on \in Accounts /\ token'[k.on] = token[k.on]
        BY <1>6, <3>1, <3>3 DEF Shape
      <4> QED BY <1>1, <3>1, <4>1 DEF Shape, History, Locked
    <3>4. CASE k.pc \notin {"exchange", "store"}
      BY <1>1, <3>1, <3>4 DEF Shape, History, Locked
    <3> QED BY <3>2, <3>3, <3>4
  <2> QED BY <2>1, <2>2
<1>10. \A a \in Accounts : (token[a].tok <= provider[a])'
  BY <1>0, <1>1, <1>3, <1>5, <1>6
<1>11. InOnePlace'
  <2> SUFFICES ASSUME NEW a \in pending' \ forgotten', due'[a] = "no"
      PROVE  \E q \in Refreshers : Answers(rf[q], a)'
    BY DEF InOnePlace
  <2>0. a # b /\ a \in Accounts /\ token'[a] = token[a]
    BY <1>1, <1>6 DEF QueueInv, QueueTyped
  <2>1. PICK q \in Refreshers : Answers(rf[q], a)
    BY <1>1 DEF QueueInv, InOnePlace
  <2>2. CASE q = r
    <3>1. Answers(l, a)
      BY <2>1, <2>2 DEF l
    <3>2. a \in m.got
      BY <1>4, <1>on, <2>0, <3>1 DEF Answers
    <3> QED BY <1>4, <1>7, <3>2 DEF Answers, Stale
  <2>3. CASE q # r
    BY <1>1, <1>7, <2>0, <2>1, <2>3 DEF Answers, Stale
  <2> QED BY <2>2, <2>3
<1>12. Kept'
  <2> SUFFICES ASSUME NEW a \in Accounts \ lost', (token[a].tok # provider[a])'
      PROVE  \E q \in Refreshers : Holder(rf[q], a)'
    BY DEF Kept
  <2>1. CASE a = b
    <3>1. token[b].tok # provider[b]
      BY <1>2, <1>3 DEF RowOf
    <3>2. PICK q \in Refreshers : Holder(rf[q], b)
      BY <1>1, <2>1, <3>1 DEF QueueInv, Kept
    <3>3. rf[q] \in Refr /\ History(rf[q])
      BY <1>0 DEF QueueInv
    <3>4. rf[q].read = token[b] /\ rf[q].new = token[b].tok + 1
      BY <1>2, <3>2, <3>3 DEF Holder, History, Refr, RowOf
    <3> QED BY <1>1, <1>5, <1>6, <2>1, <3>2, <3>4 DEF Holder
  <2>2. CASE a # b
    <3>1. PICK q \in Refreshers : Holder(rf[q], a)
      BY <1>1, <1>6, <2>2 DEF QueueInv, Kept
    <3>2. q # r
      BY <1>on, <2>2, <3>1 DEF Holder, l
    <3> QED BY <1>1, <1>6, <1>7, <2>2, <3>1, <3>2 DEF Holder
  <2> QED BY <2>1, <2>2
<1> QED BY <1>8, <1>9, <1>10, <1>11, <1>12 DEF QueueInv

\* Credentials imported anew leave every refresher of the account with an older row.
LEMMA ImportStep ==
  ASSUME QueueInv, NEW b \in Accounts, Queue!Import(b)
  PROVE  QueueInv'
<1> DEFINE n == [tok |-> provider[b] + 1, rev |-> token[b].rev + 1]
<1>0. /\ rf \in [Refreshers -> Refr] /\ token \in [Accounts -> RowOf] /\ provider \in [Accounts -> Nat]
      /\ token[b] \in RowOf /\ provider[b] \in Nat
      /\ \A a \in Accounts : token[a].tok <= provider[a]
  BY DEF QueueInv, QueueTyped
<1>1. /\ provider' = [provider EXCEPT ![b] = @ + 1] /\ token' = [token EXCEPT ![b] = n]
      /\ lost' = lost \ {b} /\ pending' = pending \ {b}
      /\ UNCHANGED <<due, lock, rf, forgotten>>
  BY <1>0 DEF Queue!Import
<1>2. n \in RowOf /\ n.tok = provider[b] + 1 /\ n.rev = token[b].rev + 1
      /\ token[b].tok < n.tok /\ token[b].rev < n.rev
  BY <1>0 DEF RowOf
<1> HIDE DEF n
<1>3. token' \in [Accounts -> RowOf] /\ token'[b] = n /\ \A a \in Accounts \ {b} : token'[a] = token[a]
  BY <1>0, <1>1, <1>2
<1>4. /\ provider' \in [Accounts -> Nat] /\ provider'[b] = provider[b] + 1
      /\ \A a \in Accounts \ {b} : provider'[a] = provider[a]
  BY <1>0, <1>1
<1>5. \A a \in Accounts : provider[a] \in Nat /\ provider'[a] \in Nat /\ provider[a] <= provider'[a]
  BY <1>0, <1>4
<1>6. QueueTyped'
  BY <1>1, <1>3, <1>4 DEF QueueInv, QueueTyped
<1>7. ASSUME NEW q \in Refreshers PROVE (Shape(rf[q]) /\ History(rf[q]) /\ Locked(q, rf[q]))'
  <2> DEFINE k == rf[q]
  <2>1. k \in Refr /\ Shape(k) /\ History(k) /\ Locked(q, k) /\ rf'[q] = k
    BY <1>0, <1>1 DEF QueueInv
  <2> HIDE DEF k
  <2>2. k.pc = "store" => k.on \in Accounts /\ k.new \in Nat /\ k.new = k.read.tok + 1 /\ k.new <= provider'[k.on]
    BY <1>5, <2>1 DEF Shape, History, Refr
  <2>3. CASE k.pc \in {"exchange", "store"} /\ k.on = b
    <3>1. k.read \in RowOf /\ (k.read = token[b] \/ (k.read.rev < token[b].rev /\ k.read.tok < token[b].tok))
      BY <2>1, <2>3 DEF History, Refr
    <3>2. k.read.rev < n.rev /\ k.read.tok < n.tok
      BY <1>0, <1>2, <3>1 DEF RowOf
    <3> QED BY <1>1, <1>3, <2>1, <2>2, <2>3, <3>2 DEF Shape, History, Locked
  <2>4. CASE k.pc \in {"exchange", "store"} /\ k.on # b
    <3>1. k.on \in Accounts /\ token'[k.on] = token[k.on]
      BY <1>3, <2>1, <2>4 DEF Shape
    <3> QED BY <1>1, <2>1, <2>2, <3>1 DEF Shape, History, Locked
  <2>5. CASE k.pc \notin {"exchange", "store"}
    BY <1>1, <2>1, <2>5 DEF Shape, History, Locked
  <2> QED BY <2>3, <2>4, <2>5
<1>8. \A a \in Accounts : (token[a].tok <= provider[a])'
  BY <1>0, <1>2, <1>3, <1>4
<1>9. InOnePlace'
  <2> SUFFICES ASSUME NEW a \in pending' \ forgotten', due'[a] = "no"
      PROVE  \E q \in Refreshers : Answers(rf[q], a)'
    BY DEF InOnePlace
  <2>1. a # b /\ a \in Accounts /\ token'[a] = token[a]
    BY <1>1, <1>3 DEF QueueInv, QueueTyped
  <2>2. PICK q \in Refreshers : Answers(rf[q], a)
    BY <1>1 DEF QueueInv, InOnePlace
  <2> QED BY <1>1, <2>1, <2>2 DEF Answers, Stale
<1>10. Kept'
  <2> SUFFICES ASSUME NEW a \in Accounts \ lost', (token[a].tok # provider[a])'
      PROVE  \E q \in Refreshers : Holder(rf[q], a)'
    BY DEF Kept
  <2>1. a # b
    BY <1>2, <1>3, <1>4
  <2>2. PICK q \in Refreshers : Holder(rf[q], a)
    BY <1>1, <1>3, <1>4, <2>1 DEF QueueInv, Kept
  <2> QED BY <1>1, <1>3, <1>4, <2>1, <2>2 DEF Holder
<1> QED BY <1>6, <1>7, <1>8, <1>9, <1>10 DEF QueueInv

\* A lock that runs out is nobody's, and no refresher takes it for its own after.
LEMMA LapseStep ==
  ASSUME QueueInv, NEW b \in Accounts, Queue!LockLapses(b)
  PROVE  QueueInv'
<1>0. rf \in [Refreshers -> Refr] /\ lock \in [Accounts -> Refreshers \cup {NoRefresher}]
  BY DEF QueueInv, QueueTyped
<1>1. /\ lock' = [lock EXCEPT ![b] = NoRefresher]
      /\ rf' = [r \in Refreshers |-> [rf[r] EXCEPT !.sure = @ \ {b}]]
      /\ UNCHANGED <<due, token, provider, pending, forgotten, lost>>
  BY DEF Queue!LockLapses
<1>2. lock' \in [Accounts -> Refreshers \cup {NoRefresher}]
      /\ \A a \in Accounts \ {b} : lock'[a] = lock[a]
  BY <1>0, <1>1
<1>3. ASSUME NEW q \in Refreshers
      PROVE  /\ rf'[q] \in Refr /\ rf'[q].pc = rf[q].pc /\ rf'[q].on = rf[q].on /\ rf'[q].got = rf[q].got
             /\ rf'[q].read = rf[q].read /\ rf'[q].new = rf[q].new /\ rf'[q].sure = rf[q].sure \ {b}
  <2> DEFINE k == rf[q]
             m == [k EXCEPT !.sure = @ \ {b}]
  <2>1. rf'[q] = m /\ k \in Refr
    BY <1>0, <1>1
  <2> HIDE DEF k
  <2>2. m \in Refr /\ m.pc = k.pc /\ m.on = k.on /\ m.got = k.got /\ m.read = k.read /\ m.new = k.new
        /\ m.sure = k.sure \ {b}
    BY <2>1 DEF Refr
  <2> QED BY <2>1, <2>2 DEF k
<1>4. QueueTyped'
  <2>1. rf' \in [Refreshers -> Refr]
    BY <1>1, <1>3
  <2> QED BY <1>1, <1>2, <2>1 DEF QueueInv, QueueTyped
<1>5. ASSUME NEW q \in Refreshers PROVE (Shape(rf[q]) /\ History(rf[q]) /\ Locked(q, rf[q]))'
  <2>1. Shape(rf[q]) /\ History(rf[q]) /\ Locked(q, rf[q]) /\ rf[q].sure \subseteq Accounts
    BY <1>0 DEF QueueInv, Refr
  <2> QED BY <1>1, <1>2, <1>3, <2>1 DEF Shape, History, Locked
<1>6. \A a \in Accounts : (token[a].tok <= provider[a])'
  BY <1>1 DEF QueueInv
<1>7. InOnePlace'
  <2> SUFFICES ASSUME NEW a \in pending' \ forgotten', due'[a] = "no"
      PROVE  \E q \in Refreshers : Answers(rf[q], a)'
    BY DEF InOnePlace
  <2>1. PICK q \in Refreshers : Answers(rf[q], a)
    BY <1>1 DEF QueueInv, InOnePlace
  <2> QED BY <1>1, <1>3, <2>1 DEF Answers, Stale
<1>8. Kept'
  <2> SUFFICES ASSUME NEW a \in Accounts \ lost', (token[a].tok # provider[a])'
      PROVE  \E q \in Refreshers : Holder(rf[q], a)'
    BY DEF Kept
  <2>1. PICK q \in Refreshers : Holder(rf[q], a)
    BY <1>1 DEF QueueInv, Kept
  <2> QED BY <1>1, <1>3, <2>1 DEF Holder
<1> QED BY <1>4, <1>5, <1>6, <1>7, <1>8 DEF QueueInv

LEMMA ComesDueStep ==
  ASSUME QueueInv, NEW b \in Accounts, Queue!ComesDue(b)
  PROVE  QueueInv'
<1>1. due' = [due EXCEPT ![b] = "now"] /\ UNCHANGED <<lock, token, provider, rf, pending, forgotten, lost>>
  BY DEF Queue!ComesDue
<1>2. due' \in [Accounts -> {"no", "later", "now"}] /\ \A a \in Accounts : due'[a] = "no" => due[a] = "no"
  BY <1>1 DEF QueueInv, QueueTyped
<1>3. QueueTyped'
  BY <1>1, <1>2 DEF QueueInv, QueueTyped
<1>4. InOnePlace'
  <2>1. pending \subseteq Accounts
    BY DEF QueueInv, QueueTyped
  <2> QED BY <1>1, <1>2, <2>1 DEF QueueInv, InOnePlace, Answers, Stale
<1>5. Kept'
  BY <1>1 DEF QueueInv, Kept, Holder
<1> QED BY <1>1, <1>3, <1>4, <1>5 DEF QueueInv, Shape, History, Locked

LEMMA QueueStep ==
  ASSUME QueueInv, [Queue!Next]_queueVars
  PROVE  QueueInv'
<1>1. CASE UNCHANGED queueVars
  BY <1>1 DEF queueVars, QueueInv, QueueTyped, Shape, History, Locked, InOnePlace, Answers, Stale, Kept, Holder
<1>2. CASE Queue!Next
  <2>1. ASSUME NEW r \in Refreshers, Queue!Store(r) PROVE QueueInv'
    BY <2>1, RefresherStep, StoreStep
  <2>2. ASSUME NEW r \in Refreshers, NEW a \in Accounts,
               Queue!LockDue(r, a) \/ Queue!ReadRow(r, a) \/ Queue!ReadFails(r, a) \/ Queue!EnqueueExpiring(r, a)
        PROVE  QueueInv'
    BY <2>2, RefresherStep
  <2>3. ASSUME NEW r \in Refreshers, NEW ids \in SUBSET Accounts, Queue!ClaimMemory(r, ids) PROVE QueueInv'
    BY <2>3, RefresherStep
  <2>4. ASSUME NEW r \in Refreshers,
               \/ Queue!ReadDue(r) \/ Queue!RemoveDue(r) \/ Queue!ClaimEnds(r) \/ Queue!BatchEnds(r)
               \/ Queue!ExchangeFails(r) \/ Queue!Requeue(r) \/ Queue!StoreFails(r) \/ Queue!Crash(r)
        PROVE  QueueInv'
    BY <2>4, RefresherStep
  <2>5. ASSUME NEW a \in Accounts, Queue!ComesDue(a) \/ Queue!LockLapses(a) \/ Queue!Import(a)
        PROVE  QueueInv'
    BY <2>5, ComesDueStep, LapseStep, ImportStep
  <2> QED BY <1>2, <2>1, <2>2, <2>3, <2>4, <2>5, ExchangeStep DEF Queue!Next
<1> QED BY <1>1, <1>2

LEMMA QueueInitially == Init => QueueInv
<1> SUFFICES ASSUME Init PROVE QueueInv
  OBVIOUS
<1>1. /\ due = [a \in Accounts |-> "now"] /\ lock = [a \in Accounts |-> NoRefresher]
      /\ token = [a \in Accounts |-> [tok |-> 0, rev |-> 1]] /\ provider = [a \in Accounts |-> 0]
      /\ rf = [r \in Refreshers |-> Queue!Idle]
      /\ pending = Accounts /\ forgotten = {} /\ lost = {}
  BY DEF Init, Queue!Init
<1>2. Queue!Idle \in Refr /\ Queue!Idle.pc = "idle" /\ Queue!Idle.sure = {} /\ Shape(Queue!Idle)
      /\ History(Queue!Idle)
  BY DEF Queue!Idle, Refr, RowOf, Shape, History
<1>3. QueueTyped
  BY <1>1, <1>2 DEF QueueTyped, RowOf
<1>4. InOnePlace /\ Kept /\ \A a \in Accounts : token[a].tok <= provider[a]
  BY <1>1 DEF InOnePlace, Kept
<1> QED BY <1>1, <1>2, <1>3, <1>4 DEF QueueInv, Locked

LEMMA QueueAlways == Spec => []QueueInv
<1>1. QueueInv /\ [Next]_vars => QueueInv'
  <2> SUFFICES ASSUME QueueInv, [Next]_vars PROVE QueueInv'
    OBVIOUS
  <2>1. [Queue!Next]_queueVars
    BY DEF Next, vars, queueVars
  <2> QED BY <2>1, QueueStep
<1> QED BY <1>1, QueueInitially, PTL DEF Spec

\* A token the provider rotated is in the row of its account or with the one
\* refresher whose compare-and-swap puts it there, whatever refreshers, locks
\* that run out and imports come between (refreshOne, UpdateTokens).
THEOREM TokenAlwaysKept == Spec => []TokenKept
<1>1. QueueInv => TokenKept
  BY DEF QueueInv, Kept, Holder, TokenKept, Queue!TokenKept, Queue!Swaps
<1> QED BY <1>1, QueueAlways, PTL

\* A due account that was not renewed is queued or claimed unless a crash or a
\* failed store came between, and two refreshers have one account only after
\* the lock of one ran out (ClaimRefreshDue, refreshOne).
THEOREM DueAlwaysInOnePlace == Spec => []DueInOnePlace
<1>1. QueueInv => DueInOnePlace
  <2> SUFFICES ASSUME QueueInv PROVE DueInOnePlace
    OBVIOUS
  <2>1. Queue!NoneForgotten
    <3> SUFFICES ASSUME NEW a \in pending \ forgotten, due[a] = "no"
        PROVE  \E r \in Refreshers : a \in Queue!Claimed(r)
      BY DEF Queue!NoneForgotten
    <3>1. PICK r \in Refreshers : Answers(rf[r], a)
      BY DEF QueueInv, InOnePlace
    <3>2. a # NoAccount
      BY ClusterAssumption DEF QueueInv, QueueTyped
    <3> QED BY <3>1, <3>2 DEF Answers, Queue!Claimed
  <2>2. Queue!ExchangesSerial
    <3> SUFFICES ASSUME NEW q \in Refreshers, NEW r \in Refreshers, q # r,
                        NEW a \in rf[q].sure \cap rf[r].sure
        PROVE  FALSE
      BY DEF Queue!ExchangesSerial
    <3> QED BY DEF QueueInv, Locked
  <2> QED BY <2>1, <2>2 DEF DueInOnePlace
<1> QED BY <1>1, QueueAlways, PTL
=============================================================================
