-------------------------- MODULE QuotaGate_proofs --------------------------
(* Proofs about QuotaGate, for any number of tokens and requests.           *)
EXTENDS QuotaGate, FiniteSetTheorems, TLAPS

-----------------------------------------------------------------------------
(* Types.                                                                  *)

Row == [listed : BOOLEAN, enabled : BOOLEAN, expired : BOOLEAN,
        unlimited : BOOLEAN, remain : Nat, used : Nat, count : Nat, max : Nat]

LEMMA TypeInit == Init => TypeOK
  BY LimitsAssumption, TokensAssumption DEF Init, TypeOK, NoWindow, Sections

\* The writes of a row.
LEMMA SettledTyped ==
  ASSUME NEW row \in Row, NEW c \in Nat \ {0}
  PROVE  Settled(row, c) \in Row
<1> DEFINE left == IF row.unlimited THEN row.remain
                   ELSE IF c - 1 <= row.remain THEN row.remain - (c - 1) ELSE 0
<1>1. left \in Nat /\ row.used + c \in Nat /\ row.count + 1 \in Nat
  BY DEF Row
<1>2. Settled(row, c) = [row EXCEPT !.used = row.used + c, !.count = row.count + 1, !.remain = left]
  BY DEF Settled
<1> HIDE DEF left
<1> QED
  BY <1>1, <1>2 DEF Row

LEMMA RowWritten ==
  ASSUME NEW row \in Row
  PROVE  /\ \A n \in Nat : [row EXCEPT !.remain = n] \in Row
         /\ \A n \in Nat : [row EXCEPT !.max = n] \in Row
         /\ [row EXCEPT !.expired = ~row.expired] \in Row
         /\ [row EXCEPT !.enabled = ~row.enabled] \in Row
         /\ [row EXCEPT !.unlimited = ~row.unlimited] \in Row
         /\ [row EXCEPT !.listed = FALSE] \in Row
<1>1. \A n \in Nat : [row EXCEPT !.remain = n] \in Row
  BY DEF Row
<1>2. \A n \in Nat : [row EXCEPT !.max = n] \in Row
  BY DEF Row
<1>3. \A b \in BOOLEAN : [row EXCEPT !.expired = b] \in Row
  BY DEF Row
<1>4. \A b \in BOOLEAN : [row EXCEPT !.enabled = b] \in Row
  BY DEF Row
<1>5. \A b \in BOOLEAN : [row EXCEPT !.unlimited = b] \in Row
  BY DEF Row
<1>6. [row EXCEPT !.listed = FALSE] \in Row
  BY DEF Row
<1> QED
  BY <1>1, <1>2, <1>3, <1>4, <1>5, <1>6

LEMMA TypeStep == TypeOK /\ [Next]_vars => TypeOK'
<1> SUFFICES ASSUME TypeOK, [Next]_vars PROVE TypeOK'
  OBVIOUS
<1> USE DEF storevars, gatevars, reqvars, Goto
<1>0. \A t \in Tokens : tok[t] \in Row /\ win[t] \in [open : BOOLEAN, start : Nat, count : Nat]
  BY DEF TypeOK, Row
<1>1. ASSUME NEW r \in Requests, NEW t \in Tokens, Enter(r, t) PROVE TypeOK'
  <2>1. /\ limiter' = [limiter EXCEPT !.inUse = @ + 1] /\ pc' = [pc EXCEPT ![r] = "auth"]
        /\ tid' = [tid EXCEPT ![r] = t] /\ UNCHANGED <<now, storevars, gatevars, max, due, forfeited>>
    BY <1>1 DEF Enter
  <2>2. limiter' \in [limit : Nat, inUse : Nat]
    BY <2>1 DEF TypeOK
  <2>3. /\ pc' \in [Requests -> Sections] /\ tid' \in [Requests -> Tokens \cup {NoToken}]
        /\ \A q \in Requests : pc'[q] # "idle" => tid'[q] \in Tokens
    BY <2>1 DEF TypeOK, Sections
  <2> QED BY <2>1, <2>2, <2>3 DEF TypeOK
<1>2. ASSUME NEW r \in Requests, Authenticate(r) PROVE TypeOK'
  <2>1. tid[r] \in Tokens /\ tok[tid[r]].max \in Nat
    BY <1>0, <1>2 DEF Authenticate, TypeOK, Row
  <2> QED BY <1>2, <2>1 DEF Authenticate, TypeOK, Sections
<1>3. ASSUME NEW r \in Requests, AcquireSlot(r) PROVE TypeOK'
  <2>1. tid[r] \in Tokens
    BY <1>3 DEF AcquireSlot, TypeOK
  <2>2. Window(tid[r]) \in [open : BOOLEAN, start : Nat, count : Nat]
    BY <1>0, <2>1 DEF Window, TypeOK
  <2>3. win' \in [Tokens -> [open : BOOLEAN, start : Nat, count : Nat]]
    <3> DEFINE w == Window(tid[r])
               n == IF ~RateFull(r) /\ ~SlotsFull(r) THEN w.count + 1 ELSE w.count
    <3>1. win' = win \/ win' = [win EXCEPT ![tid[r]] = [w EXCEPT !.count = n]]
      BY <1>3 DEF AcquireSlot
    <3>2. n \in Nat
      BY <2>2
    <3>3. [w EXCEPT !.count = n] \in [open : BOOLEAN, start : Nat, count : Nat]
      <4> HIDE DEF n, w
      <4> QED BY <2>2, <3>2 DEF w
    <3> HIDE DEF w, n
    <3> QED BY <2>1, <3>1, <3>3 DEF TypeOK
  <2>4. inflight' \in [Tokens -> Nat] /\ pc' \in [Requests -> Sections]
    <3>1. \/ Goto(r, "reserve") /\ inflight' = [inflight EXCEPT ![tid[r]] = @ + 1]
          \/ Goto(r, "exit") /\ UNCHANGED inflight
      BY <1>3 DEF AcquireSlot
    <3>2. pc' \in [Requests -> Sections]
      BY <3>1 DEF TypeOK, Sections
    <3>3. inflight' \in [Tokens -> Nat]
      BY <2>1, <3>1 DEF TypeOK
    <3> QED BY <3>2, <3>3
  <2>5. \A q \in Requests : pc'[q] # "idle" => tid[q] \in Tokens
    BY <1>3, <2>1 DEF AcquireSlot, TypeOK
  <2> QED BY <1>3, <2>3, <2>4, <2>5 DEF AcquireSlot, TypeOK
<1>4. ASSUME NEW r \in Requests, ReserveQuota(r) PROVE TypeOK'
  <2>1. tid[r] \in Tokens
    BY <1>4 DEF ReserveQuota, TypeOK
  <2>2. tok' \in [Tokens -> Row]
    <3>1. CASE UNCHANGED tok
      BY <1>0, <3>1 DEF TypeOK, Row
    <3>2. CASE Reservable(tok[tid[r]]) /\ tok' = [tok EXCEPT ![tid[r]].remain =
                                          IF tok[tid[r]].unlimited THEN @ ELSE @ - 1]
      <4> DEFINE n == IF tok[tid[r]].unlimited THEN tok[tid[r]].remain ELSE tok[tid[r]].remain - 1
      <4>1. n \in Nat
        BY <1>0, <2>1, <3>2 DEF Reservable, Row
      <4>2. tok' = [tok EXCEPT ![tid[r]] = [tok[tid[r]] EXCEPT !.remain = n]]
        BY <3>2
      <4>3. [tok[tid[r]] EXCEPT !.remain = n] \in Row
        <5> HIDE DEF n
        <5> QED BY <1>0, <2>1, <4>1 DEF Row
      <4> HIDE DEF n
      <4> QED BY <1>0, <4>2, <4>3 DEF TypeOK, Row
    <3> QED BY <1>4, <3>1, <3>2 DEF ReserveQuota
  <2> QED BY <1>4, <2>1, <2>2 DEF ReserveQuota, TypeOK, Sections, Row
<1>5. ASSUME NEW r \in Requests, Respond(r) PROVE TypeOK'
  <2>1. /\ pc' \in [Requests -> Sections] /\ due' \in [Requests -> Nat]
        /\ forfeited' \in [Tokens -> Nat]
    <3>1. \/ Goto(r, "settle") /\ UNCHANGED forfeited /\ \E c \in Costs : due' = [due EXCEPT ![r] = c]
          \/ Goto(r, "refund") /\ UNCHANGED <<due, forfeited>>
          \/ Goto(r, "release") /\ UNCHANGED due /\ forfeited' = [forfeited EXCEPT ![tid[r]] = @ + 1]
      BY <1>5 DEF Respond
    <3> QED BY <3>1, CostsAssumption DEF TypeOK, Sections
  <2>2. \A q \in Requests : pc'[q] = "settle" => due'[q] > 0
    BY <1>5, CostsAssumption DEF Respond, TypeOK
  <2>3. \A q \in Requests : pc'[q] # "idle" => tid[q] \in Tokens
    BY <1>5 DEF Respond, TypeOK
  <2> QED BY <1>5, <2>1, <2>2, <2>3 DEF Respond, TypeOK
<1>6. ASSUME NEW r \in Requests, SettleUsage(r) PROVE TypeOK'
  <2>1. tid[r] \in Tokens /\ due[r] \in Nat \ {0}
    BY <1>6 DEF SettleUsage, TypeOK
  <2>2. Settled(tok[tid[r]], due[r]) \in Row
    BY <1>0, <2>1, SettledTyped
  <2>3. tok' \in [Tokens -> Row]
    BY <1>6, <1>0, <2>1, <2>2 DEF SettleUsage, TypeOK, Row
  <2> QED BY <1>6, <2>1, <2>3 DEF SettleUsage, TypeOK, Sections, Row
<1>7. ASSUME NEW r \in Requests, RefundQuota(r) PROVE TypeOK'
  <2>1. tid[r] \in Tokens
    BY <1>7 DEF RefundQuota, TypeOK
  <2>2. [tok[tid[r]] EXCEPT !.remain = tok[tid[r]].remain + 1] \in Row
    BY <1>0, <2>1, RowWritten DEF Row
  <2>3. tok' = tok \/ tok' = [tok EXCEPT ![tid[r]] = [tok[tid[r]] EXCEPT !.remain = tok[tid[r]].remain + 1]]
    BY <1>7 DEF RefundQuota
  <2>4. tok' \in [Tokens -> Row]
    BY <1>0, <2>1, <2>2, <2>3 DEF TypeOK, Row
  <2> QED BY <1>7, <2>1, <2>4 DEF RefundQuota, TypeOK, Sections, Row
<1>8. ASSUME NEW r \in Requests, ReleaseSlot(r) \/ Exit(r) PROVE TypeOK'
  <2>1. CASE ReleaseSlot(r)
    <3>1. tid[r] \in Tokens
      BY <2>1 DEF ReleaseSlot, TypeOK
    <3>2. inflight' \in [Tokens -> Nat]
      BY <2>1, <3>1 DEF ReleaseSlot, TypeOK
    <3> QED BY <2>1, <3>1, <3>2 DEF ReleaseSlot, TypeOK, Sections
  <2>2. CASE Exit(r)
    <3>1. limiter' \in [limit : Nat, inUse : Nat]
      <4>1. limiter.inUse \in Nat /\ limiter \in [limit : Nat, inUse : Nat]
        BY DEF TypeOK
      <4>2. (IF limiter.inUse > 0 THEN limiter.inUse - 1 ELSE 0) \in Nat
        BY <4>1
      <4>3. limiter' = [limiter EXCEPT !.inUse = IF limiter.inUse > 0 THEN limiter.inUse - 1 ELSE 0]
        BY <2>2 DEF Exit
      <4> QED BY <4>1, <4>2, <4>3
    <3> QED BY <2>2, <3>1 DEF Exit, TypeOK, Sections
  <2> QED BY <1>8, <2>1, <2>2
<1>9. ASSUME NEW t \in Tokens, NEW op \in AdminOps, Patch(t, op) PROVE TypeOK'
  <2>1. PICK row \in Row : tok' = [tok EXCEPT ![t] = row]
    <3>1. \/ tok' = [tok EXCEPT ![t] = [tok[t] EXCEPT !.expired = ~tok[t].expired]]
          \/ tok' = [tok EXCEPT ![t] = [tok[t] EXCEPT !.enabled = ~tok[t].enabled]]
          \/ tok' = [tok EXCEPT ![t] = [tok[t] EXCEPT !.unlimited = ~tok[t].unlimited]]
          \/ \E m \in Caps : tok' = [tok EXCEPT ![t] = [tok[t] EXCEPT !.max = m]]
      BY <1>9 DEF Patch
    <3> QED BY <1>0, <3>1, RowWritten, LimitsAssumption
  <2> QED BY <1>9, <2>1 DEF Patch, TypeOK, Row
<1>10. ASSUME NEW l \in Caps, SetLimit(l) PROVE TypeOK'
  BY <1>10, LimitsAssumption DEF SetLimit, TypeOK
<1>11. ASSUME NEW t \in Tokens, Delete(t) PROVE TypeOK'
  <2>1. [tok[t] EXCEPT !.listed = FALSE] \in Row
    BY <1>0, RowWritten
  <2> QED BY <1>11, <2>1 DEF Delete, TypeOK, Row
<1>12. CASE DropGate
  BY <1>12 DEF DropGate, TypeOK, NoWindow
<1>13. CASE Tick \/ UNCHANGED vars
  BY <1>13 DEF Tick, vars, TypeOK
<1> QED
  BY <1>1, <1>2, <1>3, <1>4, <1>5, <1>6, <1>7, <1>8, <1>9, <1>10, <1>11, <1>12, <1>13
     DEF Next, RequestStep, AdminStep

\* Every variable keeps to its type: no quota, count or slot goes below 0.
THEOREM TypeCorrect == Spec => []TypeOK
  BY TypeInit, TypeStep, PTL DEF Spec

-----------------------------------------------------------------------------
(* Slots.                                                                  *)

LEMMA HoldersFinite ==
  \A t : /\ IsFiniteSet(Holders(t)) /\ Cardinality(Holders(t)) \in Nat
         /\ IsFiniteSet(Reserved(t)) /\ Cardinality(Reserved(t)) \in Nat
<1>1. \A t : Holders(t) \subseteq Requests /\ Reserved(t) \subseteq Requests
  BY DEF Holders, Reserved
<1> QED
  BY <1>1, RequestsAssumption, FS_Subset, FS_CardinalityType

\* Only Delete touches listed, and it never lists a token.
LEMMA ListedKept ==
  ASSUME TypeOK, [Next]_vars, NEW t \in Tokens, tok'[t].listed
  PROVE  tok[t].listed
<1> USE DEF TypeOK, storevars, gatevars, reqvars
<1>1. CASE UNCHANGED tok
  BY <1>1
<1>2. ASSUME NEW r \in Requests, ReserveQuota(r) \/ SettleUsage(r) \/ RefundQuota(r) PROVE tok[t].listed
  <2>1. \A row \in Row : \A c : Settled(row, c).listed = row.listed
    BY DEF Settled, Row
  <2>2. \A u \in Tokens : tok[u] \in Row
    BY DEF Row
  <2>3. CASE SettleUsage(r)
    <3>1. tok' = tok \/ tok' = [tok EXCEPT ![tid[r]] = Settled(tok[tid[r]], due[r])]
      BY <2>3 DEF SettleUsage
    <3>2. CASE tok' = tok
      BY <3>2
    <3>3. CASE tok' = [tok EXCEPT ![tid[r]] = Settled(tok[tid[r]], due[r])]
      <4>1. CASE t = tid[r]
        BY <2>1, <2>2, <3>3, <4>1
      <4>2. CASE t # tid[r]
        BY <3>3, <4>2
      <4> QED BY <4>1, <4>2
    <3> QED BY <3>1, <3>2, <3>3
  <2>4. \A n : [tok EXCEPT ![tid[r]].remain = n][t].listed = tok[t].listed
    BY <2>2 DEF Row
  <2>5. tok' = tok \/ SettleUsage(r) \/ \E n : tok' = [tok EXCEPT ![tid[r]].remain = n]
    BY <1>2 DEF ReserveQuota, RefundQuota
  <2> QED BY <2>3, <2>4, <2>5
<1>3. ASSUME NEW u \in Tokens, NEW op \in AdminOps, Patch(u, op) PROVE tok[t].listed
  BY <1>3 DEF Patch
<1>4. ASSUME NEW u \in Tokens, Delete(u) PROVE tok[t].listed
  BY <1>4 DEF Delete
<1> QED
  BY <1>1, <1>2, <1>3, <1>4
     DEF Next, RequestStep, AdminStep, Enter, Authenticate, AcquireSlot, Respond, ReleaseSlot, Exit,
         SetLimit, DropGate, Tick, vars

SlotInv == SlotsExact /\ (dropping # NoToken => ~tok[dropping].listed)

\* A step after which the same requests hold slots of every listed token.
LEMMA SlotsKept ==
  ASSUME TypeOK, SlotsExact, [Next]_vars, UNCHANGED inflight,
         \A q \in Requests : /\ pc'[q] \in Holding <=> pc[q] \in Holding
                             /\ pc[q] \in Holding => tid'[q] = tid[q]
  PROVE  SlotsExact'
<1>1. \A t \in Tokens : Holders(t)' = Holders(t)
  BY DEF Holders
<1> QED
  BY <1>1, ListedKept DEF SlotsExact

LEMMA SlotStep == TypeOK /\ SlotInv /\ [Next]_vars => SlotInv'
<1> SUFFICES ASSUME TypeOK, SlotInv, [Next]_vars PROVE SlotInv'
  OBVIOUS
<1> USE DEF storevars, gatevars, reqvars
<1>1. dropping' # NoToken => ~tok'[dropping'].listed
  <2>1. dropping' = dropping \/ dropping' = NoToken \/ \E t \in Tokens : Delete(t)
    BY DEF Next, vars, RequestStep, AdminStep, Enter, Authenticate, AcquireSlot, ReserveQuota, Respond,
           SettleUsage, RefundQuota, ReleaseSlot, Exit, Patch, SetLimit, DropGate, Tick
  <2>2. ASSUME NEW t \in Tokens, Delete(t) PROVE ~tok'[dropping'].listed
    BY <2>2 DEF Delete, TypeOK
  <2>3. CASE dropping' = dropping
    BY <2>3, ListedKept DEF SlotInv, TypeOK
  <2> QED BY <2>1, <2>2, <2>3
<1>2. SlotsExact'
  <2>1. ASSUME NEW r \in Requests, AcquireSlot(r) PROVE SlotsExact'
    <3>1. CASE Goto(r, "exit") /\ UNCHANGED inflight
      BY <2>1, <3>1, SlotsKept DEF AcquireSlot, SlotInv, Goto, TypeOK, Holding
    <3>2. CASE Goto(r, "reserve") /\ inflight' = [inflight EXCEPT ![tid[r]] = @ + 1]
      <4>1. /\ \A t \in Tokens \ {tid[r]} : Holders(t)' = Holders(t)
            /\ r \notin Holders(tid[r])
            /\ \A t : t = tid[r] => Holders(t)' = Holders(t) \cup {r}
        BY <2>1, <3>2 DEF AcquireSlot, Holders, Goto, TypeOK, Holding
      <4>2. \A t : t = tid[r] => Cardinality(Holders(t)') = Cardinality(Holders(t)) + 1
        BY <4>1, HoldersFinite, FS_AddElement
      <4>3. tok' = tok
        BY <2>1 DEF AcquireSlot
      <4> QED BY <3>2, <4>1, <4>2, <4>3 DEF SlotInv, SlotsExact, TypeOK
    <3> QED BY <2>1, <3>1, <3>2 DEF AcquireSlot
  <2>2. ASSUME NEW r \in Requests, ReleaseSlot(r) PROVE SlotsExact'
    <3>1. /\ \A t \in Tokens \ {tid[r]} : Holders(t)' = Holders(t)
          /\ r \in Holders(tid[r])
          /\ \A t : t = tid[r] => Holders(t)' = Holders(t) \ {r}
      BY <2>2 DEF ReleaseSlot, Holders, Goto, TypeOK, Holding
    <3>2. \A t : t = tid[r] => /\ Cardinality(Holders(t)') = Cardinality(Holders(t)) - 1
                               /\ Cardinality(Holders(t)) > 0
      BY <3>1, HoldersFinite, FS_RemoveElement, FS_EmptySet
    <3>3. tok' = tok /\ inflight' = [inflight EXCEPT ![tid[r]] = IF @ > 0 THEN @ - 1 ELSE 0]
      BY <2>2 DEF ReleaseSlot
    <3> QED BY <3>1, <3>2, <3>3 DEF SlotInv, SlotsExact, TypeOK
  <2>3. CASE DropGate
    <3>1. \A t : Holders(t)' = Holders(t)
      BY <2>3 DEF DropGate, Holders
    <3> QED BY <2>3, <3>1 DEF DropGate, SlotInv, SlotsExact, TypeOK
  <2>4. ASSUME NEW r \in Requests, NEW t \in Tokens, Enter(r, t) PROVE SlotsExact'
    BY <2>4, SlotsKept DEF Enter, SlotInv, Goto, TypeOK, Holding
  <2>5. ASSUME NEW r \in Requests, Authenticate(r) \/ Exit(r) PROVE SlotsExact'
    BY <2>5, SlotsKept DEF Authenticate, Exit, SlotInv, Goto, TypeOK, Holding
  <2>6. ASSUME NEW r \in Requests,
               ReserveQuota(r) \/ Respond(r) \/ SettleUsage(r) \/ RefundQuota(r)
        PROVE  SlotsExact'
    BY <2>6, SlotsKept DEF ReserveQuota, Respond, SettleUsage, RefundQuota, SlotInv, Goto, TypeOK, Holding
  <2>7. CASE UNCHANGED <<pc, tid, inflight>>
    BY <2>7, SlotsKept DEF SlotInv
  <2> QED
    BY <2>1, <2>2, <2>3, <2>4, <2>5, <2>6, <2>7
       DEF Next, RequestStep, AdminStep, Patch, SetLimit, Delete, Tick, vars
<1> QED
  BY <1>1, <1>2 DEF SlotInv

\* The count a token's limit is tested against is always the number of
\* requests that hold a slot of it.
THEOREM SlotsAlwaysExact == Spec => []SlotsExact
<1>1. Init => SlotInv
  <2>1. Init => \A t : Holders(t) = {}
    BY DEF Init, Holders, Holding
  <2> QED BY <2>1, FS_EmptySet DEF Init, SlotInv, SlotsExact
<1>2. SlotInv => SlotsExact
  BY DEF SlotInv
<1> QED
  BY <1>1, <1>2, SlotStep, TypeCorrect, PTL DEF Spec


-----------------------------------------------------------------------------
(* Quota.  A limited token's grant is split, at any time, into what was     *)
(* served, what requests under way hold, what was lost and what is left.    *)

Balanced(t) ==
    /\ ~tok[t].unlimited
    /\ tok[t].count + Cardinality(Reserved(t)) + forfeited[t] + tok[t].remain <= Grant
    /\ tok[t].used + Cardinality(Reserved(t)) + forfeited[t] + tok[t].remain >= Grant

LedgerInv == \A t \in Tokens : Balanced(t)

\* The request that leaves the reserved ones for release.
LEMMA UnitReturned ==
  ASSUME TypeOK, NEW r \in Requests, pc[r] \in {"serve", "settle", "refund"}, Goto(r, "release"),
         UNCHANGED tid, NEW t \in Tokens
  PROVE  /\ t # tid[r] => Reserved(t)' = Reserved(t)
         /\ t = tid[r] => /\ Cardinality(Reserved(t)') = Cardinality(Reserved(t)) - 1
                          /\ Cardinality(Reserved(t)') \in Nat
<1>1. t # tid[r] => Reserved(t)' = Reserved(t)
  BY DEF Reserved, Goto, TypeOK
<1>2. t = tid[r] => r \in Reserved(t) /\ Reserved(t)' = Reserved(t) \ {r}
  BY DEF Reserved, Goto, TypeOK
<1>3. t = tid[r] => /\ Cardinality(Reserved(t)') = Cardinality(Reserved(t)) - 1
                    /\ Cardinality(Reserved(t)') \in Nat
  BY <1>2, HoldersFinite, FS_RemoveElement, FS_CardinalityType
<1> QED
  BY <1>1, <1>3

\* A step that leaves the quota of every token and its reservations alone.
LEMMA BalanceKept ==
  ASSUME LedgerInv, UNCHANGED forfeited,
         \A t \in Tokens : /\ Reserved(t)' = Reserved(t)
                           /\ tok'[t].unlimited = tok[t].unlimited
                           /\ tok'[t].remain = tok[t].remain
                           /\ tok'[t].count = tok[t].count /\ tok'[t].used = tok[t].used
  PROVE  LedgerInv'
  BY DEF LedgerInv, Balanced

LEMMA RequestBalance ==
  ASSUME TypeOK, LedgerInv, NEW r \in Requests, RequestStep(r)
  PROVE  LedgerInv'
<1> USE DEF storevars, gatevars, reqvars
<1>0. \A t \in Tokens : tok[t] \in Row /\ forfeited[t] \in Nat /\ Balanced(t)
  BY DEF TypeOK, Row, LedgerInv
<1>1. ASSUME NEW t \in Tokens, Enter(r, t) PROVE LedgerInv'
  BY <1>1, BalanceKept DEF Enter, Reserved, Goto, TypeOK
<1>2. CASE Authenticate(r) \/ ReleaseSlot(r) \/ Exit(r)
  BY <1>2, BalanceKept DEF Authenticate, ReleaseSlot, Exit, Reserved, Goto, TypeOK
<1>3. CASE AcquireSlot(r)
  <2>1. pc[r] = "slot" /\ pc'[r] \in {"reserve", "exit"} /\ UNCHANGED <<tok, tid, forfeited>>
        /\ \A q \in Requests \ {r} : pc'[q] = pc[q]
    BY <1>3 DEF AcquireSlot, Goto, TypeOK
  <2> QED BY <2>1, BalanceKept DEF Reserved
<1>4. CASE ReserveQuota(r)
  <2>1. CASE Goto(r, "release") /\ UNCHANGED tok
    BY <1>4, <2>1, BalanceKept DEF ReserveQuota, Reserved, Goto, TypeOK
  <2>2. CASE /\ Reservable(tok[tid[r]]) /\ Goto(r, "serve")
             /\ tok' = [tok EXCEPT ![tid[r]].remain = IF tok[tid[r]].unlimited THEN @ ELSE @ - 1]
    <3>1. tid[r] \in Tokens
      BY <1>4 DEF ReserveQuota, TypeOK
    <3>2. /\ \A t \in Tokens \ {tid[r]} : Reserved(t)' = Reserved(t)
          /\ r \notin Reserved(tid[r])
          /\ \A t : t = tid[r] => Reserved(t)' = Reserved(t) \cup {r}
      BY <1>4, <2>2 DEF ReserveQuota, Reserved, Goto, TypeOK
    <3>3. \A t : t = tid[r] => Cardinality(Reserved(t)') = Cardinality(Reserved(t)) + 1
      BY <3>2, HoldersFinite, FS_AddElement
    <3>4. UNCHANGED forfeited
      BY <1>4 DEF ReserveQuota
    <3>5. /\ \A t \in Tokens \ {tid[r]} : tok'[t] = tok[t]
          /\ tok'[tid[r]] = [tok[tid[r]] EXCEPT !.remain = tok[tid[r]].remain - 1]
      BY <1>0, <2>2, <3>1 DEF Balanced, TypeOK
    <3>6. ASSUME NEW t \in Tokens PROVE Balanced(t)'
      <4>1. CASE t = tid[r]
        BY <1>0, <3>3, <3>4, <3>5, <4>1, HoldersFinite, LimitsAssumption DEF Balanced, Row
      <4>2. CASE t # tid[r]
        BY <1>0, <3>2, <3>4, <3>5, <4>2 DEF Balanced
      <4> QED BY <4>1, <4>2
    <3> QED BY <3>6 DEF LedgerInv
  <2> QED BY <1>4, <2>1, <2>2 DEF ReserveQuota
<1>5. CASE Respond(r)
  <2>1. CASE (Goto(r, "settle") \/ Goto(r, "refund")) /\ UNCHANGED forfeited
    BY <1>5, <2>1, BalanceKept DEF Respond, Reserved, Goto, TypeOK
  <2>2. CASE Goto(r, "release") /\ forfeited' = [forfeited EXCEPT ![tid[r]] = @ + 1]
    <3>1. pc[r] = "serve" /\ UNCHANGED <<tok, tid>> /\ tid[r] \in Tokens
      BY <1>5 DEF Respond, TypeOK
    <3>2. ASSUME NEW t \in Tokens PROVE Balanced(t)'
      BY <1>0, <2>2, <3>1, UnitReturned, HoldersFinite, LimitsAssumption DEF Balanced, Row, TypeOK
    <3> QED BY <3>2 DEF LedgerInv
  <2> QED BY <1>5, <2>1, <2>2 DEF Respond
<1>6. CASE SettleUsage(r) \/ RefundQuota(r)
  <2> DEFINE u == tid[r]
             live == tok[u].listed /\ tok[u].enabled
  <2>1. /\ u \in Tokens /\ pc[r] \in {"settle", "refund"} /\ Goto(r, "release") /\ UNCHANGED tid
        /\ pc[r] = "settle" => due[r] \in Nat \ {0}
    BY <1>6 DEF SettleUsage, RefundQuota, TypeOK
  <2>2. CASE UNCHANGED tok /\ forfeited' = [forfeited EXCEPT ![u] = @ + 1]
    <3>1. ASSUME NEW t \in Tokens PROVE Balanced(t)'
      BY <1>0, <2>1, <2>2, UnitReturned, HoldersFinite, LimitsAssumption DEF Balanced, Row, TypeOK
    <3> QED BY <3>1 DEF LedgerInv
  <2>3. CASE /\ UNCHANGED forfeited
             /\ \/ tok' = [tok EXCEPT ![u] = [tok[u] EXCEPT !.remain = tok[u].remain + 1]]
                \/ pc[r] = "settle" /\ tok' = [tok EXCEPT ![u] = Settled(tok[u], due[r])]
    <3>1. /\ \A t \in Tokens \ {u} : tok'[t] = tok[t]
          /\ tok'[u].unlimited = FALSE
          /\ tok[u].count + tok[u].remain + 1 >= tok'[u].count + tok'[u].remain
          /\ tok[u].used + tok[u].remain + 1 <= tok'[u].used + tok'[u].remain
          /\ tok'[u].count \in Nat /\ tok'[u].used \in Nat /\ tok'[u].remain \in Nat
      <4>1. CASE tok' = [tok EXCEPT ![u] = [tok[u] EXCEPT !.remain = tok[u].remain + 1]]
        BY <1>0, <2>1, <4>1 DEF Balanced, Row, TypeOK
      <4>2. CASE pc[r] = "settle" /\ tok' = [tok EXCEPT ![u] = Settled(tok[u], due[r])]
        <5>1. ASSUME NEW row \in Row, ~row.unlimited, NEW c \in Nat \ {0}
              PROVE  LET new == Settled(row, c)
                     IN  /\ new.unlimited = FALSE
                         /\ row.count + row.remain + 1 >= new.count + new.remain
                         /\ row.used + row.remain + 1 <= new.used + new.remain
                         /\ new.count \in Nat /\ new.used \in Nat /\ new.remain \in Nat
          BY <5>1 DEF Settled, Row
        <5>2. tok[u] \in Row /\ ~tok[u].unlimited
          BY <1>0, <2>1 DEF Balanced
        <5> HIDE DEF u
        <5> QED BY <2>1, <4>2, <5>1, <5>2 DEF TypeOK
      <4> QED BY <2>3, <4>1, <4>2
    <3>2. ASSUME NEW t \in Tokens PROVE Balanced(t)'
      BY <1>0, <2>1, <2>3, <3>1, UnitReturned, HoldersFinite, LimitsAssumption DEF Balanced, Row
    <3> QED BY <3>2 DEF LedgerInv
  <2> QED
    BY <1>0, <1>6, <2>1, <2>2, <2>3 DEF SettleUsage, RefundQuota, Balanced
<1> QED
  BY <1>1, <1>2, <1>3, <1>4, <1>5, <1>6 DEF RequestStep

LEMMA LedgerAlways ==
  ASSUME "unlimited" \notin Admin
  PROVE  Spec => []LedgerInv
<1>1. Init => LedgerInv
  <2>1. Init => \A t : Reserved(t) = {}
    BY DEF Init, Reserved
  <2>2. Init => \A t : Cardinality(Reserved(t)) = 0
    BY <2>1, FS_EmptySet
  <2> QED BY <2>2, LimitsAssumption DEF Init, LedgerInv, Balanced
<1>2. TypeOK /\ LedgerInv /\ [Next]_vars => LedgerInv'
  <2> SUFFICES ASSUME TypeOK, LedgerInv, [Next]_vars PROVE LedgerInv'
    OBVIOUS
  <2>1. CASE \E r \in Requests : RequestStep(r)
    BY <2>1, RequestBalance
  <2>2. ASSUME NEW t \in Tokens, NEW op \in AdminOps, Patch(t, op) PROVE LedgerInv'
    <3>1. \A u : Reserved(u)' = Reserved(u)
      BY <2>2 DEF Patch, reqvars, Reserved
    <3>2. tok[t] \in Row /\ UNCHANGED forfeited
      BY <2>2 DEF Patch, TypeOK, Row
    <3>3. \/ tok' = [tok EXCEPT ![t] = [tok[t] EXCEPT !.expired = ~tok[t].expired]]
          \/ tok' = [tok EXCEPT ![t] = [tok[t] EXCEPT !.enabled = ~tok[t].enabled]]
          \/ \E m \in Caps : tok' = [tok EXCEPT ![t] = [tok[t] EXCEPT !.max = m]]
      BY <2>2 DEF Patch
    <3>4. \A u \in Tokens : /\ tok'[u].unlimited = tok[u].unlimited
                            /\ tok'[u].remain = tok[u].remain
                            /\ tok'[u].count = tok[u].count /\ tok'[u].used = tok[u].used
      <4>1. tok \in [Tokens -> Row]
        BY DEF TypeOK, Row
      <4>2. ASSUME NEW w, w.unlimited = tok[t].unlimited, w.remain = tok[t].remain,
                   w.count = tok[t].count, w.used = tok[t].used,
                   tok' = [tok EXCEPT ![t] = w]
            PROVE  \A u \in Tokens : /\ tok'[u].unlimited = tok[u].unlimited
                                   /\ tok'[u].remain = tok[u].remain
                                   /\ tok'[u].count = tok[u].count /\ tok'[u].used = tok[u].used
        BY <4>1, <4>2
      <4> QED BY <3>2, <3>3, <4>1, <4>2 DEF Row
    <3> QED BY <3>1, <3>2, <3>4, BalanceKept
  <2>3. ASSUME NEW t \in Tokens, Delete(t) PROVE LedgerInv'
    <3>1. \A u : Reserved(u)' = Reserved(u)
      BY <2>3 DEF Delete, reqvars, Reserved
    <3> QED BY <2>3, <3>1, BalanceKept DEF Delete, TypeOK
  <2>4. CASE UNCHANGED <<tok, pc, tid, forfeited>>
    BY <2>4, BalanceKept DEF Reserved
  <2> QED
    BY <2>1, <2>2, <2>3, <2>4
       DEF Next, AdminStep, SetLimit, DropGate, Tick, vars, storevars, reqvars
<1> QED
  BY <1>1, <1>2, TypeCorrect, PTL DEF Spec

\* While no administrator makes a token unlimited, requests served, under way
\* or lost and what is left never exceed the grant (ReserveQuota, SettleUsage).
THEOREM QuotaConserved ==
  ASSUME "unlimited" \notin Admin
  PROVE  Spec => []ServedWithinGrant
<1>1. LedgerInv => ServedWithinGrant
  BY DEF LedgerInv, Balanced, ServedWithinGrant
<1> QED BY <1>1, LedgerAlways, PTL

\* Under the same condition no unit vanishes: SettleUsage and RefundQuota leave
\* behind only what was used, is reserved, or was lost by a request that panicked
\* or found its token disabled.
THEOREM NothingEverVanishes ==
  ASSUME "unlimited" \notin Admin
  PROVE  Spec => []NothingVanishes
<1>1. LedgerInv => NothingVanishes
  BY DEF LedgerInv, Balanced, NothingVanishes
<1> QED BY <1>1, LedgerAlways, PTL


-----------------------------------------------------------------------------
(* Limits.  Of any requests that hold a slot of a token and came under a    *)
(* cap, one was let in by a test that counted all the others; that some of  *)
(* the others came under no cap, or have left since, does not matter.       *)

Capped(t) ==
  \A S \in SUBSET Holders(t) :
    S # {} /\ (\A r \in S : max[r] > 0) => \E r \in S : Cardinality(S) <= max[r]

CapInv == \A t \in Tokens : tok[t].listed => Capped(t)

\* Requests leave, or only others come.
LEMMA CappedKept ==
  ASSUME NEW t, Capped(t), Holders(t)' \subseteq Holders(t),
         \A r \in Holders(t)' : max'[r] = max[r]
  PROVE  Capped(t)'
<1> SUFFICES ASSUME NEW S \in SUBSET Holders(t)', S # {}, \A r \in S : max'[r] > 0
             PROVE  \E r \in S : Cardinality(S) <= max'[r]
  BY DEF Capped
<1>1. PICK r \in S : Cardinality(S) <= max[r]
  BY DEF Capped
<1> QED BY <1>1

\* A request comes; it counted those inside.
LEMMA CappedJoined ==
  ASSUME TypeOK, NEW t, Capped(t), NEW r \in Requests, Holders(t)' = Holders(t) \cup {r},
         r \notin Holders(t), UNCHANGED max,
         max[r] > 0 => Cardinality(Holders(t)) < max[r]
  PROVE  Capped(t)'
<1> SUFFICES ASSUME NEW S \in SUBSET Holders(t)', S # {}, \A q \in S : max'[q] > 0
             PROVE  \E q \in S : Cardinality(S) <= max'[q]
  BY DEF Capped
<1>1. CASE r \notin S
  <2>1. S \in SUBSET Holders(t)
    BY <1>1
  <2> QED BY <2>1 DEF Capped
<1>2. CASE r \in S
  <2>1. /\ IsFiniteSet(Holders(t)) /\ Cardinality(Holders(t)) \in Nat
        /\ IsFiniteSet(Holders(t)') /\ Cardinality(Holders(t)') = Cardinality(Holders(t)) + 1
    BY HoldersFinite, FS_AddElement
  <2>2. Cardinality(S) <= Cardinality(Holders(t)') /\ Cardinality(S) \in Nat
    BY <2>1, FS_Subset, FS_CardinalityType
  <2>3. max[r] \in Nat /\ Cardinality(Holders(t)) < max[r]
    BY <1>2 DEF TypeOK
  <2> QED BY <1>2, <2>1, <2>2, <2>3
<1> QED BY <1>1, <1>2

LEMMA CapStep == TypeOK /\ SlotInv /\ CapInv /\ [Next]_vars => CapInv'
<1> SUFFICES ASSUME TypeOK, SlotInv, CapInv, [Next]_vars, NEW t \in Tokens, tok'[t].listed
             PROVE  Capped(t)'
  BY DEF CapInv
<1> USE DEF storevars, gatevars, reqvars
<1>1. tok[t].listed /\ Capped(t)
  BY ListedKept DEF CapInv
<1>2. ASSUME NEW r \in Requests, AcquireSlot(r) PROVE Capped(t)'
  <2>1. pc[r] = "slot" /\ UNCHANGED <<tid, max>> /\ tid[r] \in Tokens
    BY <1>2 DEF AcquireSlot, TypeOK
  <2>2. CASE Goto(r, "reserve") /\ ~SlotsFull(r)
    <3>1. CASE tid[r] = t
      <4>1. Holders(t)' = Holders(t) \cup {r} /\ r \notin Holders(t)
        BY <2>1, <2>2, <3>1 DEF Holders, Goto, Holding, TypeOK
      <4>2. max[r] > 0 => Cardinality(Holders(t)) < max[r]
        <5>1. inflight[t] = Cardinality(Holders(t)) /\ inflight[t] \in Nat /\ max[r] \in Nat
          BY <1>1 DEF SlotInv, SlotsExact, TypeOK
        <5> QED BY <2>2, <3>1, <5>1 DEF SlotsFull
      <4> QED BY <1>1, <2>1, <4>1, <4>2, CappedJoined
    <3>2. CASE tid[r] # t
      <4>1. Holders(t)' \subseteq Holders(t)
        BY <2>1, <2>2, <3>2 DEF Holders, Goto, Holding, TypeOK
      <4> QED BY <1>1, <2>1, <4>1, CappedKept
    <3> QED BY <3>1, <3>2
  <2>3. CASE Goto(r, "exit")
    <3>1. Holders(t)' \subseteq Holders(t)
      BY <2>1, <2>3 DEF Holders, Goto, Holding, TypeOK
    <3> QED BY <1>1, <2>1, <3>1, CappedKept
  <2> QED BY <1>2, <2>2, <2>3 DEF AcquireSlot
<1>3. ASSUME NEW r \in Requests, NEW u \in Tokens, Enter(r, u) PROVE Capped(t)'
  <2>1. Holders(t)' \subseteq Holders(t) /\ UNCHANGED max
    BY <1>3 DEF Enter, Holders, Goto, Holding, TypeOK
  <2> QED BY <1>1, <2>1, CappedKept
<1>4. ASSUME NEW r \in Requests, Authenticate(r) \/ Exit(r) PROVE Capped(t)'
  <2>1. pc[r] \in {"auth", "exit"} /\ \A q \in Requests \ {r} : max'[q] = max[q]
    BY <1>4 DEF Authenticate, Exit, TypeOK
  <2>2. Holders(t)' \subseteq Holders(t) /\ r \notin Holders(t)
    BY <1>4, <2>1 DEF Authenticate, Exit, Holders, Goto, Holding, TypeOK
  <2>3. \A q \in Holders(t)' : max'[q] = max[q]
    BY <2>1, <2>2 DEF Holders
  <2> QED BY <1>1, <2>2, <2>3, CappedKept
<1>5. ASSUME NEW r \in Requests,
             ReserveQuota(r) \/ Respond(r) \/ SettleUsage(r) \/ RefundQuota(r) \/ ReleaseSlot(r)
      PROVE  Capped(t)'
  <2>1. /\ pc[r] \in Holding /\ UNCHANGED <<tid, max>>
        /\ \A q \in Requests \ {r} : pc'[q] = pc[q]
    BY <1>5 DEF ReserveQuota, Respond, SettleUsage, RefundQuota, ReleaseSlot, Goto, Holding, TypeOK
  <2>2. Holders(t)' \subseteq Holders(t)
    BY <2>1 DEF Holders
  <2> QED BY <1>1, <2>1, <2>2, CappedKept
<1>6. CASE UNCHANGED <<pc, tid, max>>
  <2>1. Holders(t)' = Holders(t)
    BY <1>6 DEF Holders
  <2> QED BY <1>1, <1>6, <2>1, CappedKept
<1> QED
  BY <1>2, <1>3, <1>4, <1>5, <1>6
     DEF Next, RequestStep, AdminStep, Patch, SetLimit, Delete, DropGate, Tick, vars

Inside == {r \in Requests : pc[r] # "idle"}

LimiterInv ==
  /\ limiter.inUse = Cardinality(Inside)
  /\ "limiter" \notin Admin => /\ limiter.limit = GlobalMax
                               /\ GlobalMax > 0 => limiter.inUse <= GlobalMax

LEMMA LimiterStep == TypeOK /\ LimiterInv /\ [Next]_vars => LimiterInv'
<1> SUFFICES ASSUME TypeOK, LimiterInv, [Next]_vars PROVE LimiterInv'
  OBVIOUS
<1>0. /\ IsFiniteSet(Inside) /\ Cardinality(Inside) \in Nat
      /\ limiter.inUse \in Nat /\ limiter.limit \in Nat /\ GlobalMax \in Nat
      /\ DOMAIN limiter = {"limit", "inUse"}
  <2>1. IsFiniteSet(Inside)
    BY RequestsAssumption, FS_Subset DEF Inside
  <2>2. limiter.inUse \in Nat /\ limiter.limit \in Nat /\ DOMAIN limiter = {"limit", "inUse"}
    BY DEF TypeOK
  <2> QED BY <2>1, <2>2, FS_CardinalityType, LimitsAssumption
<1>1. ASSUME NEW r \in Requests, NEW t \in Tokens, Enter(r, t) PROVE LimiterInv'
  <2>1. Inside' = Inside \cup {r} /\ r \notin Inside
    BY <1>1 DEF Enter, Goto, Inside, TypeOK
  <2>2. Cardinality(Inside') = Cardinality(Inside) + 1
    BY <1>0, <2>1, FS_AddElement
  <2>3. /\ limiter'.inUse = limiter.inUse + 1 /\ limiter'.limit = limiter.limit
        /\ limiter.limit > 0 => limiter.inUse < limiter.limit
    BY <1>0, <1>1 DEF Enter, LimiterFull
  <2> QED BY <1>0, <2>2, <2>3 DEF LimiterInv
<1>2. ASSUME NEW r \in Requests, Exit(r) PROVE LimiterInv'
  <2>1. Inside' = Inside \ {r} /\ r \in Inside
    BY <1>2 DEF Exit, Goto, Inside, TypeOK
  <2>2. Cardinality(Inside') = Cardinality(Inside) - 1 /\ Cardinality(Inside) > 0
    BY <1>0, <2>1, FS_RemoveElement, FS_EmptySet
  <2>3. limiter' = [limiter EXCEPT !.inUse = IF @ > 0 THEN @ - 1 ELSE 0]
    BY <1>2 DEF Exit
  <2>4. limiter.inUse > 0
    BY <2>2 DEF LimiterInv
  <2>5. limiter'.inUse = limiter.inUse - 1 /\ limiter'.limit = limiter.limit
    BY <1>0, <2>3, <2>4
  <2> QED BY <1>0, <2>2, <2>5 DEF LimiterInv
<1>3. ASSUME NEW r \in Requests,
             \/ Authenticate(r) \/ AcquireSlot(r) \/ ReserveQuota(r) \/ Respond(r)
             \/ SettleUsage(r) \/ RefundQuota(r) \/ ReleaseSlot(r)
      PROVE  LimiterInv'
  <2>1. /\ pc[r] # "idle" /\ pc'[r] # "idle" /\ UNCHANGED limiter
        /\ \A q \in Requests \ {r} : pc'[q] = pc[q]
    BY <1>3 DEF Authenticate, AcquireSlot, ReserveQuota, Respond, SettleUsage, RefundQuota,
                ReleaseSlot, Goto, TypeOK
  <2>2. Inside' = Inside
    BY <2>1 DEF Inside
  <2> QED BY <2>1, <2>2 DEF LimiterInv
<1>4. ASSUME NEW l \in Caps, SetLimit(l) PROVE LimiterInv'
  <2>1. Inside' = Inside
    BY <1>4 DEF SetLimit, reqvars, Inside
  <2>2. "limiter" \in Admin /\ limiter'.inUse = limiter.inUse
    BY <1>0, <1>4 DEF SetLimit
  <2> QED BY <2>1, <2>2 DEF LimiterInv
<1>5. CASE UNCHANGED <<limiter, pc>>
  <2>1. Inside' = Inside
    BY <1>5 DEF Inside
  <2> QED BY <1>5, <2>1 DEF LimiterInv
<1> QED
  BY <1>1, <1>2, <1>3, <1>4, <1>5
     DEF Next, RequestStep, AdminStep, Patch, Delete, DropGate, Tick, vars, reqvars

\* Requests that all came under a cap are never more than the largest of these caps,
\* whatever others came under and whatever administrators did meanwhile (AcquireSlot);
\* the global limiter counts the requests inside, gets every place back, and keeps to
\* its limit while that stays (tryAcquire, release).
THEOREM LimitsAlwaysHold == Spec => []LimitsHold
<1>1. Init => SlotInv /\ CapInv /\ LimiterInv
  <2> SUFFICES ASSUME Init PROVE SlotInv /\ CapInv /\ LimiterInv
    OBVIOUS
  <2>1. (\A t : Holders(t) = {}) /\ Inside = {}
    BY DEF Init, Holders, Holding, Inside
  <2>2. Cardinality({}) = 0
    BY FS_EmptySet
  <2>3. SlotInv
    BY <2>1, <2>2 DEF Init, SlotInv, SlotsExact
  <2>4. CapInv
    BY <2>1 DEF CapInv, Capped
  <2>5. LimiterInv
    BY <2>1, <2>2, LimitsAssumption DEF Init, LimiterInv
  <2> QED BY <2>3, <2>4, <2>5
<1>2. TypeOK /\ CapInv /\ LimiterInv => LimitsHold
  <2>1. ASSUME CapInv, NEW t \in Tokens, tok[t].listed, Holders(t) # {},
               \A r \in Holders(t) : max[r] > 0
        PROVE  \E r \in Holders(t) : Cardinality(Holders(t)) <= max[r]
    BY <2>1 DEF CapInv, Capped
  <2>2. CapInv => ConcurrencyCapped
    BY <2>1 DEF ConcurrencyCapped
  <2>3. LimiterInv => GlobalExact
    <3> SUFFICES ASSUME LimiterInv PROVE GlobalExact
      OBVIOUS
    <3>1. limiter.inUse = Cardinality({r \in Requests : pc[r] # "idle"})
      BY DEF LimiterInv, Inside
    <3>2. "limiter" \notin Admin /\ GlobalMax > 0 => limiter.inUse <= GlobalMax
      BY DEF LimiterInv
    <3> QED BY <3>1, <3>2 DEF GlobalExact
  <2> QED BY <2>2, <2>3 DEF LimitsHold
<1> QED
  BY <1>1, <1>2, SlotStep, CapStep, LimiterStep, TypeCorrect, PTL DEF Spec

-----------------------------------------------------------------------------
(* The rate.                                                               *)

In(t, a, b) == {g \in grants : g[1] = t /\ g[2] \in a..b}

GrantsOK ==
  /\ IsFiniteSet(grants)
  /\ \A g \in grants : g[2] \in Nat /\ g[2] <= now
  /\ RPM = 0 => grants = {}

\* What a window of t says of the slots granted: those since it began are at most
\* its count, and in the minute before it began no more than the rate passed.
Fits(t, w) ==
  /\ w.start <= now /\ w.count <= RPM
  /\ \A g \in grants : g[1] = t => g[2] < w.start + Minute
  /\ Cardinality(In(t, w.start, now)) <= w.count
  /\ Cardinality(In(t, w.start - Minute + 1, w.start - 1)) <= RPM

Paced(t) ==
  /\ win[t].open => Fits(t, win[t])
  /\ ~win[t].open => \A g \in grants : g[1] # t

Twice(t) == \A k \in Nat : Cardinality(In(t, k, k + Minute - 1)) <= 2 * RPM

RateInv == GrantsOK /\ \A t \in Tokens : tok[t].listed => Paced(t) /\ Twice(t)

LEMMA InFinite ==
  ASSUME GrantsOK, NEW t, NEW a, NEW b
  PROVE  IsFiniteSet(In(t, a, b)) /\ Cardinality(In(t, a, b)) \in Nat
<1>1. IsFiniteSet(In(t, a, b))
  BY FS_Subset DEF In, GrantsOK
<1> QED BY <1>1, FS_CardinalityType

\* The window a request counts in fits, and the minute it covers is the present.
LEMMA WindowFits ==
  ASSUME TypeOK, GrantsOK, NEW t \in Tokens, Paced(t)
  PROVE  /\ Fits(t, Window(t)) /\ Window(t).open /\ now - Window(t).start < Minute
         /\ Window(t).start \in Nat /\ Window(t).count \in Nat
<1> DEFINE s == win[t].start
<1>0. /\ now \in Nat /\ s \in Nat /\ win[t].count \in Nat /\ Minute \in Nat \ {0} /\ RPM \in Nat
      /\ Cardinality({}) = 0
  BY LimitsAssumption, FS_EmptySet DEF TypeOK
<1>1. CASE win[t].open /\ ~(now - s >= Minute)
  BY <1>0, <1>1 DEF Window, Paced
<1>2. CASE ~win[t].open \/ now - s >= Minute
  <2> DEFINE w == [open |-> TRUE, start |-> now, count |-> 0]
  <2>1. Window(t) = w
    BY <1>2 DEF Window
  <2>2. \A g \in grants : g[1] = t => g[2] \in Nat /\ g[2] < now /\ g[2] >= 0
    BY <1>0, <1>2 DEF Paced, Fits, GrantsOK
  <2>3. In(t, now, now) = {}
    BY <1>0, <2>2 DEF In
  <2>4. Cardinality(In(t, now - Minute + 1, now - 1)) <= RPM
    <3>1. CASE ~win[t].open
      <4>1. In(t, now - Minute + 1, now - 1) = {}
        BY <3>1 DEF In, Paced
      <4> QED BY <1>0, <4>1
    <3>2. CASE win[t].open
      <4>1. In(t, now - Minute + 1, now - 1) \subseteq In(t, s, now)
        BY <1>0, <1>2, <3>2 DEF In
      <4>2. Cardinality(In(t, now - Minute + 1, now - 1)) <= Cardinality(In(t, s, now))
        BY <4>1, InFinite, FS_Subset
      <4>3. Cardinality(In(t, s, now)) <= win[t].count /\ win[t].count <= RPM
        BY <3>2 DEF Paced, Fits
      <4> QED BY <1>0, <4>2, <4>3, InFinite
    <3> QED BY <3>1, <3>2
  <2>5. \A g \in grants : g[1] = t => g[2] < now + Minute
    BY <1>0, <2>2
  <2>6. w.open /\ w.start = now /\ w.count = 0
    OBVIOUS
  <2>7. Fits(t, w)
    <3> HIDE DEF w
    <3>1. w.start <= now /\ w.count <= RPM
      BY <1>0, <2>6
    <3>2. Cardinality(In(t, w.start, now)) <= w.count
      BY <1>0, <2>3, <2>6
    <3> QED BY <2>4, <2>5, <2>6, <3>1, <3>2 DEF Fits
  <2>8. now - w.start < Minute
    BY <1>0, <2>6
  <2> HIDE DEF w
  <2> QED BY <1>0, <2>1, <2>6, <2>7, <2>8
<1> QED BY <1>1, <1>2

\* A slot granted in a window with room.
LEMMA GrantFits ==
  ASSUME TypeOK, GrantsOK, GrantsOK', NEW t \in Tokens, NEW w, w.start \in Nat, w.count \in Nat,
         Fits(t, w), now - w.start < Minute, w.count < RPM, Twice(t), UNCHANGED now,
         NEW i, grants' = grants \cup {<<t, now, i>>},
         win'[t].open, win'[t].start = w.start, win'[t].count = w.count + 1
  PROVE  Paced(t)' /\ Twice(t)'
<1> DEFINE s == w.start
           g0 == <<t, now, i>>
<1>0. /\ now \in Nat /\ s \in Nat /\ Minute \in Nat \ {0} /\ RPM \in Nat /\ s <= now
      /\ g0[1] = t /\ g0[2] = now
  BY LimitsAssumption DEF TypeOK, Fits
<1>1. /\ In(t, s, now)' \subseteq In(t, s, now) \cup {g0}
      /\ In(t, s - Minute + 1, s - 1)' = In(t, s - Minute + 1, s - 1)
  BY <1>0 DEF In
<1>2. Cardinality(In(t, s, now)') <= w.count + 1
  <2>1. /\ IsFiniteSet(In(t, s, now) \cup {g0})
        /\ Cardinality(In(t, s, now) \cup {g0}) <= Cardinality(In(t, s, now)) + 1
    <3> DEFINE S == In(t, s, now)
    <3>1. IsFiniteSet(S) /\ Cardinality(S) \in Nat
      BY InFinite
    <3> HIDE DEF S, g0
    <3>2. /\ IsFiniteSet(S \cup {g0})
          /\ Cardinality(S \cup {g0}) = IF g0 \in S THEN Cardinality(S) ELSE Cardinality(S) + 1
      BY <3>1, FS_AddElement
    <3>3. Cardinality(S \cup {g0}) <= Cardinality(S) + 1
      BY <3>1, <3>2
    <3> QED BY <3>2, <3>3 DEF S
  <2>2. Cardinality(In(t, s, now)') <= Cardinality(In(t, s, now) \cup {g0})
    BY <1>1, <2>1, FS_Subset
  <2>3. Cardinality(In(t, s, now)) \in Nat /\ Cardinality(In(t, s, now) \cup {g0}) \in Nat
    BY InFinite, <2>1, FS_CardinalityType
  <2>4. IsFiniteSet(In(t, s, now)') /\ Cardinality(In(t, s, now)') \in Nat
    BY <1>1, <2>1, FS_Subset, FS_CardinalityType
  <2>5. Cardinality(In(t, s, now)) <= w.count
    BY DEF Fits
  <2> QED BY <2>1, <2>2, <2>3, <2>4, <2>5
<1>3. Paced(t)'
  <2>1. \A g \in grants' : g[1] = t => g[2] < s + Minute
    BY <1>0 DEF Fits
  <2>2. w.start <= now' /\ w.count + 1 <= RPM
    BY <1>0
  <2>3. Cardinality(In(t, s - Minute + 1, s - 1)') <= RPM
    BY <1>1 DEF Fits
  <2>4. now' = now
    OBVIOUS
  <2> QED BY <1>2, <2>1, <2>2, <2>3, <2>4 DEF Paced, Fits, In
<1>4. ASSUME NEW k \in Nat PROVE Cardinality(In(t, k, k + Minute - 1)') <= 2 * RPM
  <2>1. CASE now \notin k .. (k + Minute - 1)
    <3>1. In(t, k, k + Minute - 1)' = In(t, k, k + Minute - 1)
      BY <1>0, <2>1 DEF In
    <3> QED BY <3>1 DEF Twice
  <2>2. CASE now \in k .. (k + Minute - 1)
    <3> DEFINE A == In(t, s - Minute + 1, s - 1)
               B == In(t, s, now)'
               C == In(t, k, k + Minute - 1)'
    <3>1. C \subseteq A \cup B
      <4> SUFFICES ASSUME NEW g \in C PROVE g \in A \cup B
        OBVIOUS
      <4>1. g \in grants' /\ g[1] = t /\ g[2] \in k .. (k + Minute - 1) /\ g[2] \in Nat /\ g[2] <= now
        BY DEF In, GrantsOK
      <4>2. CASE g[2] >= s
        BY <1>0, <4>1, <4>2 DEF In
      <4>3. CASE g[2] < s
        <5>1. g \in grants
          BY <1>0, <4>1, <4>3
        <5>2. g[2] \in (s - Minute + 1) .. (s - 1)
          BY <1>0, <2>2, <4>1, <4>3
        <5> QED BY <4>1, <5>1, <5>2 DEF In
      <4> QED BY <1>0, <4>1, <4>2, <4>3
    <3>2. /\ IsFiniteSet(A) /\ Cardinality(A) \in Nat /\ Cardinality(A) <= RPM
          /\ IsFiniteSet(B) /\ Cardinality(B) \in Nat /\ Cardinality(B) <= RPM
      <4>1. IsFiniteSet(B)
        BY FS_Subset DEF In, GrantsOK
      <4>2. Cardinality(B) \in Nat
        BY <4>1, FS_CardinalityType
      <4> QED BY <1>0, <1>2, <4>1, <4>2, InFinite DEF Fits
    <3>3. /\ IsFiniteSet(A \cup B) /\ Cardinality(A \cup B) <= Cardinality(A) + Cardinality(B)
          /\ Cardinality(A \cup B) \in Nat
      <4> HIDE DEF A, B
      <4>1. IsFiniteSet(A \cap B) /\ Cardinality(A \cap B) \in Nat
        BY <3>2, FS_Intersection, FS_CardinalityType
      <4>2. IsFiniteSet(A \cup B) /\ Cardinality(A \cup B) \in Nat
        BY <3>2, FS_Union, FS_CardinalityType
      <4>3. Cardinality(A \cup B) = Cardinality(A) + Cardinality(B) - Cardinality(A \cap B)
        BY <3>2, FS_Union
      <4> QED BY <3>2, <4>1, <4>2, <4>3
    <3>4. Cardinality(C) <= Cardinality(A \cup B) /\ Cardinality(C) \in Nat
      <4> HIDE DEF A, B, C
      <4>1. IsFiniteSet(C) /\ Cardinality(C) <= Cardinality(A \cup B)
        BY <3>1, <3>3, FS_Subset
      <4> QED BY <4>1, FS_CardinalityType
    <3>5. Cardinality(C) <= 2 * RPM
      <4> HIDE DEF A, B, C
      <4> QED BY <1>0, <3>2, <3>3, <3>4
    <3> QED BY <3>5
  <2> QED BY <2>1, <2>2
<1> QED BY <1>3, <1>4 DEF Twice


LEMMA AcquireRate ==
  ASSUME TypeOK, RateInv, NEW r \in Requests, AcquireSlot(r)
  PROVE  RateInv'
<1> USE DEF storevars
<1>0. PICK t \in Tokens : t = tid[r]
  BY DEF AcquireSlot, TypeOK
<1>1. now \in Nat /\ Minute \in Nat \ {0} /\ RPM \in Nat /\ UNCHANGED <<now, tok>>
  BY LimitsAssumption DEF AcquireSlot, TypeOK
<1> DEFINE w == Window(t)
           i == Cardinality(grants)
<1>2. w \in [open : BOOLEAN, start : Nat, count : Nat]
  BY <1>0 DEF Window, TypeOK
<1>3. PICK n \in Nat :
        \/ RPM = 0 /\ UNCHANGED <<grants, win>>
        \/ /\ RPM > 0 /\ win' = [win EXCEPT ![t] = [w EXCEPT !.count = n]]
           /\ \/ n = w.count /\ UNCHANGED grants
              \/ n = w.count + 1 /\ ~RateFull(r) /\ grants' = grants \cup {<<t, now, i>>}
  <2> DEFINE granted == ~RateFull(r) /\ ~SlotsFull(r)
  <2>1. \/ granted /\ grants' = IF RPM > 0 THEN grants \cup {<<t, now, i>>} ELSE grants
        \/ ~granted /\ UNCHANGED grants
    BY <1>0 DEF AcquireSlot
  <2>2. win' = IF RPM = 0 THEN win
               ELSE [win EXCEPT ![t] = [w EXCEPT !.count = IF granted THEN w.count + 1 ELSE w.count]]
    BY <1>0 DEF AcquireSlot
  <2>3. granted => ~RateFull(r)
    OBVIOUS
  <2>4. w.count \in Nat /\ w.count + 1 \in Nat
    BY <1>2
  <2> HIDE DEF granted, w, i
  <2>5. CASE RPM > 0 /\ granted
    <3>1. win' = [win EXCEPT ![t] = [w EXCEPT !.count = w.count + 1]]
      BY <2>2, <2>5
    <3>2. grants' = grants \cup {<<t, now, i>>}
      BY <2>1, <2>5
    <3> QED BY <2>3, <2>4, <2>5, <3>1, <3>2
  <2>6. CASE RPM > 0 /\ ~granted
    <3>1. win' = [win EXCEPT ![t] = [w EXCEPT !.count = w.count]]
      BY <2>2, <2>6
    <3>2. UNCHANGED grants
      BY <2>1, <2>6
    <3> QED BY <2>4, <2>6, <3>1, <3>2
  <2>7. CASE RPM = 0
    <3>1. UNCHANGED <<grants, win>>
      BY <2>1, <2>2, <2>7
    <3> QED BY <2>4, <2>7, <3>1
  <2> QED BY <1>1, <2>5, <2>6, <2>7
<1>4. \A u \in Tokens \ {t} : win'[u] = win[u]
  BY <1>3 DEF TypeOK
<1>5. RPM > 0 => win'[t].open = w.open /\ win'[t].start = w.start /\ win'[t].count = n
  <2>1. RPM > 0 => win'[t] = [w EXCEPT !.count = n]
    BY <1>1, <1>3 DEF TypeOK
  <2> HIDE DEF w
  <2> QED BY <1>2, <2>1
<1>6. \A g \in grants' : g \in grants \/ g = <<t, now, i>>
  BY <1>3
<1>7. \A u \in Tokens \ {t} : \A a, b : In(u, a, b)' = In(u, a, b)
  <2>1. grants \subseteq grants'
    BY <1>3
  <2>2. \A g \in grants' : g \in grants \/ g[1] = t
    BY <1>6
  <2> QED BY <2>1, <2>2 DEF In
<1>8. GrantsOK'
  <2>1. CASE UNCHANGED grants
    BY <1>1, <2>1 DEF RateInv, GrantsOK
  <2>2. CASE RPM > 0 /\ grants' = grants \cup {<<t, now, i>>}
    <3>1. IsFiniteSet(grants')
      BY <2>2, FS_AddElement DEF RateInv, GrantsOK
    <3>2. \A g \in grants' : g[2] \in Nat /\ g[2] <= now
      BY <1>1, <1>6 DEF RateInv, GrantsOK
    <3> QED BY <1>1, <2>2, <3>1, <3>2 DEF GrantsOK
  <2> QED BY <1>1, <1>3, <2>1, <2>2
<1>9. ASSUME NEW u \in Tokens \ {t}, Paced(u), Twice(u) PROVE Paced(u)' /\ Twice(u)'
  <2>1. \A g \in grants' : g[1] = u => g \in grants
    BY <1>6
  <2>2. Twice(u)'
    BY <1>7, <1>9 DEF Twice
  <2>3. Paced(u)'
    <3>1. win'[u] = win[u] /\ now' = now
      BY <1>1, <1>4
    <3>2. \A a, b : In(u, a, b)' = In(u, a, b)
      BY <1>7
    <3> QED BY <1>9, <2>1, <3>1, <3>2 DEF Paced, Fits
  <2> QED BY <2>2, <2>3
<1>10. ASSUME Paced(t), Twice(t) PROVE Paced(t)' /\ Twice(t)'
  <2>0. Fits(t, w) /\ w.open /\ now - w.start < Minute /\ w.start \in Nat /\ w.count \in Nat
    BY <1>10, WindowFits DEF RateInv
  <2>1. CASE UNCHANGED grants /\ (UNCHANGED win \/ (RPM > 0 /\ n = w.count))
    <3>1. \A a, b : In(t, a, b)' = In(t, a, b)
      BY <2>1 DEF In
    <3>2. Twice(t)'
      BY <1>10, <3>1 DEF Twice
    <3>3. CASE UNCHANGED win
      BY <1>1, <1>10, <2>1, <3>1, <3>2, <3>3 DEF Paced, Fits
    <3>4. CASE RPM > 0 /\ n = w.count
      <4>1. win'[t].open /\ win'[t].start = w.start /\ win'[t].count = w.count
        BY <1>5, <2>0, <3>4
      <4> HIDE DEF w
      <4> QED BY <1>1, <2>0, <2>1, <3>1, <3>2, <4>1 DEF Paced, Fits
    <3> QED BY <2>1, <3>3, <3>4
  <2>2. CASE RPM > 0 /\ n = w.count + 1 /\ ~RateFull(r) /\ grants' = grants \cup {<<t, now, i>>}
    <3>1. win'[t].open /\ win'[t].start = w.start /\ win'[t].count = w.count + 1
      BY <1>5, <2>0, <2>2
    <3>2. w.count < RPM
      BY <1>0, <1>1, <2>0, <2>2 DEF RateFull
    <3>3. GrantsOK /\ UNCHANGED now
      BY <1>1 DEF RateInv
    <3> HIDE DEF w, i
    <3> QED BY <1>8, <1>10, <2>0, <2>2, <3>1, <3>2, <3>3, GrantFits
  <2> HIDE DEF w, i
  <2> QED BY <1>3, <2>1, <2>2
<1> QED
  <2> SUFFICES ASSUME NEW u \in Tokens, tok'[u].listed PROVE Paced(u)' /\ Twice(u)'
    BY <1>8 DEF RateInv
  <2>1. Paced(u) /\ Twice(u)
    BY <1>1 DEF RateInv
  <2>2. CASE u = t
    BY <1>10, <2>1, <2>2
  <2>3. CASE u # t
    BY <1>9, <2>1, <2>3
  <2> QED BY <2>2, <2>3

\* A later moment has no grants yet.
LEMMA TickRate ==
  ASSUME TypeOK, RateInv, Tick
  PROVE  RateInv'
<1>0. now' = now + 1 /\ now \in Nat /\ UNCHANGED <<tok, win, grants>>
  BY DEF Tick, TypeOK, storevars, gatevars
<1>1. GrantsOK'
  BY <1>0 DEF RateInv, GrantsOK
<1>2. ASSUME NEW t \in Tokens, tok'[t].listed PROVE Paced(t)' /\ Twice(t)'
  <2>1. Paced(t) /\ Twice(t) /\ GrantsOK
    BY <1>0, <1>2 DEF RateInv
  <2>2. \A a, b : In(t, a, b)' = In(t, a, b)
    BY <1>0 DEF In
  <2>3. Twice(t)'
    BY <2>1, <2>2 DEF Twice
  <2>4. win[t].start \in Nat
    BY DEF TypeOK
  <2>5. In(t, win[t].start, now + 1) = In(t, win[t].start, now)
    <3>1. \A g \in grants : g[2] \in win[t].start .. (now + 1) <=> g[2] \in win[t].start .. now
      BY <1>0, <2>1, <2>4 DEF GrantsOK
    <3> QED BY <3>1 DEF In
  <2>6. In(t, win[t].start, now)' = In(t, win[t].start, now)
    BY <1>0, <2>5 DEF In
  <2>7. win[t].open => Fits(t, win[t])'
    <3> SUFFICES ASSUME win[t].open PROVE Fits(t, win[t])'
      OBVIOUS
    <3>1. Fits(t, win[t])
      BY <2>1 DEF Paced
    <3>2. win'[t].start <= now'
      BY <1>0, <2>4, <3>1 DEF Fits
    <3> QED BY <1>0, <2>2, <2>6, <3>1, <3>2 DEF Fits
  <2>8. Paced(t)'
    BY <1>0, <2>1, <2>7 DEF Paced
  <2> QED BY <2>3, <2>8
<1> QED BY <1>1, <1>2 DEF RateInv

LEMMA RateStep == TypeOK /\ SlotInv /\ RateInv /\ [Next]_vars => RateInv'
<1> SUFFICES ASSUME TypeOK, SlotInv, RateInv, [Next]_vars PROVE RateInv'
  OBVIOUS
<1> USE DEF storevars, gatevars, reqvars
<1>1. ASSUME NEW t \in Tokens, tok'[t].listed PROVE tok[t].listed
  BY <1>1, ListedKept
<1>2. CASE UNCHANGED <<now, win, grants>>
  <2>1. \A t, a, b : In(t, a, b)' = In(t, a, b)
    BY <1>2 DEF In
  <2> QED BY <1>1, <1>2, <2>1 DEF RateInv, GrantsOK, Paced, Fits, Twice
<1>3. CASE DropGate
  <2>1. ~tok[dropping].listed /\ dropping \in Tokens /\ UNCHANGED <<now, tok, grants>>
    BY <1>3 DEF DropGate, SlotInv, TypeOK
  <2>2. \A t \in Tokens : tok[t].listed => win'[t] = win[t]
    BY <1>3, <2>1 DEF DropGate, TypeOK
  <2>3. \A t, a, b : In(t, a, b)' = In(t, a, b)
    BY <2>1 DEF In
  <2> QED BY <2>1, <2>2, <2>3 DEF RateInv, GrantsOK, Paced, Fits, Twice
<1> QED
  BY <1>2, <1>3, AcquireRate, TickRate
     DEF Next, RequestStep, AdminStep, Enter, Authenticate, ReserveQuota, Respond, SettleUsage,
         RefundQuota, ReleaseSlot, Exit, Patch, SetLimit, Delete, vars

\* At most twice its rate of a listed token passes in any minute, wherever the fixed
\* windows of AcquireSlot fall.
THEOREM RateNeverBeyondTwice == Spec => []RateWithinTwice
<1>1. Init => SlotInv /\ RateInv
  <2> SUFFICES ASSUME Init PROVE SlotInv /\ RateInv
    OBVIOUS
  <2>1. \A t : Holders(t) = {} /\ \A a, b : In(t, a, b) = {}
    BY DEF Init, Holders, Holding, In
  <2>2. Cardinality({}) = 0 /\ IsFiniteSet({})
    BY FS_EmptySet
  <2>3. SlotInv
    BY <2>1, <2>2 DEF Init, SlotInv, SlotsExact
  <2>4. GrantsOK
    BY <2>2 DEF Init, GrantsOK
  <2>5. \A t \in Tokens : Paced(t)
    BY DEF Init, NoWindow, Paced
  <2>6. \A t \in Tokens : Twice(t)
    BY <2>1, <2>2, LimitsAssumption DEF Twice
  <2> QED BY <2>3, <2>4, <2>5, <2>6 DEF RateInv
<1>2. TypeOK /\ RateInv => RateWithinTwice
  BY DEF TypeOK, RateInv, Twice, In, RateWithinTwice
<1> QED
  BY <1>1, <1>2, SlotStep, RateStep, TypeCorrect, PTL DEF Spec


=============================================================================
