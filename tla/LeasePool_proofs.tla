-------------------------- MODULE LeasePool_proofs --------------------------
(* Proofs about LeasePool, for any number of requests and accounts.         *)
EXTENDS LeasePool, FiniteSetTheorems, TLAPS

-----------------------------------------------------------------------------
(* Types.                                                                  *)

LEMMA NoAccountFresh == NoAccount \notin Accounts
  BY AccountsAssumption DEF NoAccount

\* What the operators of HotOps do to a map of metas.
LEMMA HotOpsTyped ==
  ASSUME NEW h, MetaMap(h), NEW a \in Accounts, NEW m \in Meta, NEW n
  PROVE  /\ a \in DOMAIN h => MetaMap(Incremented(h, a)) /\ DOMAIN Incremented(h, a) = DOMAIN h
         /\ a \in DOMAIN h => MetaMap(Decremented(h, a)) /\ DOMAIN Decremented(h, a) = DOMAIN h
         /\ MetaMap(Less(h, {a}))
         /\ \A g \in Promoted(h, n, a, m) : MetaMap(g)
<1>1. a \in DOMAIN h => MetaMap(Incremented(h, a)) /\ DOMAIN Incremented(h, a) = DOMAIN h
  BY DEF MetaMap, Incremented, Meta
<1>2. a \in DOMAIN h => MetaMap(Decremented(h, a)) /\ DOMAIN Decremented(h, a) = DOMAIN h
  BY DEF MetaMap, Decremented, Meta
<1>3. \A v : MetaMap(Less(h, {v}))
  BY DEF MetaMap, Less
<1>4. \A g : MetaMap(g) => MetaMap(With(g, a, m))
  BY DEF MetaMap, With
<1>5. a \in DOMAIN h => MetaMap(Updated(h, a, m))
  BY DEF MetaMap, Updated, Meta
<1> QED
  BY <1>1, <1>2, <1>3, <1>4, <1>5 DEF Promoted

\* What a release puts back into the index.
LEMMA EditedTyped ==
  ASSUME NEW r \in Requests, meta[r] \in Meta, patch[r] \in PatchType,
         pc[r] \in {"bindPut", "quarPut", "syncPut"}
  PROVE  Edited(r) \in Meta
<1> DEFINE b == meta[r]  p == patch[r]
           cooled == IF p.coolUntil # NoTime THEN [b EXCEPT !.coolUntil = p.coolUntil] ELSE b
           stopped == IF p.quarantine THEN [cooled EXCEPT !.enabled = FALSE, !.quarantined = TRUE]
                      ELSE cooled
<1>1. Edited(r) = CASE pc[r] = "bindPut" -> b [] pc[r] = "quarPut" -> stopped
                    [] pc[r] = "syncPut" -> [stopped EXCEPT !.failure = p.failure]
  BY DEF Edited
<1>2. b \in Meta /\ (p.coolUntil # NoTime => p.coolUntil \in Nat) /\ p.failure \in Nat
  BY DEF PatchType
<1> HIDE DEF b, p
<1>3. cooled \in Meta
  BY <1>2 DEF Meta
<1> HIDE DEF cooled
<1>4. stopped \in Meta
  BY <1>3 DEF Meta
<1> HIDE DEF stopped
<1>5. [stopped EXCEPT !.failure = p.failure] \in Meta
  BY <1>2, <1>4 DEF Meta
<1> QED BY <1>1, <1>2, <1>4, <1>5

LEMMA TypeInit == Init => TypeOK
<1> SUFFICES ASSUME Init PROVE TypeOK
  OBVIOUS
<1>1. MetaMap(hot)
  BY DEF Init, MetaMap, Listing, FreshMeta, Meta
<1> QED
  BY <1>1, LimitsAssumption
     DEF Init, TypeOK, NewRow, Row, NoPatch, PatchType, NoTime, OK, NoAccount, NoAdmin, NoLoad,
         FreshMeta, Meta, MetaMap, Locations

\* The local state of the requests.
ReqTyped ==
    /\ pc \in [Requests -> Locations]
    /\ acct \in [Requests -> Accounts \cup {NoAccount}]
    /\ \A r \in Requests : pc[r] \notin {"idle", "pick"} => acct[r] \in Accounts
    /\ tried \in [Requests -> SUBSET Accounts]
    /\ meta \in [Requests -> Meta]
    /\ patch \in [Requests -> PatchType]

LEMMA FinishTyped ==
  ASSUME ReqTyped, NEW r \in Requests, Finish(r) PROVE ReqTyped'
  BY DEF ReqTyped, Finish, Goto, Locations, FreshMeta, Meta, NoPatch, PatchType, NoTime, OK

LEMMA SoftFailureTyped ==
  ASSUME ReqTyped, NEW r \in Requests, SoftFailure(r) PROVE ReqTyped'
<1>1. CASE Goto(r, "pick") /\ UNCHANGED <<acct, tried, meta, patch>>
  BY <1>1 DEF ReqTyped, Goto, Locations
<1> QED
  BY <1>1, FinishTyped DEF SoftFailure

\* Moving on with the same account.
LEMMA GotoTyped ==
  ASSUME ReqTyped, NEW r \in Requests, NEW l \in Locations, Goto(r, l),
         acct[r] \in Accounts \/ l \in {"idle", "pick"},
         UNCHANGED <<acct, tried, meta, patch>>
  PROVE  ReqTyped'
  BY DEF ReqTyped, Goto

LEMMA ReturnTyped ==
  ASSUME ReqTyped, NEW r \in Requests, Return(r),
         pc[r] \in {"bindGet", "quarGet", "syncGet", "bindPut", "quarPut", "syncPut"}
  PROVE  ReqTyped'
<1>1. CASE Finish(r)
  BY <1>1, FinishTyped
<1>2. CASE /\ Goto(r, Then[pc[r]]) /\ Then[pc[r]] # "done"
           /\ meta' = [meta EXCEPT ![r] = FreshMeta] /\ UNCHANGED <<acct, tried, patch>>
  <2>1. Then[pc[r]] \in {"add", "patch"} /\ pc[r] \notin {"idle", "pick"}
    BY <1>2 DEF Then
  <2> QED BY <1>2, <2>1 DEF ReqTyped, Goto, Locations, FreshMeta, Meta
<1> QED
  BY <1>1, <1>2 DEF Return

LEMMA ProxiedTyped ==
  ASSUME NEW row \in Row
  PROVE  [row EXCEPT !.proxied = TRUE] \in Row /\ Leasable([row EXCEPT !.proxied = TRUE]) = Leasable(row)
  BY DEF Row, Leasable

\* A patched row is a row, and a health patch never makes one leasable again.
LEMMA PatchedTyped ==
  ASSUME NEW row \in Row, NEW p \in PatchType
  PROVE  Patched(row, p) \in Row /\ (Leasable(Patched(row, p)) => Leasable(row))
<1> DEFINE un == IF p.code = OK THEN 0
                 ELSE IF p.code = 401 THEN p.unauthorized ELSE row.unauthorized
           co == IF p.coolUntil # NoTime THEN p.coolUntil ELSE row.coolUntil
<1>1. un \in Nat /\ co \in Nat
  BY DEF Row, PatchType
<1>2. Patched(row, p) =
        [listed |-> row.listed, proxied |-> row.proxied, failure |-> p.failure,
         forbidden |-> (p.code = 403), unauthorized |-> un, coolUntil |-> co,
         enabled |-> row.enabled /\ ~p.quarantine,
         quarantined |-> row.quarantined \/ p.quarantine]
  BY DEF Patched
<1> HIDE DEF un, co
<1> QED
  BY <1>1, <1>2 DEF Leasable, Row, PatchType

LEMMA RequestTyped ==
  ASSUME TypeOK, NEW r \in Requests, RequestStep(r)
  PROVE  TypeOK'
<1>0. ReqTyped
  BY DEF TypeOK, ReqTyped
<1> USE DEF sysvars, histvars, catvars
<1>1. ASSUME NEW a \in Accounts, Pick(r, a) PROVE TypeOK'
  BY <1>1 DEF Pick, Goto, TypeOK, Locations
<1>2. CASE PickNone(r)
  <2>1. ReqTyped'
    BY <1>0, <1>2, FinishTyped DEF PickNone
  <2> QED BY <1>2, <2>1 DEF PickNone, TypeOK, ReqTyped
<1>3. CASE Check(r)
  <2>1. ReqTyped' /\ cat' \in [Accounts -> Row]
    <3>1. CASE SoftFailure(r) /\ UNCHANGED cat
      BY <1>0, <3>1, SoftFailureTyped DEF TypeOK
    <3>2. CASE Egress(r)
      <4>1. acct[r] \in Accounts
        BY <1>3 DEF Check, TypeOK
      <4>2. cat' \in [Accounts -> Row]
        <5>1. [cat[acct[r]] EXCEPT !.proxied = TRUE] \in Row
          BY <4>1, ProxiedTyped DEF TypeOK
        <5> QED BY <3>2, <4>1, <5>1 DEF Egress, TypeOK
      <4>3. ReqTyped'
        BY <1>0, <3>2, <4>1, SoftFailureTyped, GotoTyped DEF Egress, Locations
      <4> QED BY <4>2, <4>3
    <3> QED BY <1>3, <3>1, <3>2 DEF Check
  <2> QED BY <1>3, <2>1 DEF Check, TypeOK, ReqTyped
<1>4. CASE AddInflight(r)
  <2>1. acct[r] \in Accounts
    BY <1>4 DEF AddInflight, TypeOK
  <2>2. ReqTyped' /\ MetaMap(hot')
    <3>1. CASE /\ hot' = Incremented(hot, acct[r]) /\ acct[r] \in DOMAIN hot
               /\ Goto(r, "held") /\ tried' = [tried EXCEPT ![r] = {}]
               /\ UNCHANGED <<acct, meta, patch>>
      <4>1. MetaMap(hot')
        BY <2>1, <3>1, HotOpsTyped DEF TypeOK, FreshMeta, Meta
      <4> QED BY <1>0, <2>1, <3>1, <4>1 DEF ReqTyped, Goto, Locations
    <3>2. CASE SoftFailure(r) /\ UNCHANGED hot
      BY <1>0, <3>2, SoftFailureTyped DEF TypeOK
    <3> QED BY <1>4, <3>1, <3>2 DEF AddInflight
  <2> QED BY <1>4, <2>2 DEF AddInflight, TypeOK, ReqTyped
<1>5. CASE GetHot(r)
  <2>1. pc[r] \in {"bindGet", "quarGet", "syncGet"} /\ acct[r] \in Accounts
    BY <1>5 DEF GetHot, After, TypeOK
  <2>2. ReqTyped'
    <3>1. CASE /\ acct[r] \in DOMAIN hot /\ meta' = [meta EXCEPT ![r] = hot[acct[r]]]
               /\ Goto(r, After[pc[r]]) /\ UNCHANGED <<acct, tried, patch>>
      <4>1. After[pc[r]] \in Locations
        BY <2>1 DEF After, Locations
      <4>2. hot[acct[r]] \in Meta
        BY <3>1 DEF TypeOK, MetaMap
      <4> QED BY <1>0, <2>1, <3>1, <4>1, <4>2 DEF ReqTyped, Goto
    <3>2. CASE Return(r)
      BY <1>0, <2>1, <3>2, ReturnTyped
    <3> QED BY <1>5, <3>1, <3>2 DEF GetHot
  <2> QED BY <1>5, <2>2 DEF GetHot, TypeOK, ReqTyped
<1>6. CASE PutHot(r)
  <2>1. acct[r] \in Accounts
    BY <1>6 DEF PutHot, TypeOK
  <2>2. Edited(r) \in Meta
    BY <1>6, EditedTyped DEF PutHot, TypeOK
  <2>3. MetaMap(hot')
    BY <1>6, <2>1, <2>2, HotOpsTyped DEF PutHot, TypeOK
  <2>4. ReqTyped'
    BY <1>0, <1>6, ReturnTyped DEF PutHot
  <2> QED BY <1>6, <2>3, <2>4 DEF PutHot, TypeOK, ReqTyped
<1>7. ASSUME NEW code \in Codes, Release(r, code) PROVE TypeOK'
  <2>1. acct[r] \in Accounts
    BY <1>7 DEF Release, TypeOK
  <2>2. MetaMap(hot')
    BY <1>7, <2>1, HotOpsTyped DEF Release, Subtracted, TypeOK, FreshMeta, Meta
  <2>3. ReqTyped'
    <3>1. CASE Finish(r)
      BY <1>0, <3>1, FinishTyped
    <3>2. CASE /\ Goto(r, "health") /\ UNCHANGED <<acct, tried, meta>>
               /\ patch' = [patch EXCEPT ![r] = [NoPatch EXCEPT !.code = code]]
      BY <1>0, <2>1, <3>2 DEF ReqTyped, Goto, Locations, NoPatch, PatchType, NoTime
    <3> QED BY <1>7, <3>1, <3>2 DEF Release
  <2> QED BY <1>7, <2>2, <2>3 DEF Release, TypeOK, ReqTyped
<1>8. CASE ReadHealthOK(r)
  <2>1. acct[r] \in Accounts /\ cat[acct[r]] \in Row /\ patch[r] \in PatchType
    BY <1>8 DEF ReadHealthOK, TypeOK
  <2>2. Decayed(cat[acct[r]].failure) \in Nat
    BY <2>1 DEF Decayed, Row
  <2>3. ReqTyped'
    BY <1>0, <1>8, <2>1, <2>2 DEF ReadHealthOK, ReqTyped, Goto, Locations, PatchType
  <2> QED BY <1>8, <2>3 DEF ReadHealthOK, TypeOK, ReqTyped
<1>9. CASE ReadHealthFailed(r)
  <2>1. /\ acct[r] \in Accounts /\ cat[acct[r]] \in Row /\ patch[r] \in PatchType
        /\ ModelOf[r] \in Models \cup {NoModel}
    BY <1>9, ModelsAssumption DEF ReadHealthFailed, TypeOK
  <2>2. CASE Finish(r) /\ UNCHANGED <<hot, modelCool>>
    <3>1. ReqTyped'
      BY <1>0, <2>2, FinishTyped
    <3> QED BY <1>9, <2>2, <3>1 DEF ReadHealthFailed, TypeOK, ReqTyped
  <2>3. CASE ~(Finish(r) /\ UNCHANGED <<hot, modelCool>>)
    <3> DEFINE a == acct[r]
               row == cat[a]
               code == patch[r].code
               perModel == code = 429 /\ ModelOf[r] # NoModel
               untilOf(d) == IF code \in CoolingCodes /\ ~perModel THEN now + d ELSE NoTime
    <3>1. PICK d \in CoolFor[code] :
            /\ patch' = [patch EXCEPT ![r] =
                           [code |-> code, failure |-> row.failure + 1,
                            unauthorized |-> row.unauthorized + 1, coolUntil |-> untilOf(d),
                            quarantine |-> Quarantines(row, code)]]
            /\ hot' = IF untilOf(d) # NoTime /\ a \in DOMAIN hot
                        THEN [hot EXCEPT ![a].coolUntil = untilOf(d)] ELSE hot
            /\ modelCool' = IF perModel THEN [modelCool EXCEPT ![<<a, ModelOf[r]>>] = now + d]
                                        ELSE modelCool
      BY <1>9, <2>3 DEF ReadHealthFailed
    <3>2. /\ Goto(r, IF Quarantines(row, code) THEN "quarGet" ELSE "patch")
          /\ UNCHANGED <<acct, tried, meta>>
      BY <1>9, <2>3 DEF ReadHealthFailed
    <3>3. d \in Nat /\ now \in Nat
      <4>1. code \in Codes
        BY <1>9, <2>1 DEF ReadHealthFailed, PatchType
      <4>2. CoolFor[code] \subseteq Nat
        BY <4>1, CodesAssumption
      <4> QED BY <3>1, <4>2, LimitsAssumption DEF TypeOK
    <3>4. untilOf(d) \in Nat \cup {NoTime}
      BY <3>3
    <3>5. Quarantines(row, code) \in BOOLEAN
      BY DEF Quarantines
    <3>6. patch'[r] \in PatchType /\ patch' \in [Requests -> PatchType]
      <4>1. code \in Codes \cup {OK} /\ row.failure + 1 \in Nat /\ row.unauthorized + 1 \in Nat
        BY <2>1 DEF Row, PatchType
      <4> HIDE DEF code, row, untilOf
      <4> QED BY <1>0, <3>1, <3>4, <3>5, <4>1 DEF ReqTyped, PatchType
    <3>7. MetaMap(hot')
      <4>1. untilOf(d) # NoTime => untilOf(d) \in Nat
        BY <3>4
      <4>2. MetaMap(hot)
        BY DEF TypeOK
      <4> HIDE DEF untilOf
      <4>3. ASSUME NEW b \in DOMAIN hot, NEW n \in Nat PROVE [hot[b] EXCEPT !.coolUntil = n] \in Meta
        BY <4>2 DEF MetaMap, Meta
      <4> QED BY <3>1, <4>1, <4>2, <4>3 DEF MetaMap
    <3>8. modelCool' \in [Accounts \X Models -> Nat]
      BY <2>1, <3>1, <3>3 DEF TypeOK
    <3>9. ReqTyped'
      BY <1>0, <2>1, <3>2, <3>6 DEF ReqTyped, Goto, Locations
    <3> HIDE DEF a, row, code, perModel, untilOf
    <3> QED BY <1>9, <3>7, <3>8, <3>9 DEF ReadHealthFailed, TypeOK, ReqTyped
  <2> QED BY <2>2, <2>3
<1>10. CASE Patch(r)
  <2>1. acct[r] \in Accounts /\ cat[acct[r]] \in Row /\ patch[r] \in PatchType
    BY <1>10 DEF Patch, TypeOK
  <2>2. Patched(cat[acct[r]], patch[r]) \in Row
    BY <2>1, PatchedTyped
  <2>3. ReqTyped'
    BY <1>0, <1>10, <2>1, FinishTyped, GotoTyped DEF Patch, Locations
  <2>4. cat' \in [Accounts -> Row]
    BY <1>10, <2>1, <2>2 DEF Patch, TypeOK
  <2> QED BY <1>10, <2>3, <2>4 DEF Patch, TypeOK, ReqTyped
<1> QED
  BY <1>1, <1>2, <1>3, <1>4, <1>5, <1>6, <1>7, <1>8, <1>9, <1>10 DEF RequestStep

\* One write of an administrator to a row.
LEMMA AdminRowTyped ==
  ASSUME NEW row \in Row, NEW e \in BOOLEAN, NEW l \in BOOLEAN
  PROVE  [row EXCEPT !.enabled = e, !.listed = l] \in Row
  BY DEF Row

LEMMA AdminTyped ==
  ASSUME TypeOK, AdminStep \/ Tick
  PROVE  TypeOK'
<1> USE DEF sysvars, histvars, catvars, reqvars
<1>1. ASSUME NEW op \in Admin, NEW a \in Accounts, AdminWrites(op, a) PROVE TypeOK'
  <2>1. op \in {"disable", "enable", "delete"}
    BY <1>1, AdminAssumption DEF AdminWrites, AdminOps
  <2>2. admin' = [op |-> op, acct |-> a, meta |-> FreshMeta]
    BY <1>1 DEF AdminWrites, NoAdmin
  <2>3. cat' \in [Accounts -> Row]
    <3> DEFINE e == op = "enable" \/ (cat[a].enabled /\ op # "disable")
    <3>1. e \in BOOLEAN /\ (op # "delete") \in BOOLEAN /\ cat[a] \in Row
      BY DEF TypeOK
    <3>2. cat' = [cat EXCEPT ![a] = [cat[a] EXCEPT !.enabled = e, !.listed = (op # "delete")]]
      BY <1>1 DEF AdminWrites, TypeOK
    <3>3. [cat[a] EXCEPT !.enabled = e, !.listed = (op # "delete")] \in Row
      BY <3>1, AdminRowTyped
    <3> HIDE DEF e
    <3> QED BY <3>2, <3>3 DEF TypeOK
  <2>4. barred' \in [Requests -> SUBSET Accounts]
    BY <1>1 DEF AdminWrites, TypeOK
  <2>5. UNCHANGED <<now, hot, modelCool, reqvars, load>>
    BY <1>1 DEF AdminWrites
  <2>6. /\ admin' \in [op : {"idle", "disable", "enable", "delete", "put"},
                       acct : Accounts \cup {NoAccount}, meta : Meta]
        /\ admin'.acct \in Accounts
    BY <2>1, <2>2 DEF FreshMeta, Meta
  <2> QED BY <2>3, <2>4, <2>5, <2>6 DEF TypeOK, MetaMap
<1>2. CASE AdminDemotes
  <2>1. MetaMap(hot')
    BY <1>2 DEF AdminDemotes, TypeOK, MetaMap, Less
  <2> QED BY <1>2, <2>1 DEF AdminDemotes, TypeOK, NoAdmin, FreshMeta, Meta
<1>3. CASE AdminGets
  <2>1. admin'.op = "idle" \/ (admin'.op = "put" /\ admin'.acct = admin.acct)
    BY <1>3 DEF AdminGets, NoAdmin, TypeOK
  <2>2. admin' \in [op : {"idle", "put"}, acct : Accounts \cup {NoAccount}, meta : Meta]
    BY <1>3 DEF AdminGets, NoAdmin, TypeOK, MetaMap, FreshMeta, Meta
  <2> QED BY <1>3, <2>1, <2>2 DEF AdminGets, TypeOK
<1>4. CASE AdminPuts
  <2>1. [admin.meta EXCEPT !.enabled = TRUE] \in Meta /\ admin.acct \in Accounts
    BY <1>4 DEF AdminPuts, TypeOK, Meta
  <2>2. MetaMap(hot')
    BY <1>4, <2>1, HotOpsTyped DEF AdminPuts, TypeOK
  <2> QED BY <1>4, <2>2 DEF AdminPuts, TypeOK, NoAdmin, FreshMeta, Meta
<1>5. CASE ReloadBegins
  <2>1. \A a \in DOMAIN load'.saved : load'.saved[a] \in Nat
    BY <1>5 DEF ReloadBegins, NoLoad, InflightOf, TypeOK, MetaMap, Meta
  <2> QED BY <1>5, <2>1 DEF ReloadBegins, TypeOK, NoLoad, MetaMap
<1>6. CASE ReloadLists
  <2>1. \A a \in Accounts : MetaOf(cat[a]) \in Meta
    BY DEF MetaOf, TypeOK, Row, Meta
  <2>2. MetaMap([a \in Listing |-> MetaOf(cat[a])])
    BY <2>1 DEF MetaMap, Listing
  <2>3. /\ load'.pc = "swap" /\ load'.saved = load.saved
        /\ load'.metas = [a \in Listing |-> MetaOf(cat[a])]
    BY <1>6 DEF ReloadLists
  <2> QED BY <1>6, <2>2, <2>3 DEF ReloadLists, TypeOK
<1>7. CASE ReloadSwaps
  <2> DEFINE metas == load.metas  saved == load.saved
  <2>1. MetaMap(metas) /\ \A a \in DOMAIN saved : saved[a] \in Nat
    BY DEF TypeOK
  <2>2. hot' = [a \in DOMAIN metas |->
                  [metas[a] EXCEPT !.inflight = IF a \in DOMAIN saved THEN saved[a] ELSE 0]]
    BY <1>7 DEF ReloadSwaps, Rebuilt
  <2> HIDE DEF metas, saved
  <2>3. ASSUME NEW a \in DOMAIN metas, NEW n \in Nat
        PROVE  [metas[a] EXCEPT !.inflight = n] \in Meta
    <3>1. metas[a] \in Meta
      BY <2>1 DEF MetaMap
    <3> QED BY <3>1 DEF Meta
  <2>4. \A a \in DOMAIN metas : (IF a \in DOMAIN saved THEN saved[a] ELSE 0) \in Nat
    BY <2>1
  <2>5. DOMAIN hot' = DOMAIN metas /\ \A a \in DOMAIN metas : hot'[a] \in Meta
    BY <2>2, <2>3, <2>4
  <2>6. MetaMap(hot')
    BY <2>1, <2>5 DEF MetaMap
  <2> QED BY <1>7, <2>6 DEF ReloadSwaps, TypeOK, NoLoad, MetaMap
<1>8. CASE Tick
  BY <1>8, LimitsAssumption DEF Tick, TypeOK
<1> QED
  BY <1>1, <1>2, <1>3, <1>4, <1>5, <1>6, <1>7, <1>8 DEF AdminStep

LEMMA TypeStep == TypeOK /\ [Next]_vars => TypeOK'
<1>1. CASE UNCHANGED vars
  BY <1>1 DEF vars, TypeOK, MetaMap
<1> QED
  BY <1>1, RequestTyped, AdminTyped DEF Next

\* Every variable keeps to its type, whatever the interleaving.
THEOREM TypeCorrect == Spec => []TypeOK
  BY TypeInit, TypeStep, PTL DEF Spec


-----------------------------------------------------------------------------
(* No lease on a barred account.  What was barred when a request picked     *)
(* must still be so, at the clock of the pick, when the request checks the  *)
(* row; past the check the account of the request is not one of those.      *)

Past == {"bindGet", "bindPut", "add", "held"}

BarsHold(r) == pc[r] = "check" => at[r] <= now /\ \A b \in barred[r] : Barred(b, r, at[r])

NotBarred(r) == pc[r] \in Past => acct[r] \notin barred[r]

BarInv == \A r \in Requests : BarsHold(r) /\ NotBarred(r)

\* A step that makes no account leasable and ends no model cooldown.
BarsKept ==
    /\ \A b \in Accounts : Leasable(cat'[b]) => Leasable(cat[b])
    /\ \A p \in Accounts \X Models : modelCool'[p] = modelCool[p] \/ modelCool'[p] > now

LEMMA BarredKept ==
  ASSUME TypeOK, TypeOK', BarsKept, NEW b \in Accounts, NEW r \in Requests, NEW t \in Nat, t <= now,
         Barred(b, r, t)
  PROVE  Barred(b, r, t)'
<1>1. ModelOf[r] # NoModel => <<b, ModelOf[r]>> \in Accounts \X Models
  BY ModelsAssumption
<1>2. ASSUME NEW p \in Accounts \X Models, modelCool[p] > t PROVE modelCool'[p] > t
  <2>1. now \in Nat /\ modelCool[p] \in Nat /\ modelCool'[p] \in Nat
    BY LimitsAssumption DEF TypeOK
  <2> QED BY <1>2, <2>1 DEF BarsKept
<1> QED
  BY <1>1, <1>2 DEF BarsKept, Barred, ModelCooling

LEMMA RequestKeepsBars ==
  ASSUME TypeOK, NEW r \in Requests, RequestStep(r)
  PROVE  BarsKept
<1>1. CASE UNCHANGED cat /\ UNCHANGED modelCool
  BY <1>1 DEF BarsKept
<1>2. CASE Check(r)
  <2>1. acct[r] \in Accounts
    BY <1>2 DEF Check, TypeOK
  <2>2. cat[acct[r]] \in Row
    BY <2>1 DEF TypeOK
  <2>3. CASE UNCHANGED cat
    BY <1>1, <1>2, <2>3 DEF Check
  <2>4. CASE cat' = [cat EXCEPT ![acct[r]].proxied = TRUE]
    <3>1. cat' = [cat EXCEPT ![acct[r]] = [cat[acct[r]] EXCEPT !.proxied = TRUE]]
      BY <2>4
    <3>2. Leasable([cat[acct[r]] EXCEPT !.proxied = TRUE]) = Leasable(cat[acct[r]])
      BY <2>2, ProxiedTyped
    <3> QED BY <1>2, <2>1, <3>1, <3>2 DEF Check, BarsKept, TypeOK
  <2> QED BY <1>2, <2>3, <2>4 DEF Check, Egress
<1>3. CASE ReadHealthFailed(r)
  <2>1. /\ acct[r] \in Accounts /\ patch[r].code \in Codes /\ now \in Nat
        /\ CoolFor[patch[r].code] \subseteq Nat \ {0}
    <3>1. patch[r] \in PatchType
      BY DEF TypeOK
    <3>2. patch[r].code \in Codes
      BY <1>3, <3>1 DEF ReadHealthFailed, PatchType
    <3>3. CoolFor[patch[r].code] \subseteq Nat \ {0}
      BY <3>2, CodesAssumption
    <3> QED BY <1>3, <3>2, <3>3, LimitsAssumption DEF ReadHealthFailed, TypeOK
  <2>2. UNCHANGED cat
    BY <1>3 DEF ReadHealthFailed
  <2>3. \/ modelCool' = modelCool
        \/ \E d \in CoolFor[patch[r].code] :
             modelCool' = [modelCool EXCEPT ![<<acct[r], ModelOf[r]>>] = now + d]
    <3>1. CASE cat[acct[r]].listed
      <4>1. PICK d \in CoolFor[patch[r].code] :
               modelCool' = IF patch[r].code = 429 /\ ModelOf[r] # NoModel
                              THEN [modelCool EXCEPT ![<<acct[r], ModelOf[r]>>] = now + d]
                              ELSE modelCool
        BY <1>3, <3>1 DEF ReadHealthFailed
      <4> QED BY <4>1
    <3> QED BY <1>3, <3>1 DEF ReadHealthFailed
  <2>4. \A p \in Accounts \X Models : modelCool'[p] = modelCool[p] \/ modelCool'[p] > now
    <3>1. ASSUME NEW d \in CoolFor[patch[r].code], NEW k, NEW p \in Accounts \X Models
          PROVE  LET f == [modelCool EXCEPT ![k] = now + d]
                 IN  f[p] = modelCool[p] \/ f[p] > now
      <4>1. now + d > now
        BY <2>1
      <4> QED BY <4>1 DEF TypeOK
    <3> QED BY <2>3, <3>1
  <2> QED BY <2>2, <2>4 DEF BarsKept
<1>4. CASE Patch(r)
  <2>1. acct[r] \in Accounts /\ cat[acct[r]] \in Row /\ patch[r] \in PatchType
    BY <1>4 DEF Patch, TypeOK
  <2>2. Leasable(Patched(cat[acct[r]], patch[r])) => Leasable(cat[acct[r]])
    BY <2>1, PatchedTyped
  <2> QED BY <1>4, <2>1, <2>2 DEF Patch, BarsKept, TypeOK
<1> QED
  BY <1>1, <1>2, <1>3, <1>4
     DEF RequestStep, Pick, PickNone, AddInflight, GetHot, PutHot, Release, ReadHealthOK, catvars

\* A step of r leaves the other requests alone.
OthersKept(r) ==
    \A q \in Requests \ {r} : /\ pc'[q] = pc[q] /\ at'[q] = at[q] /\ acct'[q] = acct[q]
                              /\ barred'[q] = barred[q]

LEMMA RequestKeepsOthers ==
  ASSUME TypeOK, NEW r \in Requests, RequestStep(r)
  PROVE  OthersKept(r) /\ now' = now
<1> USE DEF OthersKept, TypeOK, Goto, histvars
<1>1. ASSUME NEW a \in Accounts, Pick(r, a) PROVE OthersKept(r) /\ now' = now
  BY <1>1 DEF Pick
<1>2. CASE PickNone(r)
  BY <1>2 DEF PickNone, Finish
<1>3. CASE Check(r)
  BY <1>3 DEF Check, Egress, SoftFailure, Finish
<1>4. CASE AddInflight(r)
  BY <1>4 DEF AddInflight, SoftFailure, Finish
<1>5. CASE GetHot(r) \/ PutHot(r)
  BY <1>5 DEF GetHot, PutHot, Return, Finish
<1>6. ASSUME NEW code \in Codes, Release(r, code) PROVE OthersKept(r) /\ now' = now
  BY <1>6 DEF Release, Finish
<1>7. CASE ReadHealthOK(r)
  BY <1>7 DEF ReadHealthOK
<1>8. CASE ReadHealthFailed(r)
  BY <1>8 DEF ReadHealthFailed, Finish
<1>9. CASE Patch(r)
  BY <1>9 DEF Patch, Finish
<1> QED
  BY <1>1, <1>2, <1>3, <1>4, <1>5, <1>6, <1>7, <1>8, <1>9 DEF RequestStep


\* The request that steps: a pick records the bars, the check keeps barred
\* accounts out, and what follows keeps the account it has.
LEMMA RequestBars ==
  ASSUME TypeOK, TypeOK', BarInv, NEW r \in Requests, RequestStep(r)
  PROVE  BarsHold(r)' /\ NotBarred(r)'
<1> USE DEF BarInv, BarsHold, NotBarred, Past, Goto, TypeOK, histvars
<1>1. ASSUME NEW a \in Accounts, Pick(r, a) PROVE BarsHold(r)' /\ NotBarred(r)'
  <2>1. /\ pc'[r] = "check" /\ at'[r] = now /\ now' = now
        /\ barred'[r] = {b \in Accounts : Barred(b, r, now)}
    BY <1>1 DEF Pick
  <2>2. \A b \in barred'[r] : Barred(b, r, now)
    BY <2>1
  <2>3. UNCHANGED <<cat, modelCool>>
    BY <1>1 DEF Pick
  <2>4. \A b \in barred'[r] : Barred(b, r, at[r])'
    BY <2>1, <2>2, <2>3 DEF Barred, ModelCooling
  <2> QED BY <2>1, <2>4, LimitsAssumption
<1>2. CASE PickNone(r)
  BY <1>2 DEF PickNone, Finish
<1>3. CASE Check(r)
  <2>1. CASE SoftFailure(r)
    BY <1>3, <2>1 DEF SoftFailure, Finish
  <2>2. CASE ~Refused(acct[r], r, at[r]) /\ Egress(r)
    <3>1. ~Barred(acct[r], r, at[r])
      BY <2>2 DEF Refused, Usable, Barred
    <3>2. acct[r] \notin barred[r]
      BY <1>3, <3>1 DEF Check
    <3>3. \/ pc'[r] # "check" /\ acct'[r] = acct[r] /\ barred' = barred
          \/ pc'[r] \in {"idle", "pick"}
      BY <1>3, <2>2 DEF Check, Egress, SoftFailure, Finish
    <3> QED BY <3>2, <3>3
  <2> QED BY <1>3, <2>1, <2>2 DEF Check
<1>4. CASE AddInflight(r)
  <2>1. CASE SoftFailure(r)
    BY <2>1 DEF SoftFailure, Finish
  <2> QED BY <1>4, <2>1 DEF AddInflight
<1>5. CASE GetHot(r) \/ PutHot(r)
  <2>1. CASE Finish(r)
    BY <2>1 DEF Finish
  <2>2. CASE ~Finish(r)
    <3>1. UNCHANGED <<acct, barred>>
      BY <1>5, <2>2 DEF GetHot, PutHot, Return
    <3>2. pc'[r] # "check" /\ (pc'[r] \in Past => pc[r] \in Past)
      BY <1>5, <2>2 DEF GetHot, PutHot, Return, After, Then
    <3> QED BY <3>1, <3>2
  <2> QED BY <2>1, <2>2
<1>6. ASSUME NEW code \in Codes, Release(r, code) PROVE BarsHold(r)' /\ NotBarred(r)'
  BY <1>6 DEF Release, Finish
<1>7. CASE ReadHealthOK(r)
  BY <1>7 DEF ReadHealthOK
<1>8. CASE ReadHealthFailed(r)
  <2>1. pc'[r] \in {"idle", "quarGet", "patch"}
    BY <1>8 DEF ReadHealthFailed, Finish
  <2> QED BY <2>1
<1>9. CASE Patch(r)
  <2>1. pc'[r] \in {"idle", "syncGet"}
    BY <1>9 DEF Patch, Finish
  <2> QED BY <2>1
<1> QED
  BY <1>1, <1>2, <1>3, <1>4, <1>5, <1>6, <1>7, <1>8, <1>9 DEF RequestStep

\* An administrator makes an account leasable only by striking it off the
\* lists of the requests under way.
LEMMA AdminBars ==
  ASSUME TypeOK, TypeOK', BarInv, AdminStep \/ Tick
  PROVE  BarInv'
<1>1. ASSUME NEW op \in Admin, NEW a \in Accounts, AdminWrites(op, a) PROVE BarInv'
  <2>1. /\ UNCHANGED <<now, modelCool, pc, at, acct>>
        /\ cat' = [cat EXCEPT ![a] = [cat[a] EXCEPT
                      !.enabled = op = "enable" \/ (cat[a].enabled /\ op # "disable"),
                      !.listed = (op # "delete")]]
        /\ cat[a].listed
    BY <1>1 DEF AdminWrites, reqvars, TypeOK
  <2>2. \A r \in Requests : barred'[r] \subseteq barred[r] /\ (op = "enable" => a \notin barred'[r])
    BY <1>1 DEF AdminWrites, TypeOK
  <2>3. \A b \in Accounts : b # a \/ op # "enable" => (Leasable(cat'[b]) => Leasable(cat[b]))
    <3>1. cat[a] \in Row
      BY DEF TypeOK
    <3>2. op # "enable" => (Leasable(cat'[a]) => Leasable(cat[a]))
      BY <2>1, <3>1 DEF Leasable, Row, TypeOK
    <3>3. \A b \in Accounts \ {a} : cat'[b] = cat[b]
      BY <2>1 DEF TypeOK
    <3> QED BY <3>2, <3>3
  <2>4. ASSUME NEW r \in Requests PROVE BarsHold(r)' /\ NotBarred(r)'
    <3>1. ASSUME NEW b \in barred'[r], Barred(b, r, at[r]) PROVE Barred(b, r, at[r])'
      <4>1. b \in Accounts /\ (b # a \/ op # "enable")
        BY <2>2 DEF TypeOK
      <4> QED BY <2>1, <2>3, <3>1, <4>1 DEF Barred, ModelCooling
    <3> QED BY <2>1, <2>2, <3>1 DEF BarInv, BarsHold, NotBarred
  <2> QED BY <2>4 DEF BarInv
<1>2. CASE UNCHANGED <<catvars, pc, at, acct, barred>> /\ now' \in Nat /\ now <= now'
  <2>1. \A r \in Requests : \A b : Barred(b, r, at[r]) => Barred(b, r, at[r])'
    BY <1>2 DEF Barred, ModelCooling, catvars
  <2>2. ASSUME NEW r \in Requests PROVE BarsHold(r)' /\ NotBarred(r)'
    <3>1. at[r] \in Nat /\ now \in Nat
      BY LimitsAssumption DEF TypeOK
    <3> QED BY <1>2, <2>1, <3>1 DEF BarInv, BarsHold, NotBarred
  <2> QED BY <2>2 DEF BarInv
<1>3. now \in Nat
  BY LimitsAssumption DEF TypeOK
<1> QED
  BY <1>1, <1>2, <1>3
     DEF AdminStep, AdminDemotes, AdminGets, AdminPuts, ReloadBegins, ReloadLists, ReloadSwaps, Tick,
         catvars, reqvars, histvars

LEMMA BarStep == TypeOK /\ TypeOK' /\ BarInv /\ [Next]_vars => BarInv'
<1> SUFFICES ASSUME TypeOK, TypeOK', BarInv, [Next]_vars PROVE BarInv'
  OBVIOUS
<1>1. CASE UNCHANGED vars
  BY <1>1 DEF vars, BarInv, BarsHold, NotBarred, Barred, ModelCooling
<1>2. ASSUME NEW r \in Requests, RequestStep(r) PROVE BarInv'
  <2>1. BarsKept /\ OthersKept(r) /\ now' = now
    BY <1>2, RequestKeepsBars, RequestKeepsOthers
  <2>2. ASSUME NEW q \in Requests \ {r} PROVE BarsHold(q)' /\ NotBarred(q)'
    <3>1. at[q] \in Nat /\ barred[q] \subseteq Accounts
      BY DEF TypeOK
    <3>2. pc[q] = "check" => \A b \in barred[q] : Barred(b, q, at[q])'
      <4> SUFFICES ASSUME pc[q] = "check", NEW b \in barred[q] PROVE Barred(b, q, at[q])'
        OBVIOUS
      <4>1. Barred(b, q, at[q]) /\ at[q] <= now
        BY DEF BarInv, BarsHold
      <4>2. \A t \in Nat : t <= now /\ Barred(b, q, t) => Barred(b, q, t)'
        BY <2>1, <3>1, BarredKept
      <4>3. at'[q] = at[q]
        BY <2>1 DEF OthersKept
      <4> QED BY <3>1, <4>1, <4>2, <4>3 DEF Barred, ModelCooling
    <3> QED BY <2>1, <3>2 DEF BarInv, BarsHold, NotBarred, OthersKept
  <2> QED BY <1>2, <2>2, RequestBars DEF BarInv
<1> QED
  BY <1>1, <1>2, AdminBars DEF Next

\* No request holds a lease on an account that was barred when it picked.
THEOREM BarredNeverLeased == Spec => []NoLeaseWhenBarred
<1>1. Init => BarInv
  BY DEF Init, BarInv, BarsHold, NotBarred, Past
<1>2. BarInv => NoLeaseWhenBarred
  BY DEF BarInv, NotBarred, Past, NoLeaseWhenBarred
<1> QED
  BY <1>1, <1>2, BarStep, TypeCorrect, PTL DEF Spec


-----------------------------------------------------------------------------
(* The ledger.  With nobody but requests at the index (Admin = {}) the      *)
(* account of a request stays hot, so each lease is counted once when it is *)
(* taken and once when it is given back.                                    *)

LedgerInv ==
    /\ admin.op = "idle" /\ load.pc = "idle"
    /\ \A r \in Requests : pc[r] \notin {"idle", "pick"} => acct[r] \in DOMAIN hot
    /\ InflightExact

\* The index changed at most in fields other than the counts.
CountsKept ==
    /\ DOMAIN hot' = DOMAIN hot
    /\ \A a \in DOMAIN hot : hot'[a].inflight = hot[a].inflight

\* A request that neither takes nor gives back a lease.
LEMMA NoLeaseMoved ==
  ASSUME TypeOK, LedgerInv, NEW r \in Requests, OthersKept(r), CountsKept,
         pc[r] # "held", pc'[r] # "held",
         pc'[r] \notin {"idle", "pick"} => acct'[r] \in DOMAIN hot,
         UNCHANGED sysvars
  PROVE  LedgerInv'
<1>1. \A a : Holders(a)' = Holders(a)
  BY DEF Holders, OthersKept
<1>2. \A q \in Requests : pc'[q] \notin {"idle", "pick"} => acct'[q] \in DOMAIN hot'
  BY DEF LedgerInv, OthersKept, CountsKept
<1>3. InflightExact'
  BY <1>1 DEF LedgerInv, InflightExact, CountsKept
<1> QED
  BY <1>2, <1>3 DEF LedgerInv, sysvars

LEMMA HoldersFinite == \A a : IsFiniteSet(Holders(a)) /\ Cardinality(Holders(a)) \in Nat
<1>1. \A a : Holders(a) \subseteq Requests
  BY DEF Holders
<1> QED
  BY <1>1, RequestsAssumption, FS_Subset, FS_CardinalityType

\* Decremented and Incremented move the count of one account by one.
LEMMA CountMoves ==
  ASSUME NEW h, MetaMap(h), NEW a \in DOMAIN h
  PROVE  /\ DOMAIN Incremented(h, a) = DOMAIN h /\ DOMAIN Decremented(h, a) = DOMAIN h
         /\ Incremented(h, a)[a].inflight = h[a].inflight + 1
         /\ h[a].inflight > 0 => Decremented(h, a)[a].inflight = h[a].inflight - 1
         /\ \A b \in DOMAIN h \ {a} : /\ Incremented(h, a)[b] = h[b]
                                      /\ Decremented(h, a)[b] = h[b]
  BY DEF Incremented, Decremented, MetaMap, Meta

LEMMA LeaseTaken ==
  ASSUME TypeOK, LedgerInv, NEW r \in Requests, OthersKept(r), pc[r] = "add", pc'[r] = "held",
         NEW a, a = acct[r],
         acct' = acct, hot' = Incremented(hot, a), UNCHANGED sysvars
  PROVE  LedgerInv'
<1>1. a \in DOMAIN hot /\ MetaMap(hot)
  BY DEF LedgerInv, TypeOK
<1>2. \A b : b # a => Holders(b)' = Holders(b)
  BY DEF Holders, OthersKept
<1>3. Holders(a)' = Holders(a) \cup {r} /\ r \notin Holders(a)
  BY DEF Holders, OthersKept
<1>4. Cardinality(Holders(a)') = Cardinality(Holders(a)) + 1
  BY <1>3, HoldersFinite, FS_AddElement
<1>5. DOMAIN hot' = DOMAIN hot
  BY <1>1, CountMoves
<1>6. ASSUME NEW b \in DOMAIN hot PROVE hot'[b].inflight = Cardinality(Holders(b)')
  <2>1. CASE b = a
    BY <1>1, <1>4, <2>1, CountMoves DEF LedgerInv, InflightExact
  <2>2. CASE b # a
    BY <1>1, <1>2, <2>2, CountMoves DEF LedgerInv, InflightExact
  <2> QED BY <2>1, <2>2
<1> QED
  BY <1>1, <1>5, <1>6 DEF LedgerInv, InflightExact, OthersKept, sysvars

LEMMA LeaseReturned ==
  ASSUME TypeOK, LedgerInv, NEW r \in Requests, OthersKept(r), pc[r] = "held", pc'[r] # "held",
         NEW a, a = acct[r],
         hot' = Decremented(hot, a), UNCHANGED sysvars,
         pc'[r] \in {"idle", "pick"} \/ acct' = acct
  PROVE  LedgerInv'
<1>1. a \in DOMAIN hot /\ MetaMap(hot)
  BY DEF LedgerInv, TypeOK
<1>2. \A b : b # a => Holders(b)' = Holders(b)
  BY DEF Holders, OthersKept
<1>3. Holders(a)' = Holders(a) \ {r} /\ r \in Holders(a)
  BY DEF Holders, OthersKept
<1>4. Cardinality(Holders(a)') = Cardinality(Holders(a)) - 1 /\ Cardinality(Holders(a)) > 0
  BY <1>3, HoldersFinite, FS_RemoveElement, FS_EmptySet
<1>5. DOMAIN hot' = DOMAIN hot
  BY <1>1, CountMoves
<1>6. ASSUME NEW b \in DOMAIN hot PROVE hot'[b].inflight = Cardinality(Holders(b)')
  <2>1. CASE b = a
    BY <1>1, <1>4, <2>1, CountMoves DEF LedgerInv, InflightExact
  <2>2. CASE b # a
    BY <1>1, <1>2, <2>2, CountMoves DEF LedgerInv, InflightExact
  <2> QED BY <2>1, <2>2
<1> QED
  BY <1>1, <1>5, <1>6 DEF LedgerInv, InflightExact, OthersKept, sysvars

\* SetCooldown.
LEMMA CooldownKeepsCounts ==
  ASSUME NEW h, MetaMap(h), NEW a, NEW u,
         NEW g, g = [h EXCEPT ![a].coolUntil = u]
  PROVE  DOMAIN g = DOMAIN h /\ \A b \in DOMAIN h : g[b].inflight = h[b].inflight
<1>1. ASSUME NEW b \in DOMAIN h PROVE g[b].inflight = h[b].inflight
  <2>1. CASE b = a
    BY <2>1 DEF MetaMap, Meta
  <2>2. CASE b # a
    BY <2>2
  <2> QED BY <2>1, <2>2
<1> QED
  BY <1>1

LEMMA UpdateKeepsCounts ==
  ASSUME NEW h, MetaMap(h), NEW a \in DOMAIN h, NEW m \in Meta, NEW g \in Promoted(h, Cap, a, m)
  PROVE  DOMAIN g = DOMAIN h /\ \A b \in DOMAIN h : g[b].inflight = h[b].inflight
<1>1. g = [h EXCEPT ![a] = [m EXCEPT !.inflight = h[a].inflight]]
  BY DEF Promoted, Updated
<1>2. [m EXCEPT !.inflight = h[a].inflight].inflight = h[a].inflight
  BY DEF Meta
<1> QED
  BY <1>1, <1>2

LEMMA LedgerStep ==
  ASSUME Admin = {}, TypeOK, LedgerInv, NEW r \in Requests, RequestStep(r)
  PROVE  LedgerInv'
<1>0. OthersKept(r)
  BY RequestKeepsOthers
<1> USE <1>0 DEF Goto, histvars, TypeOK
<1>1. ASSUME NEW a \in Accounts, Pick(r, a) PROVE LedgerInv'
  BY <1>1, NoLeaseMoved DEF Pick, CountsKept
<1>2. CASE PickNone(r)
  BY <1>2, NoLeaseMoved DEF PickNone, Finish, CountsKept
<1>3. CASE Check(r)
  <2>1. pc'[r] # "held" /\ (pc'[r] \notin {"idle", "pick"} => acct'[r] = acct[r])
    BY <1>3 DEF Check, Egress, SoftFailure, Finish
  <2>2. UNCHANGED <<hot, sysvars>>
    BY <1>3 DEF Check
  <2> QED BY <1>3, <2>1, <2>2, NoLeaseMoved DEF CountsKept, LedgerInv, Check
<1>4. CASE AddInflight(r)
  <2>1. hot' = Incremented(hot, acct[r]) /\ pc'[r] = "held" /\ acct' = acct
    BY <1>4 DEF AddInflight, LedgerInv
  <2> QED BY <1>4, <2>1, LeaseTaken DEF AddInflight
<1>5. CASE GetHot(r)
  <2>1. pc'[r] # "held" /\ (pc'[r] \notin {"idle", "pick"} => acct'[r] = acct[r])
    BY <1>5 DEF GetHot, Return, Finish, After, Then
  <2>2. UNCHANGED <<hot, sysvars>> /\ pc[r] \notin {"idle", "pick", "held"}
    BY <1>5 DEF GetHot, After
  <2> QED BY <2>1, <2>2, NoLeaseMoved DEF CountsKept, LedgerInv
<1>6. CASE PutHot(r)
  <2>1. pc'[r] # "held" /\ (pc'[r] \notin {"idle", "pick"} => acct'[r] = acct[r])
    BY <1>6 DEF PutHot, Return, Finish, Then
  <2>2. UNCHANGED sysvars /\ pc[r] \notin {"idle", "pick", "held"} /\ acct[r] \in DOMAIN hot
    BY <1>6 DEF PutHot, LedgerInv
  <2>3. Edited(r) \in Meta
    BY <1>6, EditedTyped DEF PutHot
  <2>4. CountsKept
    BY <1>6, <2>2, <2>3, UpdateKeepsCounts DEF PutHot, CountsKept
  <2> QED BY <2>1, <2>2, <2>4, NoLeaseMoved
<1>7. ASSUME NEW code \in Codes, Release(r, code) PROVE LedgerInv'
  <2>1. hot' = Decremented(hot, acct[r])
    BY <1>7 DEF Release, Subtracted, LedgerInv
  <2>2. pc'[r] # "held" /\ (pc'[r] \in {"idle", "pick"} \/ acct' = acct)
    BY <1>7 DEF Release, Finish
  <2> QED BY <1>7, <2>1, <2>2, LeaseReturned DEF Release
<1>8. CASE ReadHealthOK(r)
  BY <1>8, NoLeaseMoved DEF ReadHealthOK, CountsKept, LedgerInv
<1>9. CASE ReadHealthFailed(r)
  <2>1. \/ hot' = hot
        \/ \E u : hot' = [hot EXCEPT ![acct[r]].coolUntil = u]
    BY <1>9 DEF ReadHealthFailed
  <2>2. CountsKept
    <3>1. CASE hot' = hot
      BY <3>1 DEF CountsKept
    <3>2. ASSUME NEW u, hot' = [hot EXCEPT ![acct[r]].coolUntil = u] PROVE CountsKept
      BY <3>2, CooldownKeepsCounts DEF CountsKept
    <3> QED BY <2>1, <3>1, <3>2
  <2>3. pc'[r] \in {"idle", "quarGet", "patch"} /\ (pc'[r] = "idle" \/ acct' = acct)
    BY <1>9 DEF ReadHealthFailed, Finish
  <2> QED BY <1>9, <2>2, <2>3, NoLeaseMoved DEF ReadHealthFailed, LedgerInv
<1>10. CASE Patch(r)
  <2>1. pc'[r] \in {"idle", "syncGet"} /\ (pc'[r] = "idle" \/ acct' = acct)
    BY <1>10 DEF Patch, Finish
  <2> QED BY <1>10, <2>1, NoLeaseMoved DEF Patch, LedgerInv, CountsKept
<1> QED
  BY <1>1, <1>2, <1>3, <1>4, <1>5, <1>6, <1>7, <1>8, <1>9, <1>10 DEF RequestStep

\* As long as requests alone touch the index, the count of every hot account
\* is the number of leases held on it.
THEOREM LedgerExact == ASSUME Admin = {} PROVE Spec => []InflightExact
<1>1. Init => LedgerInv
  <2>1. Init => \A a \in DOMAIN hot : Holders(a) = {} /\ hot[a].inflight = 0
    BY DEF Init, Holders, FreshMeta
  <2>2. Init => InflightExact
    BY <2>1, FS_EmptySet DEF InflightExact
  <2> QED BY <2>2 DEF Init, LedgerInv, NoAdmin, NoLoad
<1>2. TypeOK /\ LedgerInv /\ [Next]_vars => LedgerInv'
  <2> SUFFICES ASSUME TypeOK, LedgerInv, [Next]_vars PROVE LedgerInv'
    OBVIOUS
  <2>1. CASE AdminStep
    BY <2>1 DEF AdminStep, AdminWrites, AdminDemotes, AdminGets, AdminPuts, ReloadBegins,
                ReloadLists, ReloadSwaps, LedgerInv
  <2>2. CASE Tick \/ UNCHANGED vars
    BY <2>2 DEF Tick, vars, reqvars, sysvars, LedgerInv, InflightExact, Holders
  <2> QED BY <2>1, <2>2, LedgerStep DEF Next
<1>3. LedgerInv => InflightExact
  BY DEF LedgerInv
<1> QED
  BY <1>1, <1>2, <1>3, TypeCorrect, PTL DEF Spec


-----------------------------------------------------------------------------
(* Attempts and quarantine.                                                 *)

BudgetInv ==
    \A r \in Requests : /\ Cardinality(tried[r]) <= MaxAttempts
                        /\ pc[r] = "pick" => Cardinality(tried[r]) < MaxAttempts
                        /\ pc[r] = "idle" => tried[r] = {}

LEMMA BudgetStep == TypeOK /\ BudgetInv /\ [Next]_vars => BudgetInv'
<1> SUFFICES ASSUME TypeOK, BudgetInv, [Next]_vars PROVE BudgetInv'
  OBVIOUS
<1>0. Cardinality({}) = 0 /\ 0 < MaxAttempts /\ MaxAttempts \in Nat
  BY FS_EmptySet, LimitsAssumption
<1>1. CASE UNCHANGED <<pc, tried>>
  BY <1>1 DEF BudgetInv
<1>2. ASSUME NEW r \in Requests, RequestStep(r) PROVE BudgetInv'
  <2> USE DEF TypeOK, Goto
  <2>1. ASSUME NEW a \in Accounts, Pick(r, a) PROVE BudgetInv'
    <3>1. IsFiniteSet(tried[r]) /\ a \notin tried[r]
      BY <2>1, AccountsAssumption, FS_Subset DEF Pick
    <3>2. Cardinality(tried[r] \cup {a}) = Cardinality(tried[r]) + 1 /\ Cardinality(tried[r]) \in Nat
      BY <3>1, FS_AddElement, FS_CardinalityType
    <3>3. Cardinality(tried[r]) < MaxAttempts
      BY <1>0, <2>1 DEF Pick, BudgetInv
    <3> QED BY <2>1, <3>2, <3>3, LimitsAssumption DEF Pick, BudgetInv
  <2>2. CASE Finish(r)
    BY <1>0, <2>2 DEF Finish, BudgetInv
  <2>3. CASE SoftFailure(r)
    <3>1. IsFiniteSet(tried[r])
      BY AccountsAssumption, FS_Subset
    <3> QED BY <2>2, <2>3, <3>1, FS_CardinalityType, LimitsAssumption DEF SoftFailure, BudgetInv
  <2>4. CASE AddInflight(r)
    <3>1. CASE Goto(r, "held") /\ tried' = [tried EXCEPT ![r] = {}]
      BY <1>0, <3>1 DEF BudgetInv
    <3> QED BY <2>3, <2>4, <3>1 DEF AddInflight
  <2>5. CASE /\ tried' = tried
             /\ \E l \in Locations \ {"idle", "pick"} : Goto(r, l)
    BY <2>5 DEF BudgetInv
  <2>6. CASE GetHot(r) \/ PutHot(r)
    <3>1. Return(r) \/ (UNCHANGED tried /\ Goto(r, After[pc[r]]) /\ pc[r] \in DOMAIN After)
      BY <2>6 DEF GetHot, PutHot
    <3>2. pc[r] \in {"bindGet", "quarGet", "syncGet", "bindPut", "quarPut", "syncPut"}
      BY <2>6 DEF GetHot, PutHot, After
    <3> QED BY <2>2, <2>5, <3>1, <3>2 DEF Return, After, Then, Locations
  <2> QED
    BY <1>2, <2>1, <2>2, <2>3, <2>4, <2>5, <2>6
       DEF RequestStep, PickNone, Check, Egress, Release, ReadHealthOK, ReadHealthFailed, Patch,
           Locations
<1> QED
  BY <1>1, <1>2
     DEF Next, vars, AdminStep, AdminWrites, AdminDemotes, AdminGets, AdminPuts, ReloadBegins,
         ReloadLists, ReloadSwaps, Tick, reqvars

\* An Acquire never picks more accounts than its budget.
THEOREM AttemptsStayBounded == Spec => []AttemptsBounded
<1>1. Init => BudgetInv
  BY FS_EmptySet, LimitsAssumption DEF Init, BudgetInv
<1>2. BudgetInv => AttemptsBounded
  BY DEF BudgetInv, AttemptsBounded
<1> QED
  BY <1>1, <1>2, BudgetStep, TypeCorrect, PTL DEF Spec

\* A health patch keeps the quarantine and the switch of the row it finds.
LEMMA PatchedSticks ==
  ASSUME NEW row \in Row, NEW p \in PatchType
  PROVE  /\ row.quarantined => Patched(row, p).quarantined
         /\ Patched(row, p).enabled => row.enabled
<1>1. row.quarantined \in BOOLEAN /\ row.enabled \in BOOLEAN /\ p.quarantine \in BOOLEAN
  BY DEF Row, PatchType
<1>2. /\ Patched(row, p).quarantined = (row.quarantined \/ p.quarantine)
      /\ Patched(row, p).enabled = (row.enabled /\ ~p.quarantine)
  BY DEF Patched
<1> QED BY <1>1, <1>2

\* The row a lease quarantined stays so until an administrator acts.
THEOREM QuarantineAlwaysSticks == Spec => QuarantineSticks
<1> DEFINE Sticks == \A a \in Accounts :
               cat[a].quarantined => cat'[a].quarantined /\
                 (cat'[a].enabled => cat[a].enabled \/ admin' # admin)
<1>1. ASSUME TypeOK, [Next]_vars PROVE Sticks
  <2>1. CASE UNCHANGED cat
    BY <2>1
  <2>2. ASSUME NEW r \in Requests, Check(r) PROVE Sticks
    <3>1. CASE ~UNCHANGED cat
      <4>1. cat' = [cat EXCEPT ![acct[r]] = [cat[acct[r]] EXCEPT !.proxied = TRUE]]
        BY <2>2, <3>1 DEF Check, Egress
      <4>2. acct[r] \in Accounts /\ cat[acct[r]] \in Row
        BY <1>1, <2>2 DEF Check, TypeOK
      <4> QED BY <1>1, <4>1, <4>2 DEF TypeOK, Row
    <3> QED BY <2>1, <3>1
  <2>3. ASSUME NEW r \in Requests, Patch(r) PROVE Sticks
    <3>1. acct[r] \in Accounts /\ cat[acct[r]] \in Row /\ patch[r] \in PatchType
      BY <1>1, <2>3 DEF Patch, TypeOK
    <3> QED BY <1>1, <2>3, <3>1, PatchedSticks DEF Patch, TypeOK
  <2>4. ASSUME NEW op \in Admin, NEW a \in Accounts, AdminWrites(op, a) PROVE Sticks
    <3>1. admin' # admin
      BY <2>4, AdminAssumption DEF AdminWrites, NoAdmin, AdminOps
    <3>2. \A b \in Accounts : cat'[b].quarantined = cat[b].quarantined
      BY <1>1, <2>4 DEF AdminWrites, TypeOK, Row
    <3> QED BY <3>1, <3>2
  <2>5. ASSUME NEW r \in Requests, RequestStep(r) PROVE Sticks
    <3>1. ASSUME NEW a \in Accounts, Pick(r, a) PROVE UNCHANGED cat
      BY <3>1 DEF Pick, catvars
    <3>2. ASSUME NEW code \in Codes, Release(r, code) PROVE UNCHANGED cat
      BY <3>2 DEF Release, catvars
    <3>3. ASSUME PickNone(r) \/ AddInflight(r) \/ GetHot(r) \/ PutHot(r) PROVE UNCHANGED cat
      BY <3>3 DEF PickNone, AddInflight, GetHot, PutHot, catvars
    <3>4. ASSUME ReadHealthOK(r) \/ ReadHealthFailed(r) PROVE UNCHANGED cat
      BY <3>4 DEF ReadHealthOK, ReadHealthFailed, catvars
    <3> HIDE DEF Sticks
    <3> QED BY <2>1, <2>2, <2>3, <2>5, <3>1, <3>2, <3>3, <3>4 DEF RequestStep
  <2>6. ASSUME AdminStep PROVE Sticks
    <3>1. ASSUME AdminDemotes \/ AdminGets \/ AdminPuts PROVE UNCHANGED cat
      BY <3>1 DEF AdminDemotes, AdminGets, AdminPuts, catvars
    <3>2. ASSUME ReloadBegins \/ ReloadLists \/ ReloadSwaps PROVE UNCHANGED cat
      BY <3>2 DEF ReloadBegins, ReloadLists, ReloadSwaps, catvars
    <3> HIDE DEF Sticks
    <3> QED BY <2>1, <2>4, <2>6, <3>1, <3>2 DEF AdminStep
  <2>7. ASSUME Tick \/ UNCHANGED vars PROVE UNCHANGED cat
    BY <2>7 DEF Tick, vars, catvars
  <2> HIDE DEF Sticks
  <2> QED BY <1>1, <2>1, <2>5, <2>6, <2>7 DEF Next
<1>2. TypeOK /\ [Next]_vars => [Sticks]_vars
  BY <1>1
<1> QED
  BY <1>2, TypeCorrect, PTL DEF Spec, QuarantineSticks

=============================================================================
