------------------------- MODULE ClientRequest_proofs --------------------------
(***************************************************************************)
(* Proofs about a client request: first the failover loop of Executor, for *)
(* any number of requests and accounts, then the two translators of        *)
(* StreamTranslation, for any number of items in a response.               *)
(***************************************************************************)
EXTENDS ClientRequest, FiniteSetTheorems, SequenceTheorems, WellFoundedInduction, TLAPS

-------------------------------------------------------------------------------
(* The state of one request: l its local variables, r its reply, s what it *)
(* saw of upstream.                                                        *)

Holding == {"lease", "post", "answer", "refresh", "serve"}

Local == [pc : {"idle", "head", "draw"} \cup Holding,
          attempt : Nat \ {0}, tried : SUBSET Accounts,
          acct : Accounts \cup {NoAccount}, resp : Status \cup {None},
          again : BOOLEAN, limits : 0 .. MaxRateLimitFailovers,
          lastResp : Status \cup {None}, lastErr : BOOLEAN]
Answers == Status \cup {None, "error", "no_credential", "canceled"}
Seen == [latest : Status \cup {None}, limited : Nat, calls : Nat]

Typed ==
  /\ loc \in [Posts -> Local]
  /\ done \in SUBSET Posts
  /\ reply \in [Posts -> Answers]
  /\ seen \in [Posts -> Seen]

\* A request holds an account from the draw to the end of the attempt, and only
\* one that has a Refresher comes to refresh.
Holds(p, l) ==
  /\ l.acct # NoAccount <=> l.pc \in Holding
  /\ l.acct # NoAccount => l.acct \in l.tried
  /\ l.pc = "idle" => l.tried = {}
  /\ l.again => p \in Refreshing /\ l.pc \in {"post", "answer", "serve"}
  /\ l.pc = "refresh" => p \in Refreshing

\* Where the newest answer of upstream is kept.
Keeps(l, r, s) ==
  /\ l.pc = "idle" => /\ r \in Status => r = s.latest
                      /\ r \in {"error", "no_credential"} => s.latest = None
  /\ l.pc = "answer" => l.resp = s.latest /\ l.resp # None
  /\ l.pc = "serve" => r = "ok" /\ s.latest = "ok"
  /\ l.pc = "refresh" => s.latest = "unauthorized"
  /\ l.pc = "post" /\ l.again => s.latest = "unauthorized"
  /\ l.pc = "post" /\ ~l.again => l.lastResp = s.latest
  /\ l.pc \in {"head", "draw", "lease"} => l.lastResp = s.latest
  /\ l.pc \notin {"idle", "serve"} => r = None

\* What the request has cost the pool.
Costs(p, l, s) ==
  /\ l.pc = "idle" => s.limited = 0 /\ s.calls = 0
  /\ l.pc = "answer" /\ l.resp = "limited" => s.limited = l.limits + 1
  /\ l.pc # "idle" /\ ~(l.pc = "answer" /\ l.resp = "limited") => s.limited = l.limits
  /\ s.calls <= 2 /\ (p \notin Refreshing => s.calls <= 1)
  /\ l.pc = "lease" => s.calls = 0
  /\ l.pc = "post" /\ ~l.again => s.calls = 0
  /\ l.pc = "post" /\ l.again => s.calls = 1
  /\ l.pc = "refresh" => s.calls = 1
  /\ l.pc = "answer" /\ ~l.again => s.calls = 1

Sound(p, l, r, s) == Holds(p, l) /\ Keeps(l, r, s) /\ Costs(p, l, s)

Inv == Typed /\ \A p \in Posts : Sound(p, loc[p], reply[p], seen[p])

\* A step leaves request p with these, sound, and the other requests alone.
Becomes(p, l, r, s) ==
  /\ l \in Local /\ r \in Answers /\ s \in Seen /\ Sound(p, l, r, s)
  /\ loc' = [loc EXCEPT ![p] = l]
  /\ reply' = [reply EXCEPT ![p] = r]
  /\ seen' = [seen EXCEPT ![p] = s]
  /\ done' \in SUBSET Posts

\* Nothing of the other requests changes.
OthersKept(p) == \A q \in Posts \ {p} : loc'[q] = loc[q] /\ reply'[q] = reply[q] /\ seen'[q] = seen[q]

-------------------------------------------------------------------------------
(* What a step may do with the lease: nothing, take one or give one back.  *)

Quiet(p) == loc'[p].acct = loc[p].acct /\ UNCHANGED inflight
Takes(p) ==
  /\ loc[p].acct = NoAccount /\ loc'[p].acct \in Accounts
  /\ AddInflight(loc'[p].acct)
Gives(p) == loc[p].acct \in Accounts /\ loc'[p].acct = NoAccount /\ Release(p)

StepOf(p) ==
  /\ \E l \in Local, r \in Answers, s \in Seen : Becomes(p, l, r, s)
  /\ Quiet(p) \/ Takes(p) \/ Gives(p)

USE ExecutorAssumption DEF MaxRateLimitFailovers

\* What the invariant says of one request.
LEMMA Before ==
  ASSUME Inv, NEW p \in Posts
  PROVE  /\ loc[p] \in Local /\ reply[p] \in Answers /\ seen[p] \in Seen
         /\ Sound(p, loc[p], reply[p], seen[p])
         /\ loc = [loc EXCEPT ![p] = loc[p]]
         /\ reply = [reply EXCEPT ![p] = reply[p]]
         /\ seen = [seen EXCEPT ![p] = seen[p]]
         /\ done \in SUBSET Posts
BY DEF Inv, Typed

\* A step of one request is seen at that request only.
LEMMA StepTaken ==
  ASSUME Inv, NEW p \in Posts, NEW l, NEW r, NEW s, Becomes(p, l, r, s)
  PROVE  loc'[p] = l /\ Inv' /\ OthersKept(p)
<1>1. Typed' /\ loc'[p] = l /\ reply'[p] = r /\ seen'[p] = s /\ OthersKept(p)
  BY DEF Becomes, Inv, Typed, OthersKept
<1>2. ASSUME NEW q \in Posts PROVE Sound(q, loc[q], reply[q], seen[q])'
  <2>1. CASE q = p
    BY <2>1, <1>1 DEF Becomes, Sound, Holds, Keeps, Costs
  <2>2. CASE q # p
    BY <2>2, <1>1 DEF Inv, OthersKept, Sound, Holds, Keeps, Costs
  <2> QED BY <2>1, <2>2
<1> QED BY <1>1, <1>2 DEF Inv


-------------------------------------------------------------------------------
(* The two ways an attempt ends.                                           *)

\* The loop's continue is sound when it keeps the newest answer.
LEMMA NextAttemptSound ==
  ASSUME Inv, NEW p \in Posts, NEW resp \in Status \cup {None},
         NEW limits \in 0 .. MaxRateLimitFailovers, NEW t \in Seen,
         resp = t.latest, limits = t.limited,
         t.calls <= 2, p \notin Refreshing => t.calls <= 1,
         reply[p] = None, NextAttempt(p, resp, limits),
         seen' = [seen EXCEPT ![p] = t], UNCHANGED <<done, reply>>
  PROVE  \E m \in Local : m.acct = NoAccount /\ Becomes(p, m, None, t)
<1> DEFINE l == loc[p]
           m == [l EXCEPT !.pc = "head", !.attempt = @ + 1, !.acct = NoAccount, !.resp = None,
                          !.again = FALSE, !.lastResp = resp, !.lastErr = TRUE, !.limits = limits]
<1>1. l \in Local
  BY Before
<1>2. loc' = [loc EXCEPT ![p] = m]
  BY DEF NextAttempt
<1> HIDE DEF l
<1>a. l.attempt + 1 \in Nat \ {0}
  BY <1>1 DEF Local
<1>3. m \in Local
  <2>1. "head" \in {"idle", "head", "draw"} \cup Holding /\ None \in Status \cup {None}
    OBVIOUS
  <2> QED BY <1>1, <1>a, <2>1 DEF Local
<1>4. /\ m.pc = "head" /\ m.acct = NoAccount /\ m.again = FALSE
      /\ m.lastResp = resp /\ m.limits = limits
  BY <1>1 DEF Local
<1> HIDE DEF m
<1>5. Sound(p, m, None, t)
  BY <1>4 DEF Sound, Holds, Holding, Keeps, Costs
<1>6. reply' = [reply EXCEPT ![p] = None] /\ done' \in SUBSET Posts
  BY Before
<1>7. None \in Answers
  BY DEF Answers
<1> QED BY <1>2, <1>3, <1>4, <1>5, <1>6, <1>7 DEF Becomes

\* A return is sound when its answer is the newest one.
LEMMA ReturnSound ==
  ASSUME Inv, NEW p \in Posts, NEW answer \in Answers, Return(p, answer),
         answer \in Status => answer = seen[p].latest,
         answer \in {"error", "no_credential"} => seen[p].latest = None
  PROVE  /\ Idle \in Local /\ Idle.acct = NoAccount
         /\ \E t \in Seen : Becomes(p, Idle, answer, t)
<1> DEFINE t == [Unseen EXCEPT !.latest = seen[p].latest]
<1>1. Idle \in Local /\ Idle.acct = NoAccount
  BY DEF Idle, Local, Holding, Status, None
<1>2. t \in Seen /\ t.latest = seen[p].latest /\ t.limited = 0 /\ t.calls = 0
  BY Before DEF Unseen, Seen
<1>3. seen' = [seen EXCEPT ![p] = t] /\ done' \in SUBSET Posts
  BY Before DEF Return
<1> HIDE DEF t
<1>4. Sound(p, Idle, answer, t)
  BY <1>2 DEF Sound, Holds, Holding, Keeps, Costs, Idle
<1> QED BY <1>1, <1>2, <1>3, <1>4 DEF Becomes, Return

\* The lease stays where it is.
LEMMA Stays ==
  ASSUME Inv, NEW p \in Posts, NEW m \in Local, NEW r \in Answers, NEW t \in Seen,
         Becomes(p, m, r, t), m.acct = loc[p].acct, UNCHANGED inflight
  PROVE  StepOf(p)
BY StepTaken DEF Quiet, StepOf

\* The lease goes back.
LEMMA GoesBack ==
  ASSUME Inv, NEW p \in Posts, NEW m \in Local, NEW r \in Answers, NEW t \in Seen,
         Becomes(p, m, r, t), loc[p].acct # NoAccount, m.acct = NoAccount, Release(p)
  PROVE  StepOf(p)
<1>1. loc[p].acct \in Accounts
  BY Before DEF Local
<1> QED BY <1>1, StepTaken DEF Gives, StepOf

-------------------------------------------------------------------------------
\* Every step of a request keeps its state sound and moves its lease with it.
LEMMA OneStep ==
  ASSUME Inv, NEW p \in Posts, Call(p) \/ Cancel(p) \/ Step(p)
  PROVE  StepOf(p)
<1> DEFINE l == loc[p]  r == reply[p]  s == seen[p]
<1>0. /\ l \in Local /\ r \in Answers /\ s \in Seen /\ Sound(p, l, r, s)
      /\ loc = [loc EXCEPT ![p] = l] /\ reply = [reply EXCEPT ![p] = r] /\ seen = [seen EXCEPT ![p] = s]
      /\ done \in SUBSET Posts
  BY Before
<1>a. LastAnswer(p) = IF l.lastResp # None THEN l.lastResp
                      ELSE IF l.lastErr THEN "error" ELSE "no_credential"
  BY DEF LastAnswer
<1>b. None \in Answers /\ Status \subseteq Answers /\ "canceled" \in Answers
  BY DEF Answers
<1> HIDE DEF l, r, s
<1>c. ASSUME l.pc \in {"head", "draw"}
      PROVE  /\ LastAnswer(p) \in Answers
             /\ LastAnswer(p) \in Status => LastAnswer(p) = s.latest
             /\ LastAnswer(p) \in {"error", "no_credential"} => s.latest = None
  BY <1>0, <1>a, <1>c DEF Local, Answers, Status, None, Sound, Keeps
<1>1. CASE Call(p)
  <2> DEFINE m == [Idle EXCEPT !.pc = "head"]
  <2>1. Idle \in Local /\ Unseen \in Seen
    BY DEF Local, Holding, Idle, Unseen, Seen, Status, None
  <2>2. m \in Local
    BY <2>1 DEF Local, Holding
  <2>3. Sound(p, m, None, Unseen)
    BY DEF Sound, Holds, Holding, Keeps, Costs, Idle, Unseen, None
  <2>4. Becomes(p, m, None, Unseen)
    BY <1>0, <1>1, <1>b, <2>1, <2>2, <2>3 DEF Call, Becomes
  <2>5. l.acct = NoAccount /\ m.acct = NoAccount
    BY <1>0, <1>1 DEF Call, At, l, Sound, Holds, Holding, Idle
  <2> QED BY <1>1, <1>b, <2>1, <2>2, <2>4, <2>5, Stays DEF Call, l
<1>2. CASE Cancel(p)
  <2>1. Becomes(p, l, r, s)
    BY <1>0, <1>2 DEF Cancel, Becomes
  <2> QED BY <1>0, <1>2, <2>1, Stays DEF Cancel, l
<1>3. CASE LoopHead(p)
  <2>1. l.pc = "head" /\ l.acct = NoAccount
    BY <1>0, <1>3 DEF LoopHead, At, l, Sound, Holds, Holding
  <2>2. CASE Return(p, LastAnswer(p))
    <3>1. \E t \in Seen : Becomes(p, Idle, LastAnswer(p), t) /\ Idle \in Local /\ Idle.acct = NoAccount
      BY <2>1, <2>2, <1>c, ReturnSound DEF s
    <3> QED BY <3>1, <2>1, <1>3, <1>c, Stays DEF LoopHead, l
  <2>3. CASE Return(p, "canceled")
    <3>1. \E t \in Seen : Becomes(p, Idle, "canceled", t) /\ Idle \in Local /\ Idle.acct = NoAccount
      BY <2>1, <2>3, <1>b, ReturnSound DEF Status
    <3> QED BY <3>1, <2>1, <1>3, <1>b, Stays DEF LoopHead, l
  <2>4. CASE loc' = [loc EXCEPT ![p].pc = "draw"] /\ UNCHANGED <<done, reply, seen>>
    <3> DEFINE m == [l EXCEPT !.pc = "draw"]
    <3>1. m \in Local /\ m.acct = l.acct
      BY <1>0 DEF Local
    <3>2. Sound(p, m, r, s)
      BY <1>0, <2>1 DEF Local, Sound, Holds, Holding, Keeps, Costs
    <3>3. Becomes(p, m, r, s)
      BY <1>0, <2>4, <3>1, <3>2 DEF Becomes, l
    <3> QED BY <1>0, <1>3, <3>1, <3>3, Stays DEF LoopHead, l
  <2> QED BY <1>3, <2>2, <2>3, <2>4 DEF LoopHead
<1>4. CASE DrawNone(p)
  <2>1. l.pc = "draw" /\ l.acct = NoAccount
    BY <1>0, <1>4 DEF DrawNone, At, l, Sound, Holds, Holding
  <2>2. \E t \in Seen : Becomes(p, Idle, LastAnswer(p), t) /\ Idle \in Local /\ Idle.acct = NoAccount
    BY <2>1, <1>4, <1>c, ReturnSound DEF DrawNone, s
  <2> QED BY <2>1, <2>2, <1>4, <1>c, Stays DEF DrawNone, l
<1>5. CASE DrawMiss(p)
  <2>1. /\ l.pc = "draw" /\ l.acct = NoAccount /\ r = None /\ l.lastResp = s.latest
        /\ l.limits = s.limited /\ s.calls <= 2 /\ (p \notin Refreshing => s.calls <= 1)
    BY <1>0, <1>5 DEF DrawMiss, At, l, Sound, Holds, Holding, Keeps, Costs
  <2>2. CASE NextAttempt(p, l.lastResp, l.limits)
    <3>1. \E m \in Local : m.acct = NoAccount /\ Becomes(p, m, None, s)
      <4>1. l.lastResp \in Status \cup {None} /\ l.limits \in 0 .. MaxRateLimitFailovers
        BY <1>0 DEF Local
      <4>2. seen' = [seen EXCEPT ![p] = s] /\ UNCHANGED <<done, reply>> /\ reply[p] = None
        BY <1>0, <1>5, <2>1 DEF DrawMiss, r
      <4> QED BY <1>0, <2>1, <2>2, <4>1, <4>2, NextAttemptSound
    <3> QED BY <1>0, <1>5, <1>b, <2>1, <3>1, Stays DEF DrawMiss, l
  <2>3. ASSUME NEW a \in Accounts \ loc[p].tried,
               loc' = [loc EXCEPT ![p] = [loc[p] EXCEPT !.pc = "head", !.attempt = @ + 1,
                                            !.tried = @ \cup {a}, !.lastErr = TRUE]]
        PROVE  StepOf(p)
    <3> DEFINE m == [l EXCEPT !.pc = "head", !.attempt = @ + 1, !.tried = @ \cup {a}, !.lastErr = TRUE]
    <3>a. l.attempt + 1 \in Nat \ {0} /\ l.tried \cup {a} \in SUBSET Accounts
      BY <1>0 DEF Local
    <3>1. m \in Local /\ m.acct = l.acct
      BY <1>0, <3>a DEF Local, Holding
    <3>2. Sound(p, m, r, s)
      BY <1>0, <2>1 DEF Local, Sound, Holds, Holding, Keeps, Costs
    <3>3. Becomes(p, m, r, s)
      BY <1>0, <1>5, <2>3, <3>1, <3>2 DEF DrawMiss, Becomes, l
    <3> QED BY <1>0, <1>5, <3>1, <3>3, Stays DEF DrawMiss, l
  <2> QED BY <1>5, <2>2, <2>3 DEF DrawMiss, l
<1>6. CASE DrawLease(p)
  <2>1. PICK a \in Accounts \ loc[p].tried :
          /\ loc' = [loc EXCEPT ![p] = [loc[p] EXCEPT !.pc = "lease", !.tried = @ \cup {a}, !.acct = a]]
          /\ AddInflight(a)
    BY <1>6 DEF DrawLease
  <2> DEFINE m == [l EXCEPT !.pc = "lease", !.tried = @ \cup {a}, !.acct = a]
             t == [s EXCEPT !.calls = 0]
  <2>2. m \in Local /\ t \in Seen /\ m.acct = a
    BY <1>0 DEF Local, Holding, Seen
  <2>3. l.pc = "draw" /\ l.acct = NoAccount
    BY <1>0, <1>6 DEF DrawLease, At, l, Sound, Holds, Holding
  <2>4. Sound(p, m, r, t)
    BY <1>0, <2>2, <2>3 DEF Local, Seen, Sound, Holds, Holding, Keeps, Costs
  <2>5. seen' = [seen EXCEPT ![p] = t] /\ done' = done /\ reply' = reply
    BY <1>6 DEF DrawLease, s
  <2>6. Becomes(p, m, r, t)
    BY <1>0, <2>1, <2>2, <2>4, <2>5 DEF Becomes, l
  <2>7. loc'[p] = m
    BY <2>6, StepTaken
  <2> HIDE DEF m
  <2>8. Takes(p)
    BY <2>1, <2>2, <2>3, <2>7 DEF Takes, l
  <2> QED BY <1>0, <2>2, <2>6, <2>8 DEF StepOf
<1>7. CASE Prepare(p)
  <2>1. /\ l.pc = "lease" /\ l.acct # NoAccount /\ r = None /\ l.lastResp = s.latest
        /\ l.limits = s.limited /\ s.calls = 0
    BY <1>0, <1>7 DEF Prepare, At, l, Sound, Holds, Holding, Keeps, Costs
  <2>2. CASE loc' = [loc EXCEPT ![p].pc = "post"] /\ UNCHANGED inflight
    <3> DEFINE m == [l EXCEPT !.pc = "post"]
    <3>1. m \in Local /\ m.acct = l.acct
      BY <1>0 DEF Local, Holding
    <3>2. Sound(p, m, r, s)
      BY <1>0, <2>1 DEF Local, Sound, Holds, Holding, Keeps, Costs
    <3>3. Becomes(p, m, r, s)
      BY <1>0, <1>7, <2>2, <3>1, <3>2 DEF Prepare, Becomes, l
    <3> QED BY <1>0, <2>2, <3>1, <3>3, Stays DEF l
  <2>3. CASE NextAttempt(p, l.lastResp, l.limits) /\ Release(p)
    <3>1. \E m \in Local : m.acct = NoAccount /\ Becomes(p, m, None, s)
      BY <1>0, <1>7, <2>1, <2>3, NextAttemptSound DEF Prepare, Local, r, Seen
    <3> QED BY <1>0, <1>b, <2>1, <2>3, <3>1, GoesBack DEF l
  <2> QED BY <1>7, <2>2, <2>3 DEF Prepare, l
<1>8. CASE PostAnswered(p)
  <2>1. PICK a \in Status :
          /\ loc' = [loc EXCEPT ![p] = [loc[p] EXCEPT !.pc = "answer", !.resp = a]]
          /\ seen' = [seen EXCEPT ![p] = [latest |-> a, calls |-> seen[p].calls + 1,
                        limited |-> IF a = "limited" THEN seen[p].limited + 1 ELSE seen[p].limited]]
    BY <1>8 DEF PostAnswered
  <2> DEFINE m == [l EXCEPT !.pc = "answer", !.resp = a]
             t == [latest |-> a, calls |-> s.calls + 1,
                   limited |-> IF a = "limited" THEN s.limited + 1 ELSE s.limited]
  <2>a. m \in Local /\ m.acct = l.acct
    BY <1>0 DEF Local, Holding
  <2>b. s.calls + 1 \in Nat /\ s.limited + 1 \in Nat /\ s.limited \in Nat
    BY <1>0 DEF Seen
  <2>2. m \in Local /\ t \in Seen /\ m.acct = l.acct
    BY <2>a, <2>b DEF Seen
  <2>3. l.pc = "post"
    BY <1>8 DEF PostAnswered, At, l
  <2>4. Sound(p, m, r, t)
    BY <1>0, <2>2, <2>3 DEF Local, Seen, Sound, Holds, Holding, Keeps, Costs, Status, None
  <2>5. Becomes(p, m, r, t)
    BY <1>0, <1>8, <2>1, <2>2, <2>4 DEF PostAnswered, Becomes, l, s
  <2> QED BY <1>0, <1>8, <2>2, <2>5, Stays DEF PostAnswered, l
<1>9. CASE PostFailed(p)
  <2> DEFINE t == [s EXCEPT !.calls = @ + 1]
             last == IF l.again THEN "unauthorized" ELSE l.lastResp
  <2>1. l.pc = "post" /\ l.acct # NoAccount /\ r = None /\ last = s.latest /\ l.limits = s.limited
    BY <1>0, <1>9 DEF PostFailed, At, l, Sound, Holds, Holding, Keeps, Costs
  <2>2. t \in Seen /\ t.latest = s.latest /\ t.limited = s.limited /\ t.calls = s.calls + 1
    BY <1>0 DEF Seen
  <2>3. t.calls <= 2 /\ (p \notin Refreshing => t.calls <= 1)
    BY <1>0, <2>1, <2>2 DEF Sound, Holds, Costs
  <2>4. last \in Status \cup {None} /\ l.limits \in 0 .. MaxRateLimitFailovers
    BY <1>0 DEF Local, Status
  <2>5. NextAttempt(p, last, l.limits) /\ Release(p) /\ UNCHANGED <<done, reply>>
    BY <1>9 DEF PostFailed, l
  <2>6. seen' = [seen EXCEPT ![p] = t]
    BY <1>9 DEF PostFailed, s
  <2> HIDE DEF t, last
  <2>7. \E m \in Local : m.acct = NoAccount /\ Becomes(p, m, None, t)
    BY <2>1, <2>2, <2>3, <2>4, <2>5, <2>6, NextAttemptSound DEF r
  <2> QED BY <1>b, <2>1, <2>2, <2>5, <2>7, GoesBack DEF l
<1>10. CASE AnswerFinal(p)
  <2>1. l.pc = "answer" /\ l.acct # NoAccount /\ l.resp \in Status /\ l.resp = s.latest
    BY <1>0, <1>10 DEF AnswerFinal, At, l, Sound, Holds, Holding, Keeps, Local
  <2>2. \E t \in Seen : Becomes(p, Idle, l.resp, t) /\ Idle \in Local /\ Idle.acct = NoAccount
    BY <1>10, <1>b, <2>1, ReturnSound DEF AnswerFinal, l, s, Status
  <2> QED BY <1>10, <1>b, <2>1, <2>2, GoesBack DEF AnswerFinal, l
<1>11. CASE AnswerServe(p)
  <2> DEFINE m == [l EXCEPT !.pc = "serve"]
  <2>1. l.pc = "answer" /\ l.resp = "ok"
    BY <1>11 DEF AnswerServe, At, l
  <2>2. m \in Local /\ m.acct = l.acct
    BY <1>0 DEF Local, Holding
  <2>3. Sound(p, m, "ok", s)
    BY <1>0, <2>1 DEF Local, Sound, Holds, Holding, Keeps, Costs, None
  <2>4. Becomes(p, m, "ok", s) /\ "ok" \in Answers
    BY <1>0, <1>11, <1>b, <2>2, <2>3 DEF AnswerServe, Becomes, l, Status
  <2> QED BY <1>0, <1>11, <2>2, <2>4, Stays DEF AnswerServe, l
<1>12. CASE AnswerRefresh(p)
  <2> DEFINE m == [l EXCEPT !.pc = "refresh"]
  <2>1. l.pc = "answer" /\ l.resp = "unauthorized" /\ p \in Refreshing /\ ~l.again
    BY <1>12 DEF AnswerRefresh, At, l
  <2>2. m \in Local /\ m.acct = l.acct
    BY <1>0 DEF Local, Holding
  <2>3. Sound(p, m, r, s)
    BY <1>0, <2>1 DEF Local, Sound, Holds, Holding, Keeps, Costs, None
  <2>4. Becomes(p, m, r, s)
    BY <1>0, <1>12, <2>2, <2>3 DEF AnswerRefresh, Becomes, l
  <2> QED BY <1>0, <1>12, <2>2, <2>4, Stays DEF AnswerRefresh, l
<1>13. CASE AnswerFailover(p)
  <2> DEFINE limits == l.limits + (IF l.resp = "limited" THEN 1 ELSE 0)
  <2>1. /\ l.pc = "answer" /\ l.acct # NoAccount /\ l.resp \in Status /\ l.resp = s.latest
        /\ r = None /\ limits = s.limited /\ s.calls <= 2 /\ (p \notin Refreshing => s.calls <= 1)
    BY <1>0, <1>13 DEF AnswerFailover, At, l, Sound, Holds, Holding, Keeps, Costs, Local
  <2>2. Release(p)
    BY <1>13 DEF AnswerFailover
  <2>3. CASE Return(p, l.resp)
    <3>1. \E t \in Seen : Becomes(p, Idle, l.resp, t) /\ Idle \in Local /\ Idle.acct = NoAccount
      BY <2>3, <1>b, <2>1, ReturnSound DEF s, Status
    <3> QED BY <1>b, <2>1, <2>2, <3>1, GoesBack DEF l
  <2>4. CASE /\ ~(limits > MaxRateLimitFailovers /\ l.resp = "limited")
             /\ NextAttempt(p, l.resp, limits) /\ UNCHANGED <<done, reply, seen>>
    <3>1. limits \in 0 .. MaxRateLimitFailovers
      BY <1>0, <2>4 DEF Local
    <3>2. \E m \in Local : m.acct = NoAccount /\ Becomes(p, m, None, s)
      BY <1>0, <2>1, <2>4, <3>1, NextAttemptSound DEF r
    <3> QED BY <1>0, <1>b, <2>1, <2>2, <3>2, GoesBack DEF l
  <2> QED BY <1>13, <2>3, <2>4 DEF AnswerFailover, l
<1>14. CASE Refresh(p)
  <2>1. /\ l.pc = "refresh" /\ p \in Refreshing /\ ~l.again /\ l.acct # NoAccount /\ r = None
        /\ s.latest = "unauthorized" /\ l.limits = s.limited /\ s.calls = 1
    BY <1>0, <1>14 DEF Refresh, At, l, Sound, Holds, Holding, Keeps, Costs
  <2>2. CASE loc' = [loc EXCEPT ![p] = [loc[p] EXCEPT !.pc = "post", !.resp = None, !.again = TRUE]]
             /\ UNCHANGED inflight
    <3> DEFINE m == [l EXCEPT !.pc = "post", !.resp = None, !.again = TRUE]
    <3>1. m \in Local /\ m.acct = l.acct
      BY <1>0 DEF Local, Holding
    <3>2. Sound(p, m, r, s)
      BY <1>0, <2>1 DEF Local, Sound, Holds, Holding, Keeps, Costs
    <3>3. Becomes(p, m, r, s)
      BY <1>0, <1>14, <2>2, <3>1, <3>2 DEF Refresh, Becomes, l
    <3> QED BY <1>0, <2>2, <3>1, <3>3, Stays DEF l
  <2>3. CASE NextAttempt(p, "unauthorized", l.limits) /\ Release(p)
    <3>1. \E m \in Local : m.acct = NoAccount /\ Becomes(p, m, None, s)
      BY <1>0, <1>14, <2>1, <2>3, NextAttemptSound DEF Refresh, Local, Status, r
    <3> QED BY <1>0, <1>b, <2>1, <2>3, <3>1, GoesBack DEF l
  <2> QED BY <1>14, <2>2, <2>3 DEF Refresh, l
<1>15. CASE Close(p)
  <2>1. l.pc = "serve" /\ l.acct # NoAccount /\ r = "ok" /\ s.latest = "ok"
    BY <1>0, <1>15 DEF Close, At, l, Sound, Holds, Holding, Keeps
  <2>2. \E t \in Seen : Becomes(p, Idle, r, t) /\ Idle \in Local /\ Idle.acct = NoAccount
    BY <1>0, <1>15, <2>1, ReturnSound DEF Close, r, s
  <2> QED BY <1>0, <1>15, <2>1, <2>2, GoesBack DEF Close, l
<1> QED
  BY <1>1, <1>2, <1>3, <1>4, <1>5, <1>6, <1>7, <1>8, <1>9, <1>10, <1>11, <1>12, <1>13, <1>14, <1>15
     DEF Step

\* The initial state is sound.
LEMMA InvInit == Init => Inv
<1> SUFFICES ASSUME Init PROVE Inv
  OBVIOUS
<1>1. Idle \in Local /\ Unseen \in Seen /\ None \in Answers
  BY DEF Idle, Local, Holding, Unseen, Seen, Answers, Status, None
<1>2. \A p \in Posts : Sound(p, Idle, None, Unseen)
  BY DEF Sound, Holds, Holding, Keeps, Costs, Idle, Unseen, Status, None
<1> QED BY <1>1, <1>2 DEF Init, Inv, Typed

\* Every step keeps every request sound.
LEMMA InvStep == Inv /\ [Next]_vars => Inv'
<1> SUFFICES ASSUME Inv, [Next]_vars PROVE Inv'
  OBVIOUS
<1>1. CASE UNCHANGED vars
  BY <1>1 DEF vars, Inv, Typed, Sound, Holds, Keeps, Costs
<1>2. ASSUME NEW p \in Posts, Call(p) \/ Cancel(p) \/ Step(p) PROVE Inv'
  BY <1>2, OneStep, StepTaken DEF StepOf
<1> QED
  BY <1>1, <1>2 DEF Next

\* The local state of each request is sound: the invariant the theorems rest on.
LEMMA InvAlways == Spec => []Inv
  BY InvInit, InvStep, PTL DEF Spec

\* A client gets the newest answer upstream gave it, and its cost to the pool is
\* bounded, on every path of the failover loop.
THEOREM AnswersAlwaysWell == Spec => []AnswersWell
<1>1. Inv => AnswersWell
  <2> SUFFICES ASSUME Inv, NEW p \in Posts
      PROVE  /\ reply[p] \in Status => reply[p] = seen[p].latest
             /\ reply[p] \in {"error", "no_credential"} => seen[p].latest = None
             /\ seen[p].limited <= MaxRateLimitFailovers + 1
             /\ seen[p].calls <= IF p \in Refreshing THEN 2 ELSE 1
    BY DEF AnswersWell, AnswersLatest, UpstreamSpared
  <2> DEFINE l == loc[p]  r == reply[p]  s == seen[p]
  <2>1. l \in Local /\ r \in Answers /\ s \in Seen /\ Sound(p, l, r, s)
    BY Before
  <2> HIDE DEF l, r, s
  <2>2. r \in Status => r = s.latest
    BY <2>1 DEF Sound, Keeps, Local, Holding, Status, None
  <2>3. r \in {"error", "no_credential"} => s.latest = None
    BY <2>1 DEF Sound, Keeps, Local, Holding, None
  <2>4. s.limited <= MaxRateLimitFailovers + 1 /\ s.calls <= IF p \in Refreshing THEN 2 ELSE 1
    BY <2>1 DEF Sound, Costs, Local, Seen
  <2> QED BY <2>2, <2>3, <2>4 DEF l, r, s
<1> QED
  BY <1>1, InvAlways, PTL

-------------------------------------------------------------------------------
(* The ledger.                                                             *)

HoldersOf(a) == {p \in Posts : loc[p].acct = a}

Ledger == inflight \in [Accounts -> Nat] /\ \A a \in Accounts : inflight[a] = Cardinality(HoldersOf(a))

\* The requests that hold an account can be counted.
LEMMA HoldersFinite == \A a : IsFiniteSet(HoldersOf(a)) /\ Cardinality(HoldersOf(a)) \in Nat
<1>1. \A a : HoldersOf(a) \subseteq Posts
  BY DEF HoldersOf
<1> QED
  BY <1>1, FS_Subset, FS_CardinalityType

\* The index counts up and down with the lease of the one request that moves.
LEMMA LedgerStep ==
  ASSUME Inv, Ledger, NEW p \in Posts, OthersKept(p), Quiet(p) \/ Takes(p) \/ Gives(p)
  PROVE  Ledger'
<1>1. CASE Quiet(p)
  <2>1. \A a : HoldersOf(a)' = HoldersOf(a)
    BY <1>1 DEF HoldersOf, Quiet, OthersKept
  <2> QED BY <1>1, <2>1 DEF Quiet, Ledger
<1>2. CASE Takes(p)
  <2>0. PICK b \in Accounts :
          b = loc'[p].acct /\ loc[p].acct = NoAccount /\ inflight' = [inflight EXCEPT ![b] = @ + 1]
    BY <1>2 DEF Takes, AddInflight
  <2>1. HoldersOf(b)' = HoldersOf(b) \cup {p} /\ p \notin HoldersOf(b)
    BY <2>0 DEF HoldersOf, OthersKept
  <2>2. \A a \in Accounts \ {b} : HoldersOf(a)' = HoldersOf(a)
    BY <2>0 DEF HoldersOf, OthersKept
  <2>3. Cardinality(HoldersOf(b)') = Cardinality(HoldersOf(b)) + 1
    <3> DEFINE H == HoldersOf(b)
    <3>1. IsFiniteSet(H) /\ p \notin H
      BY <2>1, HoldersFinite
    <3> HIDE DEF H
    <3>2. Cardinality(H \cup {p}) = Cardinality(H) + 1
      BY <3>1, FS_AddElement
    <3> QED BY <2>1, <3>2 DEF H
  <2> QED BY <2>0, <2>2, <2>3 DEF Ledger
<1>3. CASE Gives(p)
  <2>0. PICK b \in Accounts :
          /\ b = loc[p].acct /\ loc'[p].acct = NoAccount
          /\ inflight' = [inflight EXCEPT ![b] = IF @ = 0 THEN 0 ELSE @ - 1]
    BY <1>3 DEF Gives, Release
  <2>1. HoldersOf(b)' = HoldersOf(b) \ {p} /\ p \in HoldersOf(b)
    BY <2>0 DEF HoldersOf, OthersKept
  <2>2. \A a \in Accounts \ {b} : HoldersOf(a)' = HoldersOf(a)
    BY <2>0 DEF HoldersOf, OthersKept
  <2>3. /\ Cardinality(HoldersOf(b)') = Cardinality(HoldersOf(b)) - 1
        /\ Cardinality(HoldersOf(b)) # 0 /\ Cardinality(HoldersOf(b)) \in Nat
        /\ Cardinality(HoldersOf(b)') \in Nat
    <3> DEFINE H == HoldersOf(b)
    <3>1. IsFiniteSet(H) /\ p \in H /\ Cardinality(H) \in Nat
      BY <2>1, HoldersFinite
    <3> HIDE DEF H
    <3>2. Cardinality(H \ {p}) = Cardinality(H) - 1 /\ IsFiniteSet(H \ {p})
      BY <3>1, FS_RemoveElement
    <3>3. Cardinality(H \ {p}) \in Nat
      BY <3>2, FS_CardinalityType
    <3>4. Cardinality(H) # 0
      BY <3>1, <3>2, <3>3
    <3> QED BY <2>1, <3>1, <3>2, <3>3, <3>4 DEF H
  <2> QED BY <2>0, <2>2, <2>3 DEF Ledger
<1> QED
  BY <1>1, <1>2, <1>3

\* The count of an account is the number of requests that hold it: every path out
\* of an attempt returns its lease exactly once.
THEOREM LedgerAlwaysExact == Spec => []LedgerExact
<1>1. Init => Ledger
  <2>1. Init => \A a \in Accounts : HoldersOf(a) = {}
    BY DEF Init, HoldersOf, Idle
  <2> QED BY <2>1, FS_EmptySet DEF Init, Ledger
<1>2. Inv /\ Ledger /\ [Next]_vars => Ledger'
  <2> SUFFICES ASSUME Inv, Ledger, [Next]_vars PROVE Ledger'
    OBVIOUS
  <2>1. CASE UNCHANGED vars
    BY <2>1 DEF vars, Ledger, HoldersOf
  <2>2. ASSUME NEW p \in Posts, Call(p) \/ Cancel(p) \/ Step(p) PROVE Ledger'
    <3>1. StepOf(p)
      BY <2>2, OneStep
    <3>2. OthersKept(p) /\ (Quiet(p) \/ Takes(p) \/ Gives(p))
      BY <3>1, StepTaken DEF StepOf
    <3> QED BY <3>2, LedgerStep
  <2> QED BY <2>1, <2>2 DEF Next
<1>3. Ledger => LedgerExact
  BY DEF Ledger, LedgerExact, HoldersOf
<1> QED
  BY <1>1, <1>2, <1>3, InvAlways, PTL DEF Spec

-------------------------------------------------------------------------------
(* The refinement of LeaseDiscipline.                                      *)

PhaseOf(l) == IF l.pc = "idle" THEN "idle" ELSE IF l.pc = "serve" THEN "serving" ELSE "working"
Phase == [p \in Posts |-> IF At(p, "idle") THEN "idle" ELSE IF At(p, "serve") THEN "serving" ELSE "working"]
Used == [p \in Posts |-> loc[p].tried]
Held == [p \in Posts |-> loc[p].acct]

\* What the discipline sees of a step is the request that moves.
LEMMA View ==
  ASSUME Inv, NEW p \in Posts, StepOf(p)
  PROVE  /\ Phase[p] = PhaseOf(loc[p]) /\ Used[p] = loc[p].tried /\ Held[p] = loc[p].acct
         /\ Phase' = [Phase EXCEPT ![p] = PhaseOf(loc'[p])]
         /\ Used' = [Used EXCEPT ![p] = loc'[p].tried]
         /\ Held' = [Held EXCEPT ![p] = loc'[p].acct]
<1>1. OthersKept(p)
  BY StepTaken DEF StepOf
<1>2. Phase' = [Phase EXCEPT ![p] = PhaseOf(loc'[p])]
  BY <1>1 DEF OthersKept, Phase, PhaseOf, At
<1>3. Used' = [Used EXCEPT ![p] = loc'[p].tried]
  BY <1>1 DEF OthersKept, Used
<1>4. Held' = [Held EXCEPT ![p] = loc'[p].acct]
  BY <1>1 DEF OthersKept, Held
<1> QED BY <1>2, <1>3, <1>4 DEF Phase, Used, Held, PhaseOf, At

\* The steps of the discipline, by what moves at the request.
LEMMA Moves ==
  ASSUME Inv, NEW p \in Posts, StepOf(p),
         \/ /\ PhaseOf(loc'[p]) = PhaseOf(loc[p])
            /\ loc'[p].tried = loc[p].tried /\ loc'[p].acct = loc[p].acct
         \/ /\ PhaseOf(loc[p]) = "idle" /\ PhaseOf(loc'[p]) = "working"
            /\ loc'[p].tried = loc[p].tried /\ loc'[p].acct = loc[p].acct
         \/ /\ PhaseOf(loc[p]) = "working" /\ PhaseOf(loc'[p]) = "working"
            /\ loc[p].acct # NoAccount /\ loc'[p].acct = NoAccount
            /\ loc'[p].tried = loc[p].tried
         \/ /\ PhaseOf(loc[p]) = "working" /\ PhaseOf(loc'[p]) = "working"
            /\ loc[p].acct = NoAccount
            /\ \E a \in Accounts \ loc[p].tried :
                 loc'[p].tried = loc[p].tried \cup {a} /\ loc'[p].acct \in {NoAccount, a}
         \/ /\ PhaseOf(loc[p]) = "working" /\ PhaseOf(loc'[p]) = "serving"
            /\ loc[p].acct # NoAccount
            /\ loc'[p].tried = loc[p].tried /\ loc'[p].acct = loc[p].acct
         \/ /\ PhaseOf(loc[p]) \in {"working", "serving"} /\ loc'[p] = Idle
  PROVE  Discipline!Next \/ UNCHANGED Discipline!vars
<1>a. /\ Phase[p] = PhaseOf(loc[p]) /\ Used[p] = loc[p].tried /\ Held[p] = loc[p].acct
      /\ Phase' = [Phase EXCEPT ![p] = PhaseOf(loc'[p])]
      /\ Used' = [Used EXCEPT ![p] = loc'[p].tried]
      /\ Held' = [Held EXCEPT ![p] = loc'[p].acct]
  BY View
<1>b. /\ Phase = [Phase EXCEPT ![p] = Phase[p]] /\ Used = [Used EXCEPT ![p] = Used[p]]
      /\ Held = [Held EXCEPT ![p] = Held[p]]
  BY DEF Phase, Used, Held
<1>c. Discipline!vars = <<Phase, Used, Held>>
  BY DEF Discipline!vars, Phase, Used, Held
<1>1. CASE /\ PhaseOf(loc'[p]) = PhaseOf(loc[p])
           /\ loc'[p].tried = loc[p].tried /\ loc'[p].acct = loc[p].acct
  <2>1. UNCHANGED <<Phase, Used, Held>>
    BY <1>1, <1>a, <1>b
  <2> QED BY <2>1 DEF Discipline!vars, Phase, Used, Held
<1>2. CASE /\ PhaseOf(loc[p]) = "idle" /\ PhaseOf(loc'[p]) = "working"
           /\ loc'[p].tried = loc[p].tried /\ loc'[p].acct = loc[p].acct
  <2>1. Phase[p] = "idle" /\ Phase' = [Phase EXCEPT ![p] = "working"] /\ UNCHANGED <<Used, Held>>
    BY <1>2, <1>a, <1>b
  <2>2. Discipline!Begin(p)
    BY <2>1 DEF Discipline!Begin, Phase, Used, Held
  <2> QED BY <2>2 DEF Discipline!Next
<1>3. CASE /\ PhaseOf(loc[p]) = "working" /\ PhaseOf(loc'[p]) = "working"
           /\ loc[p].acct # NoAccount /\ loc'[p].acct = NoAccount
           /\ loc'[p].tried = loc[p].tried
  <2>1. /\ Phase[p] = "working" /\ Held[p] # NoAccount
        /\ Held' = [Held EXCEPT ![p] = NoAccount] /\ UNCHANGED <<Phase, Used>>
    BY <1>3, <1>a, <1>b
  <2>2. Discipline!GiveBack(p)
    BY <2>1 DEF Discipline!GiveBack, Phase, Used, Held
  <2> QED BY <2>2 DEF Discipline!Next
<1>4. CASE /\ PhaseOf(loc[p]) = "working" /\ PhaseOf(loc'[p]) = "working"
           /\ loc[p].acct = NoAccount
           /\ \E a \in Accounts \ loc[p].tried :
                loc'[p].tried = loc[p].tried \cup {a} /\ loc'[p].acct \in {NoAccount, a}
  <2>1. PICK a \in Accounts \ loc[p].tried :
          loc'[p].tried = loc[p].tried \cup {a} /\ loc'[p].acct \in {NoAccount, a}
    BY <1>4
  <2>2. Phase[p] = "working" /\ Held[p] = NoAccount /\ a \notin Used[p] /\ UNCHANGED Phase
    BY <1>4, <2>1, <1>a, <1>b
  <2>3. Used' = [Used EXCEPT ![p] = Used[p] \cup {a}]
    BY <2>1, <1>a
  <2>4. Held' \in {Held, [Held EXCEPT ![p] = a]}
    BY <1>4, <2>1, <1>a, <1>b
  <2>5. Discipline!Draw(p, a)
    BY <2>2, <2>3, <2>4 DEF Discipline!Draw, Phase, Used, Held
  <2> QED BY <2>5 DEF Discipline!Next
<1>5. CASE /\ PhaseOf(loc[p]) = "working" /\ PhaseOf(loc'[p]) = "serving"
           /\ loc[p].acct # NoAccount
           /\ loc'[p].tried = loc[p].tried /\ loc'[p].acct = loc[p].acct
  <2>1. /\ Phase[p] = "working" /\ Held[p] # NoAccount
        /\ Phase' = [Phase EXCEPT ![p] = "serving"] /\ UNCHANGED <<Used, Held>>
    BY <1>5, <1>a, <1>b
  <2>2. Discipline!Serve(p)
    BY <2>1 DEF Discipline!Serve, Phase, Used, Held
  <2> QED BY <2>2 DEF Discipline!Next
<1>6. CASE /\ PhaseOf(loc[p]) \in {"working", "serving"} /\ loc'[p] = Idle
  <2>1. /\ Phase[p] \in {"working", "serving"} /\ Phase' = [Phase EXCEPT ![p] = "idle"]
        /\ Used' = [Used EXCEPT ![p] = {}] /\ Held' = [Held EXCEPT ![p] = NoAccount]
    BY <1>6, <1>a DEF PhaseOf, Idle
  <2>2. Discipline!Reply(p) \/ Discipline!Close(p)
    BY <2>1 DEF Discipline!Reply, Discipline!Close, Phase, Used, Held
  <2> QED BY <2>2 DEF Discipline!Next
<1> QED
  BY <1>1, <1>2, <1>3, <1>4, <1>5, <1>6

\* Every step of a request is one of the discipline, or changes nothing it sees.
LEMMA RefinesOne ==
  ASSUME Inv, NEW p \in Posts, Call(p) \/ Cancel(p) \/ Step(p)
  PROVE  Discipline!Next \/ UNCHANGED Discipline!vars
<1>0. StepOf(p)
  BY OneStep
<1>a. loc \in [Posts -> Local] /\ loc[p] \in Local /\ Holds(p, loc[p])
  BY Before DEF Inv, Typed, Sound
<1>b. ASSUME NEW answer, Return(p, answer) PROVE loc'[p] = Idle
  BY <1>a, <1>b DEF Return
<1>c. ASSUME NEW resp, NEW limits, NextAttempt(p, resp, limits)
      PROVE  loc'[p].pc = "head" /\ loc'[p].tried = loc[p].tried /\ loc'[p].acct = NoAccount
  BY <1>a, <1>c DEF NextAttempt, Local
<1>1. CASE Call(p)
  BY <1>0, <1>1, <1>a, Moves DEF Call, At, Idle, PhaseOf, Holds, Holding
<1>2. CASE Cancel(p)
  BY <1>0, <1>2, Moves DEF Cancel
<1>3. CASE LoopHead(p)
  <2>1. loc[p].pc = "head" /\ (loc'[p] = Idle \/ (loc'[p].pc = "draw" /\ loc'[p].tried = loc[p].tried
                                                  /\ loc'[p].acct = loc[p].acct))
    BY <1>3, <1>a, <1>b DEF LoopHead, At, Local
  <2> QED BY <1>0, <2>1, Moves DEF PhaseOf
<1>4. CASE DrawNone(p)
  <2>1. loc[p].pc = "draw" /\ loc'[p] = Idle
    BY <1>4, <1>b DEF DrawNone, At
  <2> QED BY <1>0, <2>1, Moves DEF PhaseOf
<1>5. CASE DrawMiss(p)
  <2>1. loc[p].pc = "draw" /\ loc[p].acct = NoAccount
    <3>1. loc[p].pc = "draw"
      BY <1>5 DEF DrawMiss, At
    <3> QED BY <3>1, <1>a DEF Holds, Holding
  <2>2. /\ loc'[p].pc = "head" /\ loc'[p].acct = NoAccount
        /\ \/ loc'[p].tried = loc[p].tried
           \/ \E a \in Accounts \ loc[p].tried : loc'[p].tried = loc[p].tried \cup {a}
    <3>1. CASE NextAttempt(p, loc[p].lastResp, loc[p].limits)
      BY <3>1, <1>c
    <3>2. ASSUME NEW a \in Accounts \ loc[p].tried,
                 loc' = [loc EXCEPT ![p] = [loc[p] EXCEPT !.pc = "head", !.attempt = @ + 1,
                                              !.tried = @ \cup {a}, !.lastErr = TRUE]]
          PROVE  loc'[p].pc = "head" /\ loc'[p].acct = NoAccount /\ loc'[p].tried = loc[p].tried \cup {a}
      BY <3>2, <1>a, <2>1 DEF Local
    <3> QED BY <1>5, <3>1, <3>2 DEF DrawMiss
  <2> QED BY <1>0, <2>1, <2>2, Moves DEF PhaseOf
<1>6. CASE DrawLease(p)
  <2>1. loc[p].pc = "draw" /\ loc[p].acct = NoAccount
    BY <1>6, <1>a DEF DrawLease, At, Holds, Holding
  <2>2. /\ loc'[p].pc = "lease"
        /\ \E a \in Accounts \ loc[p].tried : loc'[p].tried = loc[p].tried \cup {a} /\ loc'[p].acct = a
    BY <1>6, <1>a DEF DrawLease, Local
  <2> QED BY <1>0, <2>1, <2>2, Moves DEF PhaseOf
<1>7. CASE Prepare(p)
  <2>1. loc[p].pc = "lease" /\ loc[p].acct # NoAccount
    BY <1>7, <1>a DEF Prepare, At, Holds, Holding
  <2>2. /\ loc'[p].tried = loc[p].tried
        /\ \/ loc'[p].pc = "post" /\ loc'[p].acct = loc[p].acct
           \/ loc'[p].pc = "head" /\ loc'[p].acct = NoAccount
    BY <1>7, <1>a, <1>c DEF Prepare, Local
  <2> QED BY <1>0, <2>1, <2>2, Moves DEF PhaseOf
<1>8. CASE PostAnswered(p)
  <2>1. /\ loc[p].pc = "post" /\ loc'[p].pc = "answer"
        /\ loc'[p].tried = loc[p].tried /\ loc'[p].acct = loc[p].acct
    BY <1>8, <1>a DEF PostAnswered, At, Local
  <2> QED BY <1>0, <2>1, Moves DEF PhaseOf
<1>9. CASE PostFailed(p)
  <2>1. loc[p].pc = "post" /\ loc[p].acct # NoAccount
    BY <1>9, <1>a DEF PostFailed, At, Holds, Holding
  <2>2. loc'[p].pc = "head" /\ loc'[p].tried = loc[p].tried /\ loc'[p].acct = NoAccount
    BY <1>9, <1>c DEF PostFailed
  <2> QED BY <1>0, <2>1, <2>2, Moves DEF PhaseOf
<1>10. CASE AnswerFinal(p)
  <2>1. loc[p].pc = "answer" /\ loc'[p] = Idle
    BY <1>10, <1>b DEF AnswerFinal, At
  <2> QED BY <1>0, <2>1, Moves DEF PhaseOf
<1>11. CASE AnswerServe(p)
  <2>1. loc[p].pc = "answer" /\ loc[p].acct # NoAccount
    BY <1>11, <1>a DEF AnswerServe, At, Holds, Holding
  <2>2. loc'[p].pc = "serve" /\ loc'[p].tried = loc[p].tried /\ loc'[p].acct = loc[p].acct
    BY <1>11, <1>a DEF AnswerServe, Local
  <2> QED BY <1>0, <2>1, <2>2, Moves DEF PhaseOf
<1>12. CASE AnswerRefresh(p)
  <2>1. /\ loc[p].pc = "answer" /\ loc'[p].pc = "refresh"
        /\ loc'[p].tried = loc[p].tried /\ loc'[p].acct = loc[p].acct
    BY <1>12, <1>a DEF AnswerRefresh, At, Local
  <2> QED BY <1>0, <2>1, Moves DEF PhaseOf
<1>13. CASE AnswerFailover(p)
  <2>1. loc[p].pc = "answer" /\ loc[p].acct # NoAccount
    BY <1>13, <1>a DEF AnswerFailover, At, Holds, Holding
  <2>2. \/ loc'[p] = Idle
        \/ loc'[p].pc = "head" /\ loc'[p].tried = loc[p].tried /\ loc'[p].acct = NoAccount
    BY <1>13, <1>b, <1>c DEF AnswerFailover
  <2> QED BY <1>0, <2>1, <2>2, Moves DEF PhaseOf
<1>14. CASE Refresh(p)
  <2>1. loc[p].pc = "refresh" /\ loc[p].acct # NoAccount
    BY <1>14, <1>a DEF Refresh, At, Holds, Holding
  <2>2. /\ loc'[p].tried = loc[p].tried
        /\ \/ loc'[p].pc = "post" /\ loc'[p].acct = loc[p].acct
           \/ loc'[p].pc = "head" /\ loc'[p].acct = NoAccount
    <3>1. CASE NextAttempt(p, "unauthorized", loc[p].limits)
      BY <3>1, <1>c
    <3>2. CASE loc' = [loc EXCEPT ![p] = [loc[p] EXCEPT !.pc = "post", !.resp = None, !.again = TRUE]]
      BY <3>2, <1>a DEF Local
    <3> QED BY <1>14, <3>1, <3>2 DEF Refresh
  <2> QED BY <1>0, <2>1, <2>2, Moves DEF PhaseOf
<1>15. CASE Close(p)
  <2>1. loc[p].pc = "serve" /\ loc'[p] = Idle
    BY <1>15, <1>b DEF Close, At
  <2> QED BY <1>0, <2>1, Moves DEF PhaseOf
<1> QED
  BY <1>1, <1>2, <1>3, <1>4, <1>5, <1>6, <1>7, <1>8, <1>9, <1>10, <1>11, <1>12, <1>13, <1>14, <1>15
     DEF Step

\* The failover loop keeps the discipline of leases: one lease at a time, no
\* account twice in a request, and no lease after the answer but for its body.
THEOREM KeepsLeaseDiscipline == Spec => KeepsDiscipline
<1>1. Init => Discipline!Init
  BY DEF Init, Idle, At, Discipline!Init
<1>2. Inv /\ [Next]_vars => [Discipline!Next]_(Discipline!vars)
  <2> SUFFICES ASSUME Inv, [Next]_vars PROVE Discipline!Next \/ UNCHANGED Discipline!vars
    OBVIOUS
  <2>1. CASE UNCHANGED vars
    BY <2>1 DEF vars, At, Discipline!vars
  <2> QED BY <2>1, RefinesOne DEF Next
<1> QED
  BY <1>1, <1>2, InvAlways, PTL DEF Spec, KeepsDiscipline, Discipline!Spec

HIDE ExecutorAssumption DEF MaxRateLimitFailovers

-------------------------------------------------------------------------------
(* The Anthropic translator: what it wrote.                                *)

Blocks ==
  [kind : {"thinking", "text", "tool"}, item : Nat, pieces : Seq(Nat), signature : Nat, open : BOOLEAN]
Translators ==
  [display : Displays, started : BOOLEAN, ended : {"no", "stop", "error", "refused"},
   reason : {"none", "tool_use", "end_turn", "max_tokens"}, out : Seq(Blocks),
   thinking : Nat, signature : Nat, pending : BOOLEAN, current : Nat, completed : SUBSET Nat]

\* The content of an item is in blocks of one kind.
BlockKind(kind) ==
  CASE kind = "reasoning" -> "thinking" [] kind = "message" -> "text" [] kind = "call" -> "tool"

\* What is true of a translator whenever items up to c were told to it.
Formed(t, items, c) ==
  /\ t \in Translators
  /\ t.out # <<>> => t.started
  /\ \A i \in DOMAIN t.out :
       /\ t.out[i].item \in 1 .. c
       /\ t.out[i].kind = BlockKind(items[t.out[i].item])
       /\ t.out[i].signature \in {NoItem, t.out[i].item}
       /\ t.out[i].open => i = Len(t.out)
       /\ t.out[i].kind = "thinking" => t.display # "off" /\ (t.out[i].open => t.thinking = i)
       /\ t.out[i].kind # "thinking" => t.out[i].pieces = Read(t.out, t.out[i].item)
  /\ \A i, j \in DOMAIN t.out :
       t.out[i].item = t.out[j].item /\ t.out[i].kind # "thinking" => i = j
  /\ t.thinking # 0 =>
       t.thinking = Len(t.out) /\ t.out[t.thinking].kind = "thinking" /\ t.out[t.thinking].open
  /\ t.completed \subseteq 1 .. c

\* Nothing is open, and no signature waits.
Rests(t) ==
  /\ t.thinking = 0 /\ t.signature = NoItem
  /\ \A i \in DOMAIN t.out : ~t.out[i].open

Due(display, kind) ==
  IF kind # "reasoning" \/ display = "summarized" THEN Whole ELSE <<>>
Part(n) == SubSeq(Whole, 1, n)

\* Item k was told to its end.
Told(t, kind, k) ==
  /\ Read(t.out, k) = Due(t.display, kind)
  /\ kind = "reasoning" /\ t.display = "summarized" => k \in t.completed

-------------------------------------------------------------------------------
(* The chat translator: what it sent.                                      *)

Chunks ==
  [what : {"role", "text", "tool", "finish", "error", "done"}, item : Nat, pieces : Seq(Nat),
   role : BOOLEAN, identity : BOOLEAN, reason : {"none", "length", "tool_calls", "stop"}]

Chats ==
  [sentRole : BOOLEAN, terminal : BOOLEAN, failed : BOOLEAN, tools : SUBSET Nat,
   sawArgs : SUBSET Nat, finalized : SUBSET Nat, identitySent : SUBSET Nat, out : Seq(Chunks)]

\* What is true of a chat translator whenever items up to c were told to it.
ChatFormed(t, c) ==
  /\ t \in Chats /\ ~t.terminal /\ ~t.failed
  /\ t.sentRole <=> t.out # <<>>
  /\ t.tools \subseteq 1 .. c /\ t.sawArgs \subseteq 1 .. c /\ t.finalized \subseteq 1 .. c
  /\ \A i \in DOMAIN t.out :
       /\ t.out[i].what \in {"role", "text", "tool"}
       /\ t.out[i].item \in 0 .. c
       /\ t.out[i].role <=> i = 1
       /\ t.out[i].what = "tool" =>
             (t.out[i].identity <=> \A j \in 1 .. i - 1 : ~(t.out[j].what = "tool" /\ t.out[j].item = t.out[i].item))
  /\ \A k \in Nat : k \in t.identitySent <=> \E i \in DOMAIN t.out : t.out[i].what = "tool" /\ t.out[i].item = k

ChatDue(mode, kind) ==
  CASE mode = "deltas" /\ kind # "reasoning" -> Whole
    [] mode = "finished" /\ kind = "call" -> Whole
    [] OTHER -> <<>>

ChatAt(t, kind, mode, c, j) ==
  CASE kind = "reasoning" -> Read(t.out, c) = <<>>
    [] kind = "message" ->
         Read(t.out, c) = IF mode = "finished" THEN <<>> ELSE Part(IF j < 3 THEN 0 ELSE IF j = 3 THEN 1 ELSE 2)
    [] kind = "call" ->
         IF mode = "finished"
         THEN /\ Read(t.out, c) = IF j < 2 THEN <<>> ELSE Whole
              /\ c \in t.finalized <=> j > 1
              /\ c \in t.sawArgs <=> j > 1
         ELSE /\ Read(t.out, c) = Part(IF j < 2 THEN 0 ELSE IF j = 2 THEN 1 ELSE 2)
              /\ c \in t.sawArgs <=> j > 1

-------------------------------------------------------------------------------
(* Recursive definitions.                                                  *)

\* A set that has 0, and the successor of each of its numbers, has every number.
LEMMA Induction ==
  ASSUME NEW T \in SUBSET Nat, 0 \in T, \A n \in T : n + 1 \in T
  PROVE  T = Nat
<1> DEFINE Less == {q \in Nat \X Nat : q[1] < q[2]}
           Missed == Nat \ T
<1>1. IsWellFoundedOn(Less, Nat)
  BY NatLessThanWellFounded DEF OpToRel
<1>2. \A x, y \in Nat : <<y, x>> \in Less <=> y < x
  OBVIOUS
<1> HIDE DEF Less
<1>3. ASSUME Missed # {} PROVE FALSE
  <2>1. PICK x \in Missed : \A y \in Missed : ~(<<y, x>> \in Less)
    BY <1>1, <1>3, WFMin
  <2>2. x \in Nat /\ x # 0 /\ x - 1 \in Nat /\ x - 1 < x
    OBVIOUS
  <2>3. x - 1 \in T
    BY <1>2, <2>1, <2>2
  <2> QED BY <2>2, <2>3
<1> QED BY <1>3

\* What FlattenSeq adds up, sequence by sequence.
Flattens(f, s) ==
  /\ DOMAIN f = 1 .. Len(s)
  /\ Len(s) > 0 => f[1] = s[1]
  /\ \A i \in 1 .. Len(s) : i > 1 => f[i] = f[i - 1] \o s[i]

\* The sums of a sequence are what its definition says, whatever function has them.
LEMMA FlattensOnce ==
  ASSUME NEW s, Len(s) \in Nat, NEW f, NEW g, Flattens(f, s), Flattens(g, s)
  PROVE  \A i \in 1 .. Len(s) : f[i] = g[i]
<1> DEFINE Same(n) == n \in 1 .. Len(s) => f[n] = g[n]
           T == {n \in Nat : Same(n)}
<1>1. Same(0)
  OBVIOUS
<1>2. ASSUME NEW n \in Nat, Same(n) PROVE Same(n + 1)
  <2>1. CASE n = 0
    BY <2>1 DEF Flattens
  <2>2. CASE n # 0 /\ n + 1 \in 1 .. Len(s)
    <3>1. n \in 1 .. Len(s) /\ n + 1 > 1 /\ (n + 1) - 1 = n
      BY <2>2
    <3>2. f[n + 1] = f[n] \o s[n + 1] /\ g[n + 1] = g[n] \o s[n + 1]
      BY <2>2, <3>1 DEF Flattens
    <3> QED BY <1>2, <3>1, <3>2
  <2> QED BY <2>1, <2>2
<1> HIDE DEF Same
<1>3. T = Nat
  <2>1. T \in SUBSET Nat /\ 0 \in T
    BY <1>1
  <2>2. ASSUME NEW n \in T PROVE n + 1 \in T
    BY <1>2
  <2> HIDE DEF T
  <2> QED BY <2>1, <2>2, Induction
<1>4. \A n \in Nat : Same(n)
  BY <1>3
<1> QED BY <1>4 DEF Same

\* FlattenSeq, defined by a recursive function, is the last of the sums.
LEMMA FlattenIs ==
  ASSUME NEW s, Len(s) \in Nat \ {0}, NEW f, Flattens(f, s), f = [i \in DOMAIN f |-> f[i]]
  PROVE  FlattenSeq(s) = f[Len(s)]
<1> DEFINE Is(g) == g = [i \in 1 .. Len(s) |-> IF i = 1 THEN s[i] ELSE g[i - 1] \o s[i]]
           g0 == CHOOSE g : Is(g)
<1>1. Is(f)
  <2>1. ASSUME NEW i \in 1 .. Len(s)
        PROVE  f[i] = IF i = 1 THEN s[i] ELSE f[i - 1] \o s[i]
    <3>1. CASE i = 1
      BY <3>1 DEF Flattens
    <3>2. CASE i # 1
      <4>1. i > 1
        BY <3>2
      <4> QED BY <3>2, <4>1 DEF Flattens
    <3> QED BY <3>1, <3>2
  <2> QED BY <2>1 DEF Flattens
<1>2. Is(g0)
  BY <1>1
<1>3. FlattenSeq(s) = g0[Len(s)]
  BY DEF FlattenSeq
<1> HIDE DEF g0
<1>4. Flattens(g0, s)
  <2>1. \A i \in 1 .. Len(s) : g0[i] = IF i = 1 THEN s[i] ELSE g0[i - 1] \o s[i]
    BY <1>2
  <2>2. DOMAIN g0 = 1 .. Len(s)
    BY <1>2
  <2>3. 1 \in 1 .. Len(s)
    OBVIOUS
  <2>4. g0[1] = s[1]
    BY <2>1, <2>3
  <2>5. ASSUME NEW i \in 1 .. Len(s), i > 1 PROVE g0[i] = g0[i - 1] \o s[i]
    <3>1. i # 1
      BY <2>5
    <3> QED BY <2>1, <3>1, Zenon
  <2> QED BY <2>2, <2>4, <2>5 DEF Flattens
<1> QED BY <1>3, <1>4, FlattensOnce

\* The sums of a longer sequence.
LEMMA FlattensAppend ==
  ASSUME NEW S, NEW s \in Seq(Seq(S)), NEW x \in Seq(S), NEW f \in [1 .. Len(s) -> Seq(S)], Flattens(f, s)
  PROVE  \E g \in [1 .. Len(s) + 1 -> Seq(S)] :
           /\ Flattens(g, Append(s, x))
           /\ g[Len(s) + 1] = IF s = <<>> THEN x ELSE f[Len(s)] \o x
<1> DEFINE n == Len(s)
           last == IF n = 0 THEN x ELSE f[n] \o x
           g == [i \in 1 .. n + 1 |-> IF i <= n THEN f[i] ELSE last]
<1>1. n \in Nat /\ Len(Append(s, x)) = n + 1 /\ (n = 0 <=> s = <<>>)
  OBVIOUS
<1>2. \A i \in 1 .. n : Append(s, x)[i] = s[i] /\ f[i] \in Seq(S)
  OBVIOUS
<1>3. Append(s, x)[n + 1] = x
  OBVIOUS
<1>a. /\ n > 0 => f[1] = s[1]
      /\ \A i \in 1 .. n : i > 1 => f[i] = f[i - 1] \o s[i]
  BY DEF Flattens
<1> HIDE DEF n
<1>4. last \in Seq(S)
  BY <1>1, <1>2
<1>b. g \in [1 .. n + 1 -> Seq(S)]
  <2> HIDE DEF last
  <2> QED BY <1>1, <1>2, <1>4
<1>c. (\A i \in 1 .. n : g[i] = f[i]) /\ g[n + 1] = last
  BY <1>1
<1> HIDE DEF g
<1>5. ASSUME NEW i \in 1 .. n + 1, i > 1
      PROVE  g[i] = g[i - 1] \o Append(s, x)[i]
  <2>1. CASE i <= n
    <3>1. i \in 1 .. n /\ i - 1 \in 1 .. n
      BY <1>1, <1>5, <2>1
    <3>2. g[i] = f[i] /\ g[i - 1] = f[i - 1] /\ Append(s, x)[i] = s[i]
      BY <1>2, <1>c, <3>1
    <3>3. f[i] = f[i - 1] \o s[i]
      BY <1>5, <1>a, <3>1
    <3> QED BY <3>2, <3>3, Zenon
  <2>2. CASE i = n + 1
    <3>1. n \in 1 .. n /\ i - 1 = n /\ n # 0
      BY <1>1, <1>5, <2>2
    <3>2. g[i] = f[n] \o x
      BY <1>c, <2>2, <3>1
    <3>3. g[i - 1] = f[n] /\ Append(s, x)[i] = x
      BY <1>3, <1>c, <2>2, <3>1
    <3> QED BY <3>2, <3>3, Zenon
  <2>3. i <= n \/ i = n + 1
    BY <1>1
  <2> QED BY <2>1, <2>2, <2>3, Zenon
<1>6. g[1] = Append(s, x)[1]
  <2>1. CASE n = 0
    BY <1>3, <1>c, <2>1
  <2>2. CASE n > 0
    <3>1. 1 \in 1 .. n
      BY <1>1, <2>2
    <3> QED BY <1>2, <1>a, <1>c, <2>2, <3>1
  <2> QED BY <1>1, <2>1, <2>2
<1>7. Flattens(g, Append(s, x))
  BY <1>1, <1>b, <1>5, <1>6 DEF Flattens
<1>8. last = IF s = <<>> THEN x ELSE f[Len(s)] \o x
  BY <1>1 DEF n
<1> QED BY <1>b, <1>c, <1>7, <1>8 DEF n

\* There is such a function, so FlattenSeq is what it says.
LEMMA FlattensExists ==
  ASSUME NEW S, NEW s \in Seq(Seq(S))
  PROVE  \E f \in [1 .. Len(s) -> Seq(S)] : Flattens(f, s)
<1> DEFINE Prefix(n) == [i \in 1 .. n |-> s[i]]
           Some(n) == \E f \in [1 .. n -> Seq(S)] : Flattens(f, Prefix(n))
           T == {n \in Nat : n <= Len(s) => Some(n)}
<1>1. \A n \in Nat : n <= Len(s) => Prefix(n) \in Seq(Seq(S)) /\ Len(Prefix(n)) = n
  OBVIOUS
<1>2. 0 \in T
  <2>1. Prefix(0) = <<>> /\ Len(Prefix(0)) = 0 /\ 1 .. 0 = {}
    OBVIOUS
  <2> DEFINE none == [i \in 1 .. 0 |-> CHOOSE p : p \in Seq(S)]
  <2> HIDE DEF Prefix
  <2>2. Flattens(none, Prefix(0)) /\ none \in [1 .. 0 -> Seq(S)]
    <3>1. \A i : i \notin 1 .. 0
      OBVIOUS
    <3>2. none \in [1 .. 0 -> Seq(S)]
      BY <3>1
    <3>3. DOMAIN none = 1 .. 0
      OBVIOUS
    <3>4. ~(Len(Prefix(0)) > 0)
      BY <2>1
    <3> HIDE DEF none
    <3>5. Flattens(none, Prefix(0))
      BY <2>1, <3>1, <3>3, <3>4, Zenon DEF Flattens
    <3> QED BY <3>2, <3>5
  <2> HIDE DEF none
  <2>3. Some(0)
    BY <2>2
  <2> HIDE DEF Some
  <2> QED BY <2>3
<1>3. ASSUME NEW n \in T PROVE n + 1 \in T
  <2>1. CASE n + 1 <= Len(s)
    <3>0. Some(n)
      <4> HIDE DEF Some
      <4> QED BY <2>1
    <3>1. PICK f \in [1 .. n -> Seq(S)] : Flattens(f, Prefix(n))
      BY <3>0
    <3>2. s[n + 1] \in Seq(S) /\ Prefix(n + 1) = Append(Prefix(n), s[n + 1])
      BY <2>1
    <3>3. Prefix(n) \in Seq(Seq(S)) /\ Len(Prefix(n)) = n
      BY <1>1, <2>1
    <3> HIDE DEF Prefix
    <3>4. \E g \in [1 .. n + 1 -> Seq(S)] : Flattens(g, Append(Prefix(n), s[n + 1]))
      BY <3>1, <3>2, <3>3, FlattensAppend
    <3>5. Some(n + 1)
      BY <3>2, <3>4
    <3> HIDE DEF Some
    <3> QED BY <3>5
  <2>2. CASE ~(n + 1 <= Len(s))
    BY <2>2
  <2> QED BY <2>1, <2>2
<1>4. T = Nat
  <2> HIDE DEF Some
  <2> QED BY <1>2, <1>3, Induction
<1>5. Prefix(Len(s)) = s /\ Len(s) \in Nat
  OBVIOUS
<1>6. Some(Len(s))
  <2> HIDE DEF Some
  <2> QED BY <1>4, <1>5
<1> HIDE DEF Prefix
<1> QED BY <1>5, <1>6

\* FlattenSeq adds what is appended.
LEMMA FlattenAppend ==
  ASSUME NEW S, NEW s \in Seq(Seq(S)), NEW x \in Seq(S)
  PROVE  /\ FlattenSeq(s) \in Seq(S)
         /\ FlattenSeq(Append(s, x)) = FlattenSeq(s) \o x
<1>1. PICK f \in [1 .. Len(s) -> Seq(S)] : Flattens(f, s)
  BY FlattensExists
<1>2. PICK g \in [1 .. Len(s) + 1 -> Seq(S)] :
           /\ Flattens(g, Append(s, x))
           /\ g[Len(s) + 1] = IF s = <<>> THEN x ELSE f[Len(s)] \o x
  BY <1>1, FlattensAppend
<1>3. FlattenSeq(Append(s, x)) = g[Len(s) + 1]
  <2>1. Len(Append(s, x)) = Len(s) + 1 /\ Len(s) + 1 \in Nat \ {0}
    OBVIOUS
  <2> QED BY <1>2, <2>1, FlattenIs
<1>4. CASE s = <<>>
  <2>1. FlattenSeq(s) = <<>>
    BY <1>4 DEF FlattenSeq
  <2>2. FlattenSeq(s) \in Seq(S) /\ FlattenSeq(s) \o x = x
    BY <2>1
  <2> QED BY <1>2, <1>3, <1>4, <2>2
<1>5. CASE s # <<>>
  <2>1. Len(s) \in Nat \ {0}
    BY <1>5
  <2>2. FlattenSeq(s) = f[Len(s)]
    BY <1>1, <2>1, FlattenIs
  <2>3. Len(s) \in 1 .. Len(s)
    BY <2>1
  <2>4. f[Len(s)] \in Seq(S)
    BY <1>1, <2>3
  <2> QED BY <1>2, <1>3, <1>5, <2>2, <2>4
<1> QED BY <1>4, <1>5

-------------------------------------------------------------------------------
(* What a client reads of an item.  Written is what is written in pieces:  *)
(* blocks or chunks.                                                       *)

Piecewise(R) == \A b \in R : b.pieces \in Seq(Nat)

\* What each block adds to an item is a sequence of pieces.
LEMMA Contributions ==
  ASSUME NEW R, Piecewise(R), NEW out \in Seq(R), NEW k
  PROVE  [i \in DOMAIN out |-> IF out[i].item = k THEN out[i].pieces ELSE <<>>] \in Seq(Seq(Nat))
<1>1. \A i \in 1 .. Len(out) : out[i] \in R
  OBVIOUS
<1>2. \A i \in 1 .. Len(out) : (IF out[i].item = k THEN out[i].pieces ELSE <<>>) \in Seq(Nat)
  BY <1>1 DEF Piecewise
<1>3. DOMAIN out = 1 .. Len(out) /\ Len(out) \in Nat
  OBVIOUS
<1> QED BY <1>2, <1>3

\* A block that is added is read last, by those that read its item.
LEMMA ReadAppend ==
  ASSUME NEW R, Piecewise(R), NEW out \in Seq(R), NEW b \in R, NEW k
  PROVE  /\ Read(out, k) \in Seq(Nat)
         /\ b.item = k => Read(Append(out, b), k) = Read(out, k) \o b.pieces
         /\ b.item # k => Read(Append(out, b), k) = Read(out, k)
<1> DEFINE Of(o) == [i \in DOMAIN o |-> IF o[i].item = k THEN o[i].pieces ELSE <<>>]
           p == IF b.item = k THEN b.pieces ELSE <<>>
<1>1. Of(out) \in Seq(Seq(Nat)) /\ p \in Seq(Nat)
  <2>1. p \in Seq(Nat)
    BY DEF Piecewise
  <2> QED BY <2>1, Contributions
<1>2. Of(Append(out, b)) = Append(Of(out), p)
  <2>1. Len(Of(out)) = Len(out) /\ Len(out) \in Nat
    OBVIOUS
  <2>2. DOMAIN Append(out, b) = 1 .. Len(out) + 1
    OBVIOUS
  <2>3. DOMAIN Append(Of(out), p) = 1 .. Len(out) + 1
    BY <1>1, <2>1
  <2>4. ASSUME NEW i \in 1 .. Len(out) + 1
        PROVE  Of(Append(out, b))[i] = Append(Of(out), p)[i]
    <3>1. CASE i = Len(out) + 1
      <4>1. Append(out, b)[i] = b /\ Append(Of(out), p)[i] = p
        BY <1>1, <2>1, <3>1
      <4> QED BY <4>1, <2>2
    <3>2. CASE i \in 1 .. Len(out)
      <4>1. Append(out, b)[i] = out[i] /\ Append(Of(out), p)[i] = Of(out)[i]
        BY <1>1, <2>1, <3>2
      <4>2. i \in DOMAIN out
        BY <3>2
      <4> QED BY <4>1, <4>2, <2>2
    <3> QED BY <2>1, <3>1, <3>2
  <2>5. Of(Append(out, b)) = [i \in 1 .. Len(out) + 1 |-> Of(Append(out, b))[i]]
    BY <2>2
  <2>6. Append(Of(out), p) = [i \in 1 .. Len(out) + 1 |-> Append(Of(out), p)[i]]
    BY <1>1, <2>1
  <2> HIDE DEF Of, p
  <2> QED BY <2>4, <2>5, <2>6
<1> HIDE DEF Of
<1>3. FlattenSeq(Of(out)) \in Seq(Nat) /\ FlattenSeq(Append(Of(out), p)) = FlattenSeq(Of(out)) \o p
  BY <1>1, FlattenAppend
<1>4. FlattenSeq(Of(out)) = Read(out, k) /\ FlattenSeq(Of(Append(out, b))) = Read(Append(out, b), k)
  BY DEF Read, Of
<1>5. CASE b.item # k
  <2>1. FlattenSeq(Of(out)) \o <<>> = FlattenSeq(Of(out))
    BY <1>3
  <2> QED BY <1>2, <1>3, <1>4, <1>5, <2>1
<1>6. CASE b.item = k
  BY <1>2, <1>3, <1>4, <1>6
<1> QED BY <1>5, <1>6

\* Only items and pieces matter.
LEMMA ReadSame ==
  ASSUME NEW out, NEW new, DOMAIN new = DOMAIN out,
         \A i \in DOMAIN out : new[i].item = out[i].item /\ new[i].pieces = out[i].pieces,
         NEW k
  PROVE  Read(new, k) = Read(out, k)
<1>1. [i \in DOMAIN new |-> IF new[i].item = k THEN new[i].pieces ELSE <<>>]
      = [i \in DOMAIN out |-> IF out[i].item = k THEN out[i].pieces ELSE <<>>]
  OBVIOUS
<1> QED BY <1>1 DEF Read

\* Nothing is read of nothing.
LEMMA ReadNothing == \A k : Read(<<>>, k) = <<>>
BY DEF Read, FlattenSeq

\* A sequence of blocks is those before the last, and the last.
LEMMA FrontAndLast ==
  ASSUME NEW R, NEW out \in Seq(R), out # <<>>
  PROVE  \E front \in Seq(R) : /\ out = Append(front, out[Len(out)])
                               /\ Len(front) = Len(out) - 1
                               /\ \A i \in DOMAIN front : front[i] = out[i]
<1> DEFINE front == [i \in 1 .. Len(out) - 1 |-> out[i]]
<1>1. Len(out) \in Nat \ {0} /\ out[Len(out)] \in R
  OBVIOUS
<1>2. front \in Seq(R) /\ Len(front) = Len(out) - 1
  BY <1>1
<1>3. out = Append(front, out[Len(out)])
  BY <1>1, <1>2
<1> QED BY <1>2, <1>3

\* Nothing is read of an item whose blocks are empty.
LEMMA ReadNone ==
  ASSUME NEW R, Piecewise(R), NEW k
  PROVE  \A out \in Seq(R) :
           (\A i \in DOMAIN out : out[i].item = k => out[i].pieces = <<>>) => Read(out, k) = <<>>
<1> DEFINE Blank(o) == (\A i \in DOMAIN o : o[i].item = k => o[i].pieces = <<>>) => Read(o, k) = <<>>
           Upto(n) == \A o \in Seq(R) : Len(o) = n => Blank(o)
           T == {n \in Nat : Upto(n)}
<1>1. Upto(0)
  <2>1. ASSUME NEW o \in Seq(R), Len(o) = 0 PROVE Read(o, k) = <<>>
    <3>1. o = <<>>
      BY <2>1
    <3> QED BY <3>1, ReadNothing
  <2> QED BY <2>1
<1>2. ASSUME NEW n \in Nat, Upto(n) PROVE Upto(n + 1)
  <2>1. ASSUME NEW o \in Seq(R), Len(o) = n + 1,
               \A i \in DOMAIN o : o[i].item = k => o[i].pieces = <<>>
        PROVE  Read(o, k) = <<>>
    <3>1. o # <<>> /\ n + 1 \in DOMAIN o
      BY <2>1
    <3>a. PICK front \in Seq(R) : /\ o = Append(front, o[Len(o)]) /\ Len(front) = Len(o) - 1
                                  /\ \A i \in DOMAIN front : front[i] = o[i]
      BY <3>1, FrontAndLast
    <3>2. o = Append(front, o[n + 1]) /\ Len(front) = n /\ \A i \in DOMAIN front : front[i] = o[i]
      BY <2>1, <3>a
    <3>3. DOMAIN front \subseteq DOMAIN o
      BY <2>1, <3>2
    <3>4. Blank(front)
      BY <1>2, <3>2
    <3>5. Read(front, k) = <<>>
      BY <2>1, <3>2, <3>3, <3>4
    <3>6. o[n + 1] \in R
      BY <2>1
    <3>b. ASSUME NEW b \in R
          PROVE  /\ b.item = k => Read(Append(front, b), k) = Read(front, k) \o b.pieces
                 /\ b.item # k => Read(Append(front, b), k) = Read(front, k)
      BY ReadAppend
    <3>7. /\ o[n + 1].item = k => Read(o, k) = Read(front, k) \o o[n + 1].pieces
          /\ o[n + 1].item # k => Read(o, k) = Read(front, k)
      BY <3>2, <3>6, <3>b, Zenon
    <3>8. <<>> \o <<>> = <<>>
      OBVIOUS
    <3> QED BY <2>1, <3>1, <3>5, <3>7, <3>8
  <2> QED BY <2>1
<1> HIDE DEF Upto
<1>3. T = Nat
  <2>1. T \in SUBSET Nat /\ 0 \in T
    BY <1>1
  <2>2. ASSUME NEW n \in T PROVE n + 1 \in T
    BY <1>2
  <2> HIDE DEF T
  <2> QED BY <2>1, <2>2, Induction
<1>4. \A n \in Nat : Upto(n)
  BY <1>3
<1>5. ASSUME NEW o \in Seq(R) PROVE Blank(o)
  <2>1. Len(o) \in Nat
    OBVIOUS
  <2> HIDE DEF Blank
  <2> QED BY <1>4, <2>1 DEF Upto
<1> QED BY <1>5

\* Pieces may be joined in any order.
LEMMA InAnyOrder == \A a, b, c \in Seq(Nat) : a \o (b \o c) = (a \o b) \o c
<1> SUFFICES ASSUME NEW a \in Seq(Nat), NEW b \in Seq(Nat), NEW c \in Seq(Nat)
             PROVE  (a \o b) \o c = a \o (b \o c)
  OBVIOUS
<1> QED BY ConcatAssociative

\* The last block grows.
Longer(out, new, p) ==
  /\ out # <<>> /\ Len(new) = Len(out)
  /\ \A i \in 1 .. Len(out) - 1 : new[i] = out[i]
  /\ new[Len(out)].item = out[Len(out)].item
  /\ new[Len(out)].pieces = out[Len(out)].pieces \o p

ReadsMore(out, new, p, k) ==
  /\ out[Len(out)].item = k => Read(new, k) = Read(out, k) \o p
  /\ out[Len(out)].item # k => Read(new, k) = Read(out, k)

\* What the last block grows by is read after the rest.
LEMMA ReadLonger ==
  ASSUME NEW R, Piecewise(R), NEW out \in Seq(R), NEW new \in Seq(R),
         NEW p \in Seq(Nat), Longer(out, new, p), NEW k
  PROVE  ReadsMore(out, new, p, k)
<1>0. /\ out # <<>> /\ Len(new) = Len(out)
      /\ \A i \in 1 .. Len(out) - 1 : new[i] = out[i]
      /\ new[Len(out)].item = out[Len(out)].item
      /\ new[Len(out)].pieces = out[Len(out)].pieces \o p
  BY Zenon DEF Longer
<1> DEFINE n == Len(out)
<1>1. n \in Nat \ {0} /\ out[n] \in R /\ new[n] \in R /\ new # <<>>
  BY <1>0
<1>2. PICK front \in Seq(R) : /\ out = Append(front, out[n]) /\ Len(front) = n - 1
                              /\ \A i \in DOMAIN front : front[i] = out[i]
  BY <1>0, FrontAndLast
<1>3. PICK begin \in Seq(R) : /\ new = Append(begin, new[Len(new)]) /\ Len(begin) = Len(new) - 1
                              /\ \A i \in DOMAIN begin : begin[i] = new[i]
  BY <1>1, FrontAndLast
<1>a. Len(new) = n /\ new[n].item = out[n].item /\ new[n].pieces = out[n].pieces \o p
  BY <1>0, Zenon
<1>b. \A i \in 1 .. n - 1 : new[i] = out[i]
  BY <1>0
<1> HIDE DEF n
<1>4. begin = front
  <2>1. DOMAIN begin = 1 .. n - 1 /\ DOMAIN front = 1 .. n - 1
    BY <1>1, <1>2, <1>3, <1>a
  <2>2. \A i \in 1 .. n - 1 : begin[i] = front[i]
    BY <1>2, <1>3, <1>b, <2>1
  <2> QED BY <1>1, <1>2, <1>3, <1>a, <2>1, <2>2, SeqEqual
<1>5. ASSUME NEW b \in R
      PROVE  /\ Read(front, k) \in Seq(Nat)
             /\ b.item = k => Read(Append(front, b), k) = Read(front, k) \o b.pieces
             /\ b.item # k => Read(Append(front, b), k) = Read(front, k)
  BY ReadAppend
<1>6. /\ out[n].item = k => Read(out, k) = Read(front, k) \o out[n].pieces
      /\ out[n].item # k => Read(out, k) = Read(front, k)
  BY <1>1, <1>2, <1>5, Zenon
<1>7. /\ new[n].item = k => Read(new, k) = Read(front, k) \o new[n].pieces
      /\ new[n].item # k => Read(new, k) = Read(front, k)
  BY <1>1, <1>3, <1>4, <1>5, <1>a, Zenon
<1>8. out[n].pieces \in Seq(Nat) /\ Read(front, k) \in Seq(Nat)
  BY <1>1, <1>5 DEF Piecewise
<1>9. Read(front, k) \o (out[n].pieces \o p) = (Read(front, k) \o out[n].pieces) \o p
  BY <1>8, InAnyOrder, Zenon
<1>c. new[n].item = k <=> out[n].item = k
  BY <1>a
<1>d. /\ out[n].item = k => Read(new, k) = Read(out, k) \o p
      /\ out[n].item # k => Read(new, k) = Read(out, k)
  BY <1>6, <1>7, <1>9, <1>a, <1>c, Zenon
<1> QED BY <1>d, Zenon DEF n, ReadsMore

-------------------------------------------------------------------------------
(* What the translator writes.                                             *)

\* The content of a block is a sequence of pieces.
LEMMA BlocksPiecewise == Piecewise(Blocks)
BY DEF Piecewise, Blocks

\* What an Anthropic translator wrote is a sequence of blocks.
LEMMA OutTyped ==
  ASSUME NEW t \in Translators
  PROVE  /\ t.out \in Seq(Blocks) /\ Len(t.out) \in Nat /\ DOMAIN t.out = 1 .. Len(t.out)
         /\ \A i \in 1 .. Len(t.out) : t.out[i] \in Blocks
         /\ t.out # <<>> <=> Len(t.out) # 0
<1>1. t.out \in Seq(Blocks)
  BY DEF Translators
<1> QED BY <1>1

\* Blocks change in their signature, or are closed.
Rewrites(t, u, items, c) ==
  /\ Formed(t, items, c)
  /\ u \in Translators /\ u.display = t.display /\ (u.out # <<>> => u.started)
  /\ DOMAIN u.out = DOMAIN t.out
  /\ \A i \in DOMAIN t.out :
       /\ u.out[i].item = t.out[i].item /\ u.out[i].kind = t.out[i].kind
       /\ u.out[i].pieces = t.out[i].pieces
       /\ u.out[i].open => t.out[i].open
       /\ u.out[i].signature \in {NoItem, u.out[i].item}
  /\ \/ u.thinking = t.thinking /\ (u.thinking # 0 => u.out[u.thinking].open)
     \/ u.thinking = 0 /\ \A i \in DOMAIN t.out : t.out[i].kind = "thinking" => ~u.out[i].open
  /\ u.completed \subseteq 1 .. c

\* Nothing the client reads has changed.
Reads(t, u, items, c) == Formed(u, items, c) /\ \A k : Read(u.out, k) = Read(t.out, k)

\* When blocks are signed or closed the client reads what it read.
LEMMA Rewritten ==
  ASSUME NEW items, NEW c \in Nat, NEW t, NEW u, Rewrites(t, u, items, c)
  PROVE  Reads(t, u, items, c)
<1> SUFFICES
      ASSUME Formed(t, items, c),
               u \in Translators, u.display = t.display, u.out # <<>> => u.started,
               DOMAIN u.out = DOMAIN t.out,
               \A i \in DOMAIN t.out :
                 /\ u.out[i].item = t.out[i].item /\ u.out[i].kind = t.out[i].kind
                 /\ u.out[i].pieces = t.out[i].pieces
                 /\ u.out[i].open => t.out[i].open
                 /\ u.out[i].signature \in {NoItem, u.out[i].item},
               \/ u.thinking = t.thinking /\ (u.thinking # 0 => u.out[u.thinking].open)
               \/ u.thinking = 0 /\ \A i \in DOMAIN t.out : t.out[i].kind = "thinking" => ~u.out[i].open,
               u.completed \subseteq 1 .. c
        PROVE  Formed(u, items, c) /\ \A k : Read(u.out, k) = Read(t.out, k)
  BY DEF Rewrites, Reads
<1>1. \A k : Read(u.out, k) = Read(t.out, k)
  BY ReadSame
<1>2. t \in Translators
  BY DEF Formed
<1>3. Len(u.out) = Len(t.out)
  BY <1>2, OutTyped
<1>4. ASSUME NEW i \in DOMAIN u.out
      PROVE  /\ u.out[i].item \in 1 .. c
             /\ u.out[i].kind = BlockKind(items[u.out[i].item])
             /\ u.out[i].open => i = Len(u.out)
             /\ u.out[i].kind = "thinking" => u.display # "off" /\ (u.out[i].open => u.thinking = i)
             /\ u.out[i].kind # "thinking" => u.out[i].pieces = Read(u.out, u.out[i].item)
  <2>1. i \in DOMAIN t.out /\ i # 0
    BY <1>2, OutTyped
  <2>2. /\ t.out[i].item \in 1 .. c
        /\ t.out[i].kind = BlockKind(items[t.out[i].item])
        /\ t.out[i].open => i = Len(t.out)
        /\ t.out[i].kind = "thinking" => t.display # "off" /\ (t.out[i].open => t.thinking = i)
        /\ t.out[i].kind # "thinking" => t.out[i].pieces = Read(t.out, t.out[i].item)
    BY <2>1 DEF Formed
  <2> QED BY <1>1, <1>3, <2>1, <2>2
<1>5. \A i, j \in DOMAIN u.out :
        u.out[i].item = u.out[j].item /\ u.out[i].kind # "thinking" => i = j
  BY DEF Formed
<1>6. u.thinking # 0 =>
        u.thinking = Len(u.out) /\ u.out[u.thinking].kind = "thinking" /\ u.out[u.thinking].open
  <2> SUFFICES ASSUME u.thinking # 0 PROVE u.thinking = Len(u.out) /\ u.out[u.thinking].kind = "thinking" /\ u.out[u.thinking].open
    OBVIOUS
  <2>1. t.thinking = Len(t.out) /\ t.out[t.thinking].kind = "thinking" /\ t.out[t.thinking].open
    BY DEF Formed
  <2>2. t.thinking \in DOMAIN t.out
    BY <1>2, <2>1, OutTyped DEF Translators
  <2> QED BY <1>3, <2>1, <2>2
<1> QED BY <1>1, <1>4, <1>5, <1>6 DEF Formed

\* A block is added when none is open.
Adds(t, u, items, c, kind, k) ==
  /\ Formed(t, items, c) /\ k \in 1 .. c
  /\ kind = BlockKind(items[k]) /\ kind \in {"thinking", "text", "tool"}
  /\ \A i \in DOMAIN t.out : ~t.out[i].open
  /\ kind = "thinking" => t.display # "off"
  /\ kind # "thinking" => \A i \in DOMAIN t.out : t.out[i].item # k
  /\ u \in Translators /\ u.display = t.display /\ u.started
  /\ u.out = Append(t.out, Block(kind, k))
  /\ u.thinking = IF kind = "thinking" THEN Len(t.out) + 1 ELSE 0
  /\ u.completed \subseteq 1 .. c

\* A new block is empty: the client reads what it read.
LEMMA Added ==
  ASSUME NEW items, NEW c \in Nat, NEW t, NEW u, NEW kind, NEW k, Adds(t, u, items, c, kind, k)
  PROVE  Reads(t, u, items, c)
<1> SUFFICES
      ASSUME Formed(t, items, c), k \in 1 .. c,
               kind = BlockKind(items[k]), kind \in {"thinking", "text", "tool"},
               \A i \in DOMAIN t.out : ~t.out[i].open,
               kind = "thinking" => t.display # "off",
               kind # "thinking" => \A i \in DOMAIN t.out : t.out[i].item # k,
               u \in Translators, u.display = t.display, u.started,
               u.out = Append(t.out, Block(kind, k)),
               u.thinking = IF kind = "thinking" THEN Len(t.out) + 1 ELSE 0,
               u.completed \subseteq 1 .. c
        PROVE  Formed(u, items, c) /\ \A m : Read(u.out, m) = Read(t.out, m)
  BY DEF Adds, Reads
<1> DEFINE b == Block(kind, k)
<1>1. b \in Blocks /\ b.item = k /\ b.kind = kind /\ b.pieces = <<>> /\ b.signature = NoItem /\ b.open
  BY DEF Block, Blocks, NoItem
<1> HIDE DEF b
<1>2. t \in Translators /\ t.out \in Seq(Blocks)
  BY OutTyped DEF Formed
<1>3. ASSUME NEW m PROVE Read(u.out, m) = Read(t.out, m)
  <2>1. /\ Read(t.out, m) \in Seq(Nat)
        /\ b.item = m => Read(Append(t.out, b), m) = Read(t.out, m) \o b.pieces
        /\ b.item # m => Read(Append(t.out, b), m) = Read(t.out, m)
    BY <1>1, <1>2, BlocksPiecewise, ReadAppend
  <2>2. Read(t.out, m) \o <<>> = Read(t.out, m)
    BY <2>1
  <2> QED BY <1>1, <2>1, <2>2 DEF b
<1>4. /\ Len(u.out) = Len(t.out) + 1 /\ DOMAIN u.out = 1 .. Len(t.out) + 1 /\ u.out[Len(t.out) + 1] = b
      /\ \A i \in DOMAIN t.out : u.out[i] = t.out[i]
      /\ DOMAIN t.out = 1 .. Len(t.out) /\ Len(t.out) \in Nat
  BY <1>1, <1>2 DEF b
<1>5. \A i \in DOMAIN u.out : i \in DOMAIN t.out \/ i = Len(t.out) + 1
  BY <1>4
<1>6. ASSUME NEW i \in DOMAIN u.out
      PROVE  /\ u.out[i].item \in 1 .. c
             /\ u.out[i].kind = BlockKind(items[u.out[i].item])
             /\ u.out[i].signature \in {NoItem, u.out[i].item}
             /\ u.out[i].open => i = Len(u.out)
             /\ u.out[i].kind = "thinking" => u.display # "off" /\ (u.out[i].open => u.thinking = i)
             /\ u.out[i].kind # "thinking" => u.out[i].pieces = Read(u.out, u.out[i].item)
  <2>1. CASE i \in DOMAIN t.out
    <3>1. u.out[i] = t.out[i] /\ ~u.out[i].open
      BY <1>4, <2>1
    <3> QED BY <1>3, <2>1, <3>1 DEF Formed
  <2>2. CASE i = Len(t.out) + 1
    <3>1. u.out[i] = b /\ i = Len(u.out)
      BY <1>4, <2>2
    <3>2. kind # "thinking" => Read(t.out, k) = <<>>
      BY <1>2, BlocksPiecewise, ReadNone
    <3> QED BY <1>1, <1>3, <2>2, <3>1, <3>2
  <2> QED BY <1>5, <2>1, <2>2
<1>7. ASSUME NEW i \in DOMAIN u.out, NEW j \in DOMAIN u.out,
             u.out[i].item = u.out[j].item, u.out[i].kind # "thinking"
      PROVE  i = j
  <2>0. Formed(t, items, c)
    OBVIOUS
  <2>1. CASE i \in DOMAIN t.out /\ j \in DOMAIN t.out
    <3>1. u.out[i] = t.out[i] /\ u.out[j] = t.out[j]
      BY <1>4, <2>1
    <3> QED BY <1>7, <2>1, <3>1 DEF Formed
  <2>2. CASE i = Len(t.out) + 1 /\ j = Len(t.out) + 1
    BY <2>2
  <2>3. CASE i \in DOMAIN t.out /\ j = Len(t.out) + 1
    <3>1. u.out[i] = t.out[i] /\ u.out[j] = b
      BY <1>4, <2>3
    <3>2. t.out[i].item = k /\ t.out[i].kind # "thinking"
      BY <1>1, <1>7, <3>1
    <3>3. t.out[i].kind = kind
      BY <2>3, <3>2 DEF Formed
    <3> QED BY <2>3, <3>2, <3>3
  <2>4. CASE j \in DOMAIN t.out /\ i = Len(t.out) + 1
    <3>1. u.out[j] = t.out[j] /\ u.out[i] = b
      BY <1>4, <2>4
    <3> QED BY <1>1, <1>7, <2>4, <3>1
  <2> QED BY <1>5, <2>1, <2>2, <2>3, <2>4
<1>8. u.thinking # 0 =>
        u.thinking = Len(u.out) /\ u.out[u.thinking].kind = "thinking" /\ u.out[u.thinking].open
  BY <1>1, <1>4
<1> QED BY <1>3, <1>6, <1>7, <1>8 DEF Formed

\* The open block gets more of its item.
Grows(t, u, items, c, i, p) ==
  /\ Formed(t, items, c)
  /\ i \in DOMAIN t.out /\ t.out[i].open
  /\ u \in Translators /\ u.display = t.display /\ u.started /\ u.thinking = t.thinking
  /\ u.completed \subseteq 1 .. c /\ DOMAIN u.out = DOMAIN t.out
  /\ \A j \in DOMAIN t.out : j # i => u.out[j] = t.out[j]
  /\ u.out[i].item = t.out[i].item /\ u.out[i].kind = t.out[i].kind /\ u.out[i].open
  /\ u.out[i].signature = t.out[i].signature /\ u.out[i].pieces = t.out[i].pieces \o p

\* The client reads p after what it read of item k.
ReadsOn(t, u, items, c, k, p) ==
  /\ Formed(u, items, c)
  /\ Read(u.out, k) = Read(t.out, k) \o p
  /\ \A m : m # k => Read(u.out, m) = Read(t.out, m)

\* A delta is read after what was read of its item, and of no other.
LEMMA Grown ==
  ASSUME NEW items, NEW c \in Nat, NEW t, NEW u, NEW i, NEW p \in Seq(Nat), Grows(t, u, items, c, i, p)
  PROVE  ReadsOn(t, u, items, c, t.out[i].item, p)
<1> SUFFICES
      ASSUME Formed(t, items, c),
               i \in DOMAIN t.out, t.out[i].open,
               u \in Translators, u.display = t.display, u.started, u.thinking = t.thinking,
               u.completed \subseteq 1 .. c, DOMAIN u.out = DOMAIN t.out,
               \A j \in DOMAIN t.out : j # i => u.out[j] = t.out[j],
               u.out[i].item = t.out[i].item, u.out[i].kind = t.out[i].kind, u.out[i].open,
               u.out[i].signature = t.out[i].signature, u.out[i].pieces = t.out[i].pieces \o p
        PROVE  /\ Formed(u, items, c)
               /\ Read(u.out, t.out[i].item) = Read(t.out, t.out[i].item) \o p
               /\ \A m : m # t.out[i].item => Read(u.out, m) = Read(t.out, m)
  BY DEF Grows, ReadsOn
<1>1. /\ t \in Translators /\ t.out \in Seq(Blocks) /\ Len(t.out) \in Nat
      /\ DOMAIN t.out = 1 .. Len(t.out)
  BY OutTyped DEF Formed
<1>2. i = Len(t.out) /\ t.out # <<>>
  BY <1>1 DEF Formed
<1>3. u.out \in Seq(Blocks) /\ Len(u.out) = Len(t.out)
  BY <1>1, OutTyped
<1>4. \A m : /\ t.out[i].item = m => Read(u.out, m) = Read(t.out, m) \o p
             /\ t.out[i].item # m => Read(u.out, m) = Read(t.out, m)
  <2> TAKE m
  <2>1. \A j \in 1 .. Len(t.out) - 1 : u.out[j] = t.out[j]
    <3>1. \A j \in 1 .. Len(t.out) - 1 : j \in DOMAIN t.out /\ j # i
      BY <1>1, <1>2, SMT
    <3> QED BY <3>1, Zenon
  <2>2. u.out[Len(t.out)].item = t.out[Len(t.out)].item /\ u.out[Len(t.out)].pieces = t.out[Len(t.out)].pieces \o p
    BY <1>2, Zenon
  <2>4. Longer(t.out, u.out, p)
    BY <1>2, <1>3, <2>1, <2>2, Zenon DEF Longer
  <2>3. ReadsMore(t.out, u.out, p, m)
    BY <1>1, <1>3, <2>4, BlocksPiecewise, ReadLonger
  <2> QED BY <1>2, <2>3, Zenon DEF ReadsMore
<1>5. \A j \in DOMAIN t.out : /\ u.out[j].item = t.out[j].item /\ u.out[j].kind = t.out[j].kind
                              /\ u.out[j].open = t.out[j].open /\ u.out[j].signature = t.out[j].signature
  <2> TAKE j \in DOMAIN t.out
  <2>1. CASE j = i
    <3>1. t.out[i] \in Blocks /\ u.out[i] \in Blocks
      BY <1>1, <1>3, OutTyped
    <3>2. t.out[i].open = u.out[i].open
      BY <3>1 DEF Blocks
    <3> QED BY <2>1, <3>2
  <2>2. CASE j # i
    BY <2>2
  <2> QED BY <2>1, <2>2
<1>6. ASSUME NEW j \in DOMAIN t.out, t.out[j].kind # "thinking"
      PROVE  u.out[j].pieces = Read(u.out, t.out[j].item)
  <2>1. t.out[j].pieces = Read(t.out, t.out[j].item)
    BY <1>6 DEF Formed
  <2>2. CASE j = i
    <3>1. Read(u.out, t.out[i].item) = t.out[i].pieces \o p
      BY <1>4, <2>1, <2>2, Zenon
    <3> QED BY <2>2, <3>1
  <2>3. CASE j # i
    <3>1. t.out[j].item # t.out[i].item
      BY <1>6, <2>3 DEF Formed
    <3>2. Read(u.out, t.out[j].item) = Read(t.out, t.out[j].item)
      BY <1>4, <3>1
    <3> QED BY <2>1, <2>3, <3>2
  <2> QED BY <2>2, <2>3
<1>7. ASSUME NEW j \in DOMAIN u.out
      PROVE  /\ u.out[j].item \in 1 .. c
             /\ u.out[j].kind = BlockKind(items[u.out[j].item])
             /\ u.out[j].signature \in {NoItem, u.out[j].item}
             /\ u.out[j].open => j = Len(u.out)
             /\ u.out[j].kind = "thinking" => u.display # "off" /\ (u.out[j].open => u.thinking = j)
             /\ u.out[j].kind # "thinking" => u.out[j].pieces = Read(u.out, u.out[j].item)
  <2>1. /\ t.out[j].item \in 1 .. c
        /\ t.out[j].kind = BlockKind(items[t.out[j].item])
        /\ t.out[j].signature \in {NoItem, t.out[j].item}
        /\ t.out[j].open => j = Len(t.out)
        /\ t.out[j].kind = "thinking" => t.display # "off" /\ (t.out[j].open => t.thinking = j)
    BY DEF Formed
  <2>2. t.out[j].kind # "thinking" => u.out[j].pieces = Read(u.out, t.out[j].item)
    BY <1>6
  <2> QED BY <1>3, <1>5, <2>1, <2>2
<1>8. \A j, m \in DOMAIN u.out :
        u.out[j].item = u.out[m].item /\ u.out[j].kind # "thinking" => j = m
  <2> TAKE j, m \in DOMAIN u.out
  <2>1. t.out[j].item = t.out[m].item /\ t.out[j].kind # "thinking" => j = m
    BY DEF Formed
  <2> QED BY <1>5, <2>1
<1>9. u.thinking # 0 =>
        u.thinking = Len(u.out) /\ u.out[u.thinking].kind = "thinking" /\ u.out[u.thinking].open
  <2> SUFFICES ASSUME t.thinking # 0
               PROVE  t.thinking = Len(u.out) /\ u.out[t.thinking].kind = "thinking" /\ u.out[t.thinking].open
    OBVIOUS
  <2>1. t.thinking = Len(t.out) /\ t.out[t.thinking].kind = "thinking" /\ t.out[t.thinking].open
    BY DEF Formed
  <2> QED BY <1>2, <1>3, <1>5, <2>1
<1>10. Formed(u, items, c)
  BY <1>7, <1>8, <1>9 DEF Formed
<1> QED BY <1>4, <1>10, Zenon

-------------------------------------------------------------------------------
(* The scripts.                                                            *)

\* The parts of the content of an item.
LEMMA Parts ==
  /\ Part(0) = <<>> /\ Part(1) = <<1>> /\ Part(2) = Whole /\ Whole = <<1, 2>>
  /\ Whole \in Seq(Nat) /\ Part(0) \in Seq(Nat) /\ Part(1) \in Seq(Nat)
  /\ Part(0) \o <<1>> = Part(1) /\ Part(1) \o <<2>> = Whole /\ Part(0) \o Whole = Whole
  /\ Part(1) # <<>> /\ Whole # <<>> /\ Part(1) # Whole
  /\ <<1>> \in Seq(Nat) /\ <<2>> \in Seq(Nat) /\ <<>> \in Seq(Nat) /\ <<1>> # <<>> /\ <<2>> # <<>>
<1> DEFINE w == <<1, 2>>
           x == <<1>> \o <<2>>
<1>1. w \in Seq(Nat) /\ Len(w) = 2 /\ w[1] = 1 /\ w[2] = 2 /\ \A i \in 1 .. 2 : w[i] \in Nat
  OBVIOUS
<1>2. x \in Seq(Nat) /\ Len(x) = 2 /\ x[1] = 1 /\ x[2] = 2
  OBVIOUS
<1>3. <<1>> \in Seq(Nat) /\ <<2>> \in Seq(Nat) /\ <<>> \in Seq(Nat)
  OBVIOUS
<1>4. <<1>> # <<>> /\ <<2>> # <<>> /\ w # <<>> /\ <<1>> # w
  OBVIOUS
<1>5. Len(<<1>>) = 1 /\ <<1>>[1] = 1
  OBVIOUS
<1> HIDE DEF w, x
<1>6. SubSeq(w, 1, 2) = w /\ SubSeq(w, 1, 0) = <<>>
  BY <1>1, SubSeqFull
<1>7. SubSeq(w, 1, 1) = <<1>>
  <2>1. SubSeq(w, 1, 1) \in Seq(Nat) /\ Len(SubSeq(w, 1, 1)) = 1 /\ SubSeq(w, 1, 1)[1] = 1
    BY <1>1, SubSeqProperties
  <2>2. \A i \in 1 .. 1 : SubSeq(w, 1, 1)[i] = <<1>>[i]
    BY <1>5, <2>1
  <2> HIDE DEF w
  <2> QED BY <1>3, <1>5, <2>1, <2>2, SeqEqual
<1>8. x = w
  <2>1. \A i \in 1 .. 2 : x[i] = w[i]
    BY <1>1, <1>2
  <2> QED BY <1>1, <1>2, <2>1, SeqEqual
<1>9. <<>> \o <<1>> = <<1>> /\ <<>> \o w = w
  BY <1>1, <1>3, ConcatEmptySeq
<1>10. Whole = w /\ Part(0) = <<>> /\ Part(1) = <<1>> /\ Part(2) = w
  BY <1>6, <1>7 DEF Whole, Part, w
<1> QED BY <1>1, <1>3, <1>4, <1>8, <1>9, <1>10, Zenon DEF w, x

\* Event i of a script may be the next after event j, and is this one.
May(script, j, i, type, k, pieces) ==
  /\ i \in After(script, j)
  /\ script[i].type = type /\ script[i].item = k /\ script[i].pieces = pieces

\* What may come next of a message in deltas.
LEMMA MessageDeltas ==
  ASSUME NEW k, NEW j \in Nat, j <= Len(MessageScript(k, "deltas"))
  PROVE  LET s == MessageScript(k, "deltas") IN
         /\ Len(s) = 6 /\ (Complete(s, j) => j = 6)
         /\ \A i \in After(s, j) :
              \/ i = 1 /\ May(s, j, i, "added", k, <<>>) /\ j = 0
              \/ i = 2 /\ May(s, j, i, "part_added", k, <<>>) /\ j \in 0 .. 1
              \/ i = 3 /\ May(s, j, i, "text_delta", k, <<1>>) /\ j \in 0 .. 2
              \/ i = 4 /\ May(s, j, i, "text_delta", k, <<2>>) /\ j = 3
              \/ i = 5 /\ May(s, j, i, "part_done", k, Whole) /\ j = 4
              \/ i = 6 /\ May(s, j, i, "item_done", k, Whole) /\ j \in 4 .. 5
<1> DEFINE s == MessageScript(k, "deltas")
<1>1. Len(s) = 6 /\ j <= 6
  BY DEF MessageScript
<1>2. /\ s[1] = Optional("added", k, <<>>)
      /\ s[2] = Optional("part_added", k, <<>>)
      /\ s[3] = Event("text_delta", k, <<1>>)
      /\ s[4] = Event("text_delta", k, <<2>>)
      /\ s[5] = Optional("part_done", k, Whole)
      /\ s[6] = Event("item_done", k, Whole)
  BY DEF MessageScript
<1> HIDE DEF s
<1>3. ~s[3].skip /\ ~s[4].skip /\ ~s[6].skip
  BY <1>2 DEF Event
<1>4. ASSUME Complete(s, j) PROVE j = 6
  <2>1. \A m \in j + 1 .. 6 : s[m].skip
    BY <1>1, <1>4 DEF Complete
  <2>2. ~(j < 6)
    BY <1>3, <2>1
  <2> QED BY <1>1, <2>2
<1>5. ASSUME NEW i \in After(s, j)
      PROVE  \/ i = 1 /\ May(s, j, i, "added", k, <<>>) /\ j = 0
             \/ i = 2 /\ May(s, j, i, "part_added", k, <<>>) /\ j \in 0 .. 1
             \/ i = 3 /\ May(s, j, i, "text_delta", k, <<1>>) /\ j \in 0 .. 2
             \/ i = 4 /\ May(s, j, i, "text_delta", k, <<2>>) /\ j = 3
             \/ i = 5 /\ May(s, j, i, "part_done", k, Whole) /\ j = 4
             \/ i = 6 /\ May(s, j, i, "item_done", k, Whole) /\ j \in 4 .. 5
  <2>1. i \in j + 1 .. 6 /\ \A m \in j + 1 .. i - 1 : s[m].skip
    BY <1>1 DEF After
  <2>2. /\ i > 3 => j >= 3
        /\ i > 4 => j >= 4
        /\ i > 6 => j >= 6
    BY <1>3, <2>1
  <2>3. i \in 1 .. 6
    BY <2>1
  <2> QED BY <1>2, <2>1, <2>2, <2>3 DEF Event, Optional, May
<1> QED BY <1>1, <1>4, <1>5 DEF s

\* What may come next of a message that comes when it is finished.
LEMMA MessageFinished ==
  ASSUME NEW k, NEW j \in Nat, j <= Len(MessageScript(k, "finished"))
  PROVE  LET s == MessageScript(k, "finished") IN
         /\ Len(s) = 4 /\ (Complete(s, j) => j = 4)
         /\ \A i \in After(s, j) :
              \/ i = 1 /\ May(s, j, i, "added", k, <<>>) /\ j = 0
              \/ i = 2 /\ May(s, j, i, "part_added", k, <<>>) /\ j \in 0 .. 1
              \/ i = 3 /\ May(s, j, i, "part_done", k, Whole) /\ j \in 0 .. 2
              \/ i = 4 /\ May(s, j, i, "item_done", k, Whole) /\ j \in 0 .. 3
<1> DEFINE s == MessageScript(k, "finished")
<1>1. Len(s) = 4 /\ j <= 4
  BY DEF MessageScript
<1>2. /\ s[1] = Optional("added", k, <<>>)
      /\ s[2] = Optional("part_added", k, <<>>)
      /\ s[3] = Optional("part_done", k, Whole)
      /\ s[4] = Event("item_done", k, Whole)
  BY DEF MessageScript
<1> HIDE DEF s
<1>3. ~s[4].skip
  BY <1>2 DEF Event
<1>4. ASSUME Complete(s, j) PROVE j = 4
  <2>1. \A m \in j + 1 .. 4 : s[m].skip
    BY <1>1, <1>4 DEF Complete
  <2>2. ~(j < 4)
    BY <1>3, <2>1
  <2> QED BY <1>1, <2>2
<1>5. ASSUME NEW i \in After(s, j)
      PROVE  \/ i = 1 /\ May(s, j, i, "added", k, <<>>) /\ j = 0
             \/ i = 2 /\ May(s, j, i, "part_added", k, <<>>) /\ j \in 0 .. 1
             \/ i = 3 /\ May(s, j, i, "part_done", k, Whole) /\ j \in 0 .. 2
             \/ i = 4 /\ May(s, j, i, "item_done", k, Whole) /\ j \in 0 .. 3
  <2>1. i \in j + 1 .. 4 /\ \A m \in j + 1 .. i - 1 : s[m].skip
    BY <1>1 DEF After
  <2>2. /\ i > 4 => j >= 4
    BY <1>3, <2>1
  <2>3. i \in 1 .. 4
    BY <2>1
  <2> QED BY <1>2, <2>1, <2>2, <2>3 DEF Event, Optional, May
<1> QED BY <1>1, <1>4, <1>5 DEF s

\* What may come next of a call in deltas.
LEMMA CallDeltas ==
  ASSUME NEW k, NEW j \in Nat, j <= Len(CallScript(k, "deltas"))
  PROVE  LET s == CallScript(k, "deltas") IN
         /\ Len(s) = 5 /\ (Complete(s, j) => j = 5)
         /\ \A i \in After(s, j) :
              \/ i = 1 /\ May(s, j, i, "added", k, <<>>) /\ j = 0
              \/ i = 2 /\ May(s, j, i, "args_delta", k, <<1>>) /\ j = 1
              \/ i = 3 /\ May(s, j, i, "args_delta", k, <<2>>) /\ j = 2
              \/ i = 4 /\ May(s, j, i, "args_done", k, Whole) /\ j = 3
              \/ i = 5 /\ May(s, j, i, "item_done", k, Whole) /\ j \in 3 .. 4
<1> DEFINE s == CallScript(k, "deltas")
<1>1. Len(s) = 5 /\ j <= 5
  BY DEF CallScript
<1>2. /\ s[1] = Event("added", k, <<>>)
      /\ s[2] = Event("args_delta", k, <<1>>)
      /\ s[3] = Event("args_delta", k, <<2>>)
      /\ s[4] = Optional("args_done", k, Whole)
      /\ s[5] = Event("item_done", k, Whole)
  BY DEF CallScript
<1> HIDE DEF s
<1>3. ~s[1].skip /\ ~s[2].skip /\ ~s[3].skip /\ ~s[5].skip
  BY <1>2 DEF Event
<1>4. ASSUME Complete(s, j) PROVE j = 5
  <2>1. \A m \in j + 1 .. 5 : s[m].skip
    BY <1>1, <1>4 DEF Complete
  <2>2. ~(j < 5)
    BY <1>3, <2>1
  <2> QED BY <1>1, <2>2
<1>5. ASSUME NEW i \in After(s, j)
      PROVE  \/ i = 1 /\ May(s, j, i, "added", k, <<>>) /\ j = 0
             \/ i = 2 /\ May(s, j, i, "args_delta", k, <<1>>) /\ j = 1
             \/ i = 3 /\ May(s, j, i, "args_delta", k, <<2>>) /\ j = 2
             \/ i = 4 /\ May(s, j, i, "args_done", k, Whole) /\ j = 3
             \/ i = 5 /\ May(s, j, i, "item_done", k, Whole) /\ j \in 3 .. 4
  <2>1. i \in j + 1 .. 5 /\ \A m \in j + 1 .. i - 1 : s[m].skip
    BY <1>1 DEF After
  <2>2. /\ i > 1 => j >= 1
        /\ i > 2 => j >= 2
        /\ i > 3 => j >= 3
        /\ i > 5 => j >= 5
    BY <1>3, <2>1
  <2>3. i \in 1 .. 5
    BY <2>1
  <2> QED BY <1>2, <2>1, <2>2, <2>3 DEF Event, Optional, May
<1> QED BY <1>1, <1>4, <1>5 DEF s

\* What may come next of a call that comes when it is finished.
LEMMA CallFinished ==
  ASSUME NEW k, NEW j \in Nat, j <= Len(CallScript(k, "finished"))
  PROVE  LET s == CallScript(k, "finished") IN
         /\ Len(s) = 3 /\ (Complete(s, j) => j = 3)
         /\ \A i \in After(s, j) :
              \/ i = 1 /\ May(s, j, i, "added", k, <<>>) /\ j = 0
              \/ i = 2 /\ May(s, j, i, "args_done", k, Whole) /\ j = 1
              \/ i = 3 /\ May(s, j, i, "item_done", k, Whole) /\ j \in 1 .. 2
<1> DEFINE s == CallScript(k, "finished")
<1>1. Len(s) = 3 /\ j <= 3
  BY DEF CallScript
<1>2. /\ s[1] = Event("added", k, <<>>)
      /\ s[2] = Optional("args_done", k, Whole)
      /\ s[3] = Event("item_done", k, Whole)
  BY DEF CallScript
<1> HIDE DEF s
<1>3. ~s[1].skip /\ ~s[3].skip
  BY <1>2 DEF Event
<1>4. ASSUME Complete(s, j) PROVE j = 3
  <2>1. \A m \in j + 1 .. 3 : s[m].skip
    BY <1>1, <1>4 DEF Complete
  <2>2. ~(j < 3)
    BY <1>3, <2>1
  <2> QED BY <1>1, <2>2
<1>5. ASSUME NEW i \in After(s, j)
      PROVE  \/ i = 1 /\ May(s, j, i, "added", k, <<>>) /\ j = 0
             \/ i = 2 /\ May(s, j, i, "args_done", k, Whole) /\ j = 1
             \/ i = 3 /\ May(s, j, i, "item_done", k, Whole) /\ j \in 1 .. 2
  <2>1. i \in j + 1 .. 3 /\ \A m \in j + 1 .. i - 1 : s[m].skip
    BY <1>1 DEF After
  <2>2. /\ i > 1 => j >= 1
        /\ i > 3 => j >= 3
    BY <1>3, <2>1
  <2>3. i \in 1 .. 3
    BY <2>1
  <2> QED BY <1>2, <2>1, <2>2, <2>3 DEF Event, Optional, May
<1> QED BY <1>1, <1>4, <1>5 DEF s

\* What may come next of reasoning with a summary in one part.
LEMMA ReasoningOnePart ==
  ASSUME NEW k, NEW j \in Nat, j <= Len(ReasoningScript(k, "deltas", 1))
  PROVE  LET s == ReasoningScript(k, "deltas", 1) IN
         /\ Len(s) = 6 /\ (Complete(s, j) => j = 6)
         /\ \A i \in After(s, j) :
              \/ i = 1 /\ May(s, j, i, "added", k, <<>>) /\ j = 0
              \/ i = 2 /\ May(s, j, i, "summary_added", k, <<>>) /\ j = 1
              \/ i = 3 /\ May(s, j, i, "summary_delta", k, <<1>>) /\ j \in 1 .. 2
              \/ i = 4 /\ May(s, j, i, "summary_delta", k, <<2>>) /\ j = 3
              \/ i = 5 /\ May(s, j, i, "summary_done", k, <<>>) /\ j = 4
              \/ i = 6 /\ May(s, j, i, "item_done", k, Whole) /\ j \in 4 .. 5
<1> DEFINE s == ReasoningScript(k, "deltas", 1)
<1>1. Len(s) = 6 /\ j <= 6
  BY DEF ReasoningScript
<1>2. /\ s[1] = Event("added", k, <<>>)
      /\ s[2] = Optional("summary_added", k, <<>>)
      /\ s[3] = Event("summary_delta", k, <<1>>)
      /\ s[4] = Event("summary_delta", k, <<2>>)
      /\ s[5] = Optional("summary_done", k, <<>>)
      /\ s[6] = Event("item_done", k, Whole)
  BY DEF ReasoningScript
<1> HIDE DEF s
<1>3. ~s[1].skip /\ ~s[3].skip /\ ~s[4].skip /\ ~s[6].skip
  BY <1>2 DEF Event
<1>4. ASSUME Complete(s, j) PROVE j = 6
  <2>1. \A m \in j + 1 .. 6 : s[m].skip
    BY <1>1, <1>4 DEF Complete
  <2>2. ~(j < 6)
    BY <1>3, <2>1
  <2> QED BY <1>1, <2>2
<1>5. ASSUME NEW i \in After(s, j)
      PROVE  \/ i = 1 /\ May(s, j, i, "added", k, <<>>) /\ j = 0
             \/ i = 2 /\ May(s, j, i, "summary_added", k, <<>>) /\ j = 1
             \/ i = 3 /\ May(s, j, i, "summary_delta", k, <<1>>) /\ j \in 1 .. 2
             \/ i = 4 /\ May(s, j, i, "summary_delta", k, <<2>>) /\ j = 3
             \/ i = 5 /\ May(s, j, i, "summary_done", k, <<>>) /\ j = 4
             \/ i = 6 /\ May(s, j, i, "item_done", k, Whole) /\ j \in 4 .. 5
  <2>1. i \in j + 1 .. 6 /\ \A m \in j + 1 .. i - 1 : s[m].skip
    BY <1>1 DEF After
  <2>2. /\ i > 1 => j >= 1
        /\ i > 3 => j >= 3
        /\ i > 4 => j >= 4
        /\ i > 6 => j >= 6
    BY <1>3, <2>1
  <2>3. i \in 1 .. 6
    BY <2>1
  <2> QED BY <1>2, <2>1, <2>2, <2>3 DEF Event, Optional, May
<1> QED BY <1>1, <1>4, <1>5 DEF s

\* What may come next of reasoning with a summary in two parts.
LEMMA ReasoningTwoParts ==
  ASSUME NEW k, NEW j \in Nat, j <= Len(ReasoningScript(k, "deltas", 2))
  PROVE  LET s == ReasoningScript(k, "deltas", 2) IN
         /\ Len(s) = 8 /\ (Complete(s, j) => j = 8)
         /\ \A i \in After(s, j) :
              \/ i = 1 /\ May(s, j, i, "added", k, <<>>) /\ j = 0
              \/ i = 2 /\ May(s, j, i, "summary_added", k, <<>>) /\ j = 1
              \/ i = 3 /\ May(s, j, i, "summary_delta", k, <<1>>) /\ j \in 1 .. 2
              \/ i = 4 /\ May(s, j, i, "summary_done", k, <<>>) /\ j = 3
              \/ i = 5 /\ May(s, j, i, "summary_added", k, <<>>) /\ j = 4
              \/ i = 6 /\ May(s, j, i, "summary_delta", k, <<2>>) /\ j = 5
              \/ i = 7 /\ May(s, j, i, "summary_done", k, <<>>) /\ j = 6
              \/ i = 8 /\ May(s, j, i, "item_done", k, Whole) /\ j = 7
<1> DEFINE s == ReasoningScript(k, "deltas", 2)
<1>1. Len(s) = 8 /\ j <= 8
  BY DEF ReasoningScript
<1>2. /\ s[1] = Event("added", k, <<>>)
      /\ s[2] = Optional("summary_added", k, <<>>)
      /\ s[3] = Event("summary_delta", k, <<1>>)
      /\ s[4] = Event("summary_done", k, <<>>)
      /\ s[5] = Event("summary_added", k, <<>>)
      /\ s[6] = Event("summary_delta", k, <<2>>)
      /\ s[7] = Event("summary_done", k, <<>>)
      /\ s[8] = Event("item_done", k, Whole)
  BY DEF ReasoningScript
<1> HIDE DEF s
<1>3. ~s[1].skip /\ ~s[3].skip /\ ~s[4].skip /\ ~s[5].skip /\ ~s[6].skip /\ ~s[7].skip /\ ~s[8].skip
  BY <1>2 DEF Event
<1>4. ASSUME Complete(s, j) PROVE j = 8
  <2>1. \A m \in j + 1 .. 8 : s[m].skip
    BY <1>1, <1>4 DEF Complete
  <2>2. ~(j < 8)
    BY <1>3, <2>1
  <2> QED BY <1>1, <2>2
<1>5. ASSUME NEW i \in After(s, j)
      PROVE  \/ i = 1 /\ May(s, j, i, "added", k, <<>>) /\ j = 0
             \/ i = 2 /\ May(s, j, i, "summary_added", k, <<>>) /\ j = 1
             \/ i = 3 /\ May(s, j, i, "summary_delta", k, <<1>>) /\ j \in 1 .. 2
             \/ i = 4 /\ May(s, j, i, "summary_done", k, <<>>) /\ j = 3
             \/ i = 5 /\ May(s, j, i, "summary_added", k, <<>>) /\ j = 4
             \/ i = 6 /\ May(s, j, i, "summary_delta", k, <<2>>) /\ j = 5
             \/ i = 7 /\ May(s, j, i, "summary_done", k, <<>>) /\ j = 6
             \/ i = 8 /\ May(s, j, i, "item_done", k, Whole) /\ j = 7
  <2>1. i \in j + 1 .. 8 /\ \A m \in j + 1 .. i - 1 : s[m].skip
    BY <1>1 DEF After
  <2>2. /\ i > 1 => j >= 1
        /\ i > 3 => j >= 3
        /\ i > 4 => j >= 4
        /\ i > 5 => j >= 5
        /\ i > 6 => j >= 6
        /\ i > 7 => j >= 7
        /\ i > 8 => j >= 8
    BY <1>3, <2>1
  <2>3. i \in 1 .. 8
    BY <2>1
  <2> QED BY <1>2, <2>1, <2>2, <2>3 DEF Event, Optional, May
<1> QED BY <1>1, <1>4, <1>5 DEF s

\* What may come next of reasoning that comes when it is finished.
LEMMA ReasoningFinished ==
  ASSUME NEW k, NEW parts, NEW j \in Nat, j <= Len(ReasoningScript(k, "finished", parts))
  PROVE  LET s == ReasoningScript(k, "finished", parts) IN
         /\ Len(s) = 2 /\ (Complete(s, j) => j = 2)
         /\ \A i \in After(s, j) :
              \/ i = 1 /\ May(s, j, i, "added", k, <<>>) /\ j = 0
              \/ i = 2 /\ May(s, j, i, "item_done", k, Whole) /\ j = 1
<1> DEFINE s == ReasoningScript(k, "finished", parts)
<1>1. Len(s) = 2 /\ j <= 2
  BY DEF ReasoningScript
<1>2. /\ s[1] = Event("added", k, <<>>)
      /\ s[2] = Event("item_done", k, Whole)
  BY DEF ReasoningScript
<1> HIDE DEF s
<1>3. ~s[1].skip /\ ~s[2].skip
  BY <1>2 DEF Event
<1>4. ASSUME Complete(s, j) PROVE j = 2
  <2>1. \A m \in j + 1 .. 2 : s[m].skip
    BY <1>1, <1>4 DEF Complete
  <2>2. ~(j < 2)
    BY <1>3, <2>1
  <2> QED BY <1>1, <2>2
<1>5. ASSUME NEW i \in After(s, j)
      PROVE  \/ i = 1 /\ May(s, j, i, "added", k, <<>>) /\ j = 0
             \/ i = 2 /\ May(s, j, i, "item_done", k, Whole) /\ j = 1
  <2>1. i \in j + 1 .. 2 /\ \A m \in j + 1 .. i - 1 : s[m].skip
    BY <1>1 DEF After
  <2>2. /\ i > 1 => j >= 1
        /\ i > 2 => j >= 2
    BY <1>3, <2>1
  <2>3. i \in 1 .. 2
    BY <2>1
  <2> QED BY <1>2, <2>1, <2>2, <2>3 DEF Event, Optional, May
<1> QED BY <1>1, <1>4, <1>5 DEF s

-------------------------------------------------------------------------------
(* What the chat translator sends.                                         *)

\* The content of a chunk is a sequence of pieces.
LEMMA ChunksPiecewise == Piecewise(Chunks)
BY DEF Piecewise, Chunks

\* What a chat translator sent is a sequence of chunks.
LEMMA ChatOutTyped ==
  ASSUME NEW t \in Chats
  PROVE  /\ t.out \in Seq(Chunks) /\ Len(t.out) \in Nat /\ DOMAIN t.out = 1 .. Len(t.out)
         /\ \A i \in 1 .. Len(t.out) : t.out[i] \in Chunks
         /\ t.out # <<>> <=> Len(t.out) # 0
<1>1. t.out \in Seq(Chunks)
  BY DEF Chats
<1> QED BY <1>1

\* What appending a chunk does to what is read.
ChunkRead(out, b, k) ==
  /\ b.item = k => Read(Append(out, b), k) = Read(out, k) \o b.pieces
  /\ b.item # k => Read(Append(out, b), k) = Read(out, k)

\* A chunk is read after those before it.
LEMMA ChunkAppended ==
  ASSUME NEW out \in Seq(Chunks), NEW b \in Chunks, NEW k
  PROVE  Read(out, k) \in Seq(Nat) /\ ChunkRead(out, b, k)
BY ChunksPiecewise, ReadAppend DEF ChunkRead

\* The chunks once one is added.
LEMMA ChunkAdded ==
  ASSUME NEW out \in Seq(Chunks), NEW b \in Chunks
  PROVE  LET new == Append(out, b) IN
         /\ new \in Seq(Chunks) /\ Len(new) = Len(out) + 1 /\ DOMAIN new = 1 .. Len(out) + 1
         /\ new[Len(out) + 1] = b /\ new # <<>>
         /\ \A i \in 1 .. Len(out) : new[i] = out[i]
         /\ \A i \in DOMAIN new : i \in 1 .. Len(out) \/ i = Len(out) + 1
OBVIOUS

\* The client reads more of item k.
Says(t, u, c, k, q) ==
  /\ ChatFormed(u, c)
  /\ Read(u.out, k) = Read(t.out, k) \o q
  /\ \A m : m # k => Read(u.out, m) = Read(t.out, m)

\* A chunk with a delta is added.
LEMMA Said ==
  ASSUME NEW c \in Nat, NEW t, NEW u, ChatFormed(t, c), NEW b \in Chunks,
         b.what \in {"role", "text", "tool"}, b.item \in 0 .. c, b.role <=> t.out = <<>>,
         b.what = "tool" => (b.identity <=> b.item \notin t.identitySent),
         u \in Chats, ~u.terminal, ~u.failed, u.sentRole, u.out = Append(t.out, b),
         u.tools \subseteq 1 .. c, u.sawArgs \subseteq 1 .. c, u.finalized \subseteq 1 .. c,
         u.identitySent = IF b.what = "tool" THEN t.identitySent \cup {b.item} ELSE t.identitySent
  PROVE  Says(t, u, c, b.item, b.pieces)
<1> DEFINE n == Len(t.out)
<1>1. t \in Chats /\ t.out \in Seq(Chunks) /\ n \in Nat /\ DOMAIN t.out = 1 .. n /\ (n = 0 <=> t.out = <<>>)
  BY ChatOutTyped DEF ChatFormed
<1>2. \A k : ChunkRead(t.out, b, k)
  BY <1>1, ChunkAppended
<1>3. /\ DOMAIN u.out = 1 .. n + 1 /\ u.out[n + 1] = b /\ u.out # <<>>
      /\ \A i \in 1 .. n : u.out[i] = t.out[i]
      /\ \A i \in DOMAIN u.out : i \in 1 .. n \/ i = n + 1
  BY <1>1, ChunkAdded
<1> HIDE DEF n
<1>4. ASSUME NEW i \in DOMAIN u.out
      PROVE  /\ u.out[i].what \in {"role", "text", "tool"}
             /\ u.out[i].item \in 0 .. c
             /\ u.out[i].role <=> i = 1
             /\ u.out[i].what = "tool" =>
                  (u.out[i].identity <=>
                     \A j \in 1 .. i - 1 : ~(u.out[j].what = "tool" /\ u.out[j].item = u.out[i].item))
  <2>1. CASE i \in 1 .. n
    <3>1. u.out[i] = t.out[i] /\ \A j \in 1 .. i - 1 : u.out[j] = t.out[j]
      BY <1>1, <1>3, <2>1
    <3> QED BY <1>1, <2>1, <3>1 DEF ChatFormed
  <2>2. CASE i = n + 1
    <3>1. u.out[i] = b /\ \A j \in 1 .. i - 1 : u.out[j] = t.out[j] /\ j \in DOMAIN t.out
      BY <1>1, <1>3, <2>2
    <3>2. b.role <=> i = 1
      BY <1>1, <2>2
    <3>3. ASSUME b.what = "tool"
          PROVE  b.identity <=> \A j \in 1 .. i - 1 : ~(t.out[j].what = "tool" /\ t.out[j].item = b.item)
      <4>1. b.item \in Nat
        OBVIOUS
      <4>2. b.item \in t.identitySent <=> \E j \in DOMAIN t.out : t.out[j].what = "tool" /\ t.out[j].item = b.item
        BY <4>1 DEF ChatFormed
      <4>3. DOMAIN t.out = 1 .. i - 1
        BY <1>1, <2>2
      <4> QED BY <3>3, <4>2, <4>3
    <3> QED BY <3>1, <3>2, <3>3
  <2> QED BY <1>3, <2>1, <2>2
<1>5. ASSUME NEW k \in Nat
      PROVE  k \in u.identitySent <=> \E i \in DOMAIN u.out : u.out[i].what = "tool" /\ u.out[i].item = k
  <2>1. k \in t.identitySent <=> \E i \in 1 .. n : t.out[i].what = "tool" /\ t.out[i].item = k
    BY <1>1 DEF ChatFormed
  <2>2. k \in u.identitySent <=> k \in t.identitySent \/ (b.what = "tool" /\ k = b.item)
    OBVIOUS
  <2>3. (\E i \in DOMAIN u.out : u.out[i].what = "tool" /\ u.out[i].item = k)
        <=> (\E i \in 1 .. n : t.out[i].what = "tool" /\ t.out[i].item = k) \/ (b.what = "tool" /\ b.item = k)
    BY <1>1, <1>3
  <2> QED BY <2>1, <2>2, <2>3
<1>6. ChatFormed(u, c)
  BY <1>3, <1>4, <1>5 DEF ChatFormed
<1> QED BY <1>2, <1>6, Zenon DEF ChunkRead, Says

\* A chunk with a delta, as Say sends it.
Spoken(what, k, q, role, identity) ==
  [what |-> what, item |-> k, pieces |-> q, role |-> role, identity |-> identity, reason |-> "none"]

\* Such a chunk is one.
LEMMA SpokenTyped ==
  ASSUME NEW what \in {"role", "text", "tool"}, NEW k \in Nat, NEW q \in Seq(Nat),
         NEW role \in BOOLEAN, NEW identity \in BOOLEAN
  PROVE  Spoken(what, k, q, role, identity) \in Chunks
BY DEF Spoken, Chunks

\* The chunk before it is sent, and once it was sent.
Fresh(chunk, what, k, q, identity) == chunk = Spoken(what, k, q, FALSE, identity)
Spoke(t, u, what, k, q, identity, sent) ==
  /\ u \in Chats /\ u.out = Append(t.out, Spoken(what, k, q, ~t.sentRole, identity)) /\ u.sentRole
  /\ u.terminal = t.terminal /\ u.failed = t.failed /\ u.tools = t.tools
  /\ u.sawArgs = t.sawArgs /\ u.finalized = t.finalized /\ u.identitySent = sent

\* Say adds the role to the first chunk and to no other.
LEMMA Speaks ==
  ASSUME NEW t \in Chats, NEW what \in {"role", "text", "tool"}, NEW k \in Nat, NEW q \in Seq(Nat),
         NEW identity \in BOOLEAN, NEW chunk, Fresh(chunk, what, k, q, identity)
  PROVE  Spoke(t, Say(t, chunk), what, k, q, identity, t.identitySent)
<1> DEFINE b == Spoken(what, k, q, ~t.sentRole, identity)
<1>1. [chunk EXCEPT !.role = ~t.sentRole] = b
  BY DEF Spoken, Fresh
<1>2. b \in Chunks
  <2>1. (~t.sentRole) \in BOOLEAN
    OBVIOUS
  <2> QED BY <2>1, SpokenTyped
<1> HIDE DEF b
<1> DEFINE o == Append(t.out, b)
<1>3. o \in Seq(Chunks)
  BY <1>2, ChatOutTyped
<1>4. Say(t, chunk) = [t EXCEPT !.sentRole = TRUE, !.out = o]
  BY <1>1 DEF Say
<1> HIDE DEF o
<1>5. LET u == Say(t, chunk) IN
         /\ u \in Chats /\ u.out = o /\ u.sentRole
         /\ u.terminal = t.terminal /\ u.failed = t.failed /\ u.tools = t.tools
         /\ u.sawArgs = t.sawArgs /\ u.finalized = t.finalized /\ u.identitySent = t.identitySent
  BY <1>3, <1>4 DEF Chats
<1> QED BY <1>5 DEF o, b, Spoke

\* Only what it knows of the calls changes.
LEMMA Noted ==
  ASSUME NEW c \in Nat, NEW t, NEW u, ChatFormed(t, c),
         u \in Chats, u.out = t.out, u.sentRole = t.sentRole, u.terminal = t.terminal, u.failed = t.failed,
         u.identitySent = t.identitySent,
         u.tools \subseteq 1 .. c, u.sawArgs \subseteq 1 .. c, u.finalized \subseteq 1 .. c
  PROVE  ChatFormed(u, c)
BY DEF ChatFormed

\* A call is named by its first chunk.
Names(t, what, k, identity, sent) ==
  /\ what = "tool" => (identity <=> k \notin t.identitySent)
  /\ sent = IF what = "tool" THEN t.identitySent \cup {k} ELSE t.identitySent

\* A chunk of an item is read after what was read of it.
LEMMA SaysMore ==
  ASSUME NEW c \in Nat, NEW t, ChatFormed(t, c), NEW what \in {"role", "text", "tool"}, NEW k \in 0 .. c,
         NEW q \in Seq(Nat), NEW identity \in BOOLEAN, NEW sent, Names(t, what, k, identity, sent),
         NEW u, Spoke(t, u, what, k, q, identity, sent)
  PROVE  Says(t, u, c, k, q)
<1> DEFINE b == Spoken(what, k, q, ~t.sentRole, identity)
<1>1. b.what = what /\ b.item = k /\ b.pieces = q /\ b.identity = identity /\ b.role = ~t.sentRole
  BY DEF Spoken
<1>2. /\ t \in Chats /\ t.tools \subseteq 1 .. c /\ t.sawArgs \subseteq 1 .. c /\ t.finalized \subseteq 1 .. c
      /\ (t.sentRole <=> t.out # <<>>) /\ ~t.terminal /\ ~t.failed
  BY DEF ChatFormed
<1>3. b \in Chunks
  <2>1. (~t.sentRole) \in BOOLEAN /\ k \in Nat
    OBVIOUS
  <2> QED BY <2>1, SpokenTyped
<1>4. /\ u \in Chats /\ u.out = Append(t.out, b) /\ u.sentRole /\ ~u.terminal /\ ~u.failed
      /\ u.tools = t.tools /\ u.sawArgs = t.sawArgs /\ u.finalized = t.finalized
      /\ u.identitySent = sent
  BY <1>2 DEF Spoke
<1> HIDE DEF b
<1>5. /\ b.what \in {"role", "text", "tool"} /\ b.item \in 0 .. c
      /\ b.what = "tool" => (b.identity <=> b.item \notin t.identitySent)
      /\ u.identitySent = IF b.what = "tool" THEN t.identitySent \cup {b.item} ELSE t.identitySent
      /\ u.tools \subseteq 1 .. c /\ u.sawArgs \subseteq 1 .. c /\ u.finalized \subseteq 1 .. c
  BY <1>1, <1>2, <1>4 DEF Names
<1>6. b.role <=> t.out = <<>>
  BY <1>1, <1>2
<1>7. Says(t, u, c, b.item, b.pieces)
  BY <1>3, <1>4, <1>5, <1>6, Said
<1> QED BY <1>1, <1>7

\* A chunk without content changes nothing the client reads.
LEMMA SaysNothing ==
  ASSUME NEW c \in Nat, NEW t, ChatFormed(t, c), NEW u, NEW k, Says(t, u, c, k, <<>>)
  PROVE  \A m : Read(u.out, m) = Read(t.out, m)
<1>1. t.out \in Seq(Chunks)
  BY ChatOutTyped DEF ChatFormed
<1>2. [i \in DOMAIN t.out |-> IF t.out[i].item = k THEN t.out[i].pieces ELSE <<>>] \in Seq(Seq(Nat))
  BY <1>1, ChunksPiecewise, Contributions
<1>3. Read(t.out, k) \in Seq(Nat)
  BY <1>2, FlattenAppend, Parts DEF Read
<1>4. Read(t.out, k) \o <<>> = Read(t.out, k)
  BY <1>3
<1> QED BY <1>4, Zenon DEF Says

\* What it knows of the calls.
Knows(u, tools, sawArgs, finalized) ==
  u.tools = tools /\ u.sawArgs = sawArgs /\ u.finalized = finalized

\* The first chunk may have the role alone.
LEMMA Greets ==
  ASSUME NEW c \in Nat, NEW t, ChatFormed(t, c)
  PROVE  /\ ChatFormed(Greet(t), c)
         /\ \A k : Read(Greet(t).out, k) = Read(t.out, k)
<1>1. CASE t.sentRole
  BY <1>1 DEF Greet
<1>2. CASE ~t.sentRole
  <2> DEFINE chunk == Chunk("role", 0, <<>>)
             u == Say(t, chunk)
  <2>1. t \in Chats /\ <<>> \in Seq(Nat) /\ 0 \in 0 .. c
    BY DEF ChatFormed
  <2>2. Greet(t) = u /\ Fresh(chunk, "role", 0, <<>>, FALSE)
    BY <1>2 DEF Greet, Chunk, Spoken, Fresh
  <2> HIDE DEF chunk
  <2>3. Spoke(t, u, "role", 0, <<>>, FALSE, t.identitySent)
    BY <2>1, <2>2, Speaks
  <2> HIDE DEF u
  <2>4. Names(t, "role", 0, FALSE, t.identitySent)
    BY DEF Names
  <2>5. Says(t, u, c, 0, <<>>)
    BY <2>1, <2>3, <2>4, SaysMore
  <2>6. ChatFormed(u, c) /\ \A k : Read(u.out, k) = Read(t.out, k)
    BY <2>5, SaysNothing DEF Says
  <2> QED BY <2>2, <2>6
<1> QED BY <1>1, <1>2

\* Text is read once.
LEMMA SaysText ==
  ASSUME NEW c \in Nat, NEW t, ChatFormed(t, c), NEW k \in 1 .. c, NEW q \in Seq(Nat), q # <<>>
  PROVE  Says(t, ChatText(t, k, q), c, k, q)
<1> DEFINE chunk == Chunk("text", k, q)
           u == Say(t, chunk)
<1>1. t \in Chats /\ k \in Nat /\ k \in 0 .. c
  BY DEF ChatFormed
<1>2. ChatText(t, k, q) = u /\ Fresh(chunk, "text", k, q, FALSE)
  BY DEF ChatText, Chunk, Spoken, Fresh
<1> HIDE DEF chunk
<1>3. Spoke(t, u, "text", k, q, FALSE, t.identitySent)
  BY <1>1, <1>2, Speaks
<1> HIDE DEF u
<1>4. Names(t, "text", k, FALSE, t.identitySent)
  BY DEF Names
<1>5. Says(t, u, c, k, q)
  BY <1>1, <1>3, <1>4, SaysMore
<1> QED BY <1>2, <1>5

\* A chunk of a call with its identity or without.
LEMMA Named ==
  ASSUME NEW k, NEW q, NEW identity
  PROVE  [Chunk("tool", k, q) EXCEPT !.identity = identity] = Spoken("tool", k, q, FALSE, identity)
<1>1. \E no : no = FALSE
  OBVIOUS
<1>2. PICK no : no = FALSE
  BY <1>1
<1>3. Chunk("tool", k, q) = Spoken("tool", k, q, no, no)
  BY <1>2, Zenon DEF Chunk, Spoken
<1>4. [Chunk("tool", k, q) EXCEPT !.identity = identity] = [Spoken("tool", k, q, no, no) EXCEPT !.identity = identity]
  BY <1>3
<1>5. [Spoken("tool", k, q, no, no) EXCEPT !.identity = identity] = Spoken("tool", k, q, no, identity)
  BY DEF Spoken
<1>6. Spoken("tool", k, q, no, identity) = Spoken("tool", k, q, FALSE, identity)
  BY <1>2
<1> QED BY <1>4, <1>5, <1>6

\* A chunk of a call has its identity if it is the first.
LEMMA SaysTool ==
  ASSUME NEW c \in Nat, NEW t, ChatFormed(t, c), NEW k \in 1 .. c, NEW q \in Seq(Nat)
  PROVE  /\ Says(t, ToolChunk(t, k, q), c, k, q)
         /\ Knows(ToolChunk(t, k, q), t.tools, t.sawArgs, t.finalized)
<1> DEFINE identity == k \notin t.identitySent
           chunk == [Chunk("tool", k, q) EXCEPT !.identity = identity]
           v == Say(t, chunk)
           sent == t.identitySent \cup {k}
           u == ToolChunk(t, k, q)
<1>1. t \in Chats /\ k \in Nat /\ k \in 0 .. c
  BY DEF ChatFormed
<1>2. identity \in BOOLEAN
  OBVIOUS
<1>3. u = [v EXCEPT !.identitySent = @ \cup {k}]
  BY DEF ToolChunk
<1>4. Names(t, "tool", k, identity, sent)
  BY DEF Names
<1> HIDE DEF identity
<1>5. Fresh(chunk, "tool", k, q, identity)
  <2>1. chunk = Spoken("tool", k, q, FALSE, identity)
    BY Named
  <2> QED BY <2>1 DEF Fresh
<1> HIDE DEF chunk, u
<1>6. Spoke(t, v, "tool", k, q, identity, t.identitySent)
  BY <1>1, <1>2, <1>5, Speaks
<1> HIDE DEF v
<1>7. Spoke(t, u, "tool", k, q, identity, sent)
  <2>1. v \in Chats /\ v.identitySent = t.identitySent /\ sent \in SUBSET Nat
    BY <1>1, <1>6 DEF Spoke, Chats
  <2>2. u \in Chats /\ u.out = v.out /\ u.sentRole = v.sentRole /\ u.terminal = v.terminal /\ u.failed = v.failed
        /\ u.tools = v.tools /\ u.sawArgs = v.sawArgs /\ u.finalized = v.finalized
        /\ u.identitySent = sent
    BY <1>3, <2>1 DEF Chats
  <2> QED BY <1>6, <2>2 DEF Spoke
<1> HIDE DEF sent
<1>8. Says(t, u, c, k, q)
  BY <1>1, <1>2, <1>4, <1>7, SaysMore
<1>9. Knows(u, t.tools, t.sawArgs, t.finalized)
  BY <1>7 DEF Knows, Spoke
<1> QED BY <1>8, <1>9 DEF u

\* Only calls that were told are known.
LEMMA ChatKnown ==
  ASSUME NEW c \in Nat, NEW t, ChatFormed(t, c)
  PROVE  /\ t \in Chats /\ t.tools \subseteq 1 .. c /\ t.sawArgs \subseteq 1 .. c /\ t.finalized \subseteq 1 .. c
         /\ ~t.terminal /\ ~t.failed
BY DEF ChatFormed

\* It learns of a call; nothing is sent.
Learns(t, u, tools, sawArgs, finalized) ==
  /\ u \in Chats /\ u.out = t.out /\ u.sentRole = t.sentRole /\ u.terminal = t.terminal /\ u.failed = t.failed
  /\ u.identitySent = t.identitySent
  /\ Knows(u, tools, sawArgs, finalized)

\* They are among the items told.
Within(c, tools, sawArgs, finalized) ==
  tools \subseteq 1 .. c /\ sawArgs \subseteq 1 .. c /\ finalized \subseteq 1 .. c

\* Learning of a call sends nothing.
LEMMA Learnt ==
  ASSUME NEW c \in Nat, NEW t, ChatFormed(t, c), NEW u, NEW tools, NEW sawArgs, NEW finalized,
         Learns(t, u, tools, sawArgs, finalized), Within(c, tools, sawArgs, finalized)
  PROVE  ChatFormed(u, c)
BY Noted DEF Learns, Knows, Within

\* A call is named; more of its arguments come; its last event comes.
CallNamed(t, u, c, k) ==
  Says(t, u, c, k, <<>>) /\ Knows(u, t.tools \cup {k}, t.sawArgs, t.finalized)
CallTold(t, u, c, k, q) ==
  Says(t, u, c, k, q) /\ Knows(u, t.tools \cup {k}, t.sawArgs \cup {k}, t.finalized)
CallDone(t, u, c, k, q) ==
  /\ ChatFormed(u, c)
  /\ k \in t.sawArgs => \A m : Read(u.out, m) = Read(t.out, m)
  /\ k \notin t.sawArgs => Says(t, u, c, k, q)
  /\ Knows(u, t.tools \cup {k}, t.sawArgs \cup {k}, t.finalized \cup {k})

\* A call is announced.
LEMMA AddsTool ==
  ASSUME NEW c \in Nat, NEW t, ChatFormed(t, c), NEW k \in 1 .. c
  PROVE  CallNamed(t, ToolAdded(t, k), c, k)
<1> DEFINE v == EnsureTool(t, k)
           u == ToolAdded(t, k)
<1>1. u = ToolChunk(v, k, <<>>) /\ <<>> \in Seq(Nat)
  BY DEF ToolAdded
<1>2. Learns(t, v, t.tools \cup {k}, t.sawArgs, t.finalized)
  BY ChatKnown DEF EnsureTool, Chats, Learns, Knows
<1> HIDE DEF v, u
<1>0. Within(c, t.tools \cup {k}, t.sawArgs, t.finalized)
  BY ChatKnown DEF Within
<1>3. ChatFormed(v, c)
  BY <1>0, <1>2, Learnt
<1>4. Says(v, u, c, k, <<>>) /\ Knows(u, v.tools, v.sawArgs, v.finalized)
  BY <1>1, <1>3, SaysTool
<1>5. Says(t, u, c, k, <<>>) /\ Knows(u, t.tools \cup {k}, t.sawArgs, t.finalized)
  BY <1>2, <1>4 DEF Learns, Knows, Says
<1> QED BY <1>5 DEF u, CallNamed

\* More of the arguments of a call.
LEMMA TellsTool ==
  ASSUME NEW c \in Nat, NEW t, ChatFormed(t, c), NEW k \in 1 .. c, NEW q \in Seq(Nat), q # <<>>
  PROVE  CallTold(t, ToolDelta(t, k, q), c, k, q)
<1> DEFINE v == [EnsureTool(t, k) EXCEPT !.sawArgs = @ \cup {k}]
           u == ToolDelta(t, k, q)
<1>1. u = ToolChunk(v, k, q)
  BY DEF ToolDelta
<1>2. Learns(t, v, t.tools \cup {k}, t.sawArgs \cup {k}, t.finalized)
  <2>1. v = [t EXCEPT !.tools = t.tools \cup {k}, !.sawArgs = t.sawArgs \cup {k}]
    BY ChatKnown DEF EnsureTool, Chats
  <2> HIDE DEF v
  <2>2. t \in Chats /\ t.tools \cup {k} \in SUBSET Nat /\ t.sawArgs \cup {k} \in SUBSET Nat
    BY ChatKnown DEF Chats
  <2>3. /\ v \in Chats /\ v.out = t.out /\ v.sentRole = t.sentRole /\ v.terminal = t.terminal /\ v.failed = t.failed
        /\ v.identitySent = t.identitySent /\ v.tools = t.tools \cup {k}
        /\ v.sawArgs = t.sawArgs \cup {k} /\ v.finalized = t.finalized
    BY <2>1, <2>2 DEF Chats
  <2> QED BY <2>3 DEF Learns, Knows
<1> HIDE DEF v, u
<1>0. Within(c, t.tools \cup {k}, t.sawArgs \cup {k}, t.finalized)
  BY ChatKnown DEF Within
<1>3. ChatFormed(v, c)
  BY <1>0, <1>2, Learnt
<1>4. Says(v, u, c, k, q) /\ Knows(u, v.tools, v.sawArgs, v.finalized)
  BY <1>1, <1>3, SaysTool
<1>5. Says(t, u, c, k, q) /\ Knows(u, t.tools \cup {k}, t.sawArgs \cup {k}, t.finalized)
  BY <1>2, <1>4 DEF Learns, Knows, Says
<1> QED BY <1>5 DEF u, CallTold

\* The arguments of a call are sent with its last event unless deltas brought them.
LEMMA FinishesTool ==
  ASSUME NEW c \in Nat, NEW t, ChatFormed(t, c), NEW k \in 1 .. c, NEW q \in Seq(Nat),
         k \in t.finalized => k \in t.sawArgs
  PROVE  CallDone(t, ToolDone(t, k, q), c, k, q)
<1> DEFINE d == EnsureTool(t, k)
           u == ToolDone(t, k, q)
<1>1. Learns(t, d, t.tools \cup {k}, t.sawArgs, t.finalized)
  BY ChatKnown DEF EnsureTool, Chats, Learns, Knows
<1>2. u = IF k \in d.finalized THEN d
          ELSE IF k \in d.sawArgs THEN [d EXCEPT !.finalized = @ \cup {k}]
          ELSE ToolChunk([d EXCEPT !.finalized = @ \cup {k}, !.sawArgs = @ \cup {k}], k, q)
  BY DEF ToolDone
<1> HIDE DEF d, u
<1>3. d.sawArgs = t.sawArgs /\ d.finalized = t.finalized /\ d.tools = t.tools \cup {k} /\ d \in Chats
  BY <1>1 DEF Learns, Knows
<1>4. CASE k \in t.finalized
  <2>1. u = d
    BY <1>2, <1>3, <1>4
  <2>2. t.sawArgs \cup {k} = t.sawArgs /\ t.finalized \cup {k} = t.finalized
    BY <1>4
  <2>0. Within(c, t.tools \cup {k}, t.sawArgs, t.finalized)
    BY ChatKnown DEF Within
  <2>3. ChatFormed(u, c)
    BY <2>0, <1>1, <2>1, Learnt
  <2>4. Knows(u, t.tools \cup {k}, t.sawArgs \cup {k}, t.finalized \cup {k})
    BY <1>3, <2>1, <2>2 DEF Knows
  <2>5. u.out = t.out
    BY <1>1, <2>1 DEF Learns
  <2> QED BY <1>4, <2>3, <2>4, <2>5 DEF u, CallDone
<1>5. CASE k \notin t.finalized /\ k \in t.sawArgs
  <2>1. u = [d EXCEPT !.finalized = @ \cup {k}]
    BY <1>2, <1>3, <1>5
  <2>2. t.sawArgs \cup {k} = t.sawArgs
    BY <1>5
  <2>3. Learns(t, u, t.tools \cup {k}, t.sawArgs \cup {k}, t.finalized \cup {k})
    <3>1. /\ u \in Chats /\ u.out = d.out /\ u.sentRole = d.sentRole /\ u.terminal = d.terminal /\ u.failed = d.failed
          /\ u.identitySent = d.identitySent /\ u.tools = d.tools /\ u.sawArgs = d.sawArgs
          /\ u.finalized = d.finalized \cup {k}
      BY <1>3, <2>1 DEF Chats
    <3> QED BY <1>1, <1>3, <2>2, <3>1 DEF Learns, Knows
  <2>0. Within(c, t.tools \cup {k}, t.sawArgs \cup {k}, t.finalized \cup {k})
    BY ChatKnown DEF Within
  <2>4. ChatFormed(u, c)
    BY <2>0, <2>3, Learnt
  <2>5. u.out = t.out /\ Knows(u, t.tools \cup {k}, t.sawArgs \cup {k}, t.finalized \cup {k})
    BY <2>3 DEF Learns
  <2> QED BY <1>5, <2>4, <2>5 DEF u, CallDone
<1>6. CASE k \notin t.finalized /\ k \notin t.sawArgs
  <2> DEFINE v == [d EXCEPT !.finalized = @ \cup {k}, !.sawArgs = @ \cup {k}]
  <2>1. u = ToolChunk(v, k, q)
    BY <1>2, <1>3, <1>6
  <2>2. Learns(t, v, t.tools \cup {k}, t.sawArgs \cup {k}, t.finalized \cup {k})
    <3>1. /\ v \in Chats /\ v.out = d.out /\ v.sentRole = d.sentRole /\ v.terminal = d.terminal /\ v.failed = d.failed
          /\ v.identitySent = d.identitySent /\ v.tools = d.tools /\ v.sawArgs = d.sawArgs \cup {k}
          /\ v.finalized = d.finalized \cup {k}
      BY <1>3 DEF Chats
    <3> HIDE DEF v
    <3> QED BY <1>1, <1>3, <3>1 DEF Learns, Knows
  <2> HIDE DEF v
  <2>0. Within(c, t.tools \cup {k}, t.sawArgs \cup {k}, t.finalized \cup {k})
    BY ChatKnown DEF Within
  <2>3. ChatFormed(v, c)
    BY <2>0, <2>2, Learnt
  <2>4. Says(v, u, c, k, q) /\ Knows(u, v.tools, v.sawArgs, v.finalized)
    BY <2>1, <2>3, SaysTool
  <2>5. Says(t, u, c, k, q) /\ Knows(u, t.tools \cup {k}, t.sawArgs \cup {k}, t.finalized \cup {k})
    BY <2>2, <2>4 DEF Learns, Knows, Says
  <2> QED BY <1>6, <2>5 DEF u, Says, CallDone
<1> QED BY <1>4, <1>5, <1>6

-------------------------------------------------------------------------------
(* One event, told to the chat translator.                                 *)

\* The item that is told and what comes of it: the others are left alone.
ChatTells(t, u, c, kind, mode, i) ==
  /\ ChatFormed(u, c)
  /\ ChatAt(u, kind, mode, c, i)
  /\ \A m : m # c => Read(u.out, m) = Read(t.out, m)

\* What an event does to a chat translator.
LEMMA ChatItemIs ==
  ASSUME NEW t, NEW e, NEW kind
  PROVE  /\ e.type = "created" => ChatItem(t, e, kind) = Greet(t)
         /\ e.type = "text_delta" => ChatItem(t, e, kind) = ChatText(t, e.item, e.pieces)
         /\ e.type = "args_delta" => ChatItem(t, e, kind) = ToolDelta(t, e.item, e.pieces)
         /\ e.type = "args_done" => ChatItem(t, e, kind) = ToolDone(t, e.item, e.pieces)
         /\ e.type = "added" /\ kind = "call" => ChatItem(t, e, kind) = ToolAdded(t, e.item)
         /\ e.type = "item_done" /\ kind = "call" => ChatItem(t, e, kind) = ToolDone(t, e.item, e.pieces)
         /\ e.type \in {"added", "item_done"} /\ kind # "call" => ChatItem(t, e, kind) = t
         /\ e.type \in {"part_added", "part_done", "summary_added", "summary_delta", "summary_done"} =>
              ChatItem(t, e, kind) = t
BY DEF ChatItem

\* An event of a message.
LEMMA ChatTellsMessage ==
  ASSUME NEW c \in Nat \ {0}, NEW t, ChatFormed(t, c), NEW mode \in {"deltas", "finished"},
         NEW j \in Nat, j <= Len(MessageScript(c, mode)), ChatAt(t, "message", mode, c, j),
         NEW i \in After(MessageScript(c, mode), j)
  PROVE  ChatTells(t, ChatItem(t, MessageScript(c, mode)[i], "message"), c, "message", mode, i)
<1> DEFINE e == MessageScript(c, mode)[i]
           u == ChatItem(t, e, "message")
<1>1. CASE mode = "finished"
  <2>1. e.type \in {"added", "part_added", "part_done", "item_done"}
    BY <1>1, MessageFinished DEF May
  <2> HIDE DEF e
  <2>2. u = t
    BY <2>1, ChatItemIs
  <2> HIDE DEF u
  <2>3. ChatTells(t, u, c, "message", mode, i)
    BY <1>1, <2>2 DEF ChatTells, ChatAt
  <2> QED BY <2>3 DEF u, e
<1>2. CASE mode = "deltas"
  <2>1. \/ e.type \in {"added", "part_added"} /\ j < 3 /\ i < 3
        \/ e.type = "text_delta" /\ e.item = c /\ e.pieces = <<1>> /\ j < 3 /\ i = 3
        \/ e.type = "text_delta" /\ e.item = c /\ e.pieces = <<2>> /\ j = 3 /\ i = 4
        \/ e.type \in {"part_done", "item_done"} /\ j > 3 /\ i > 4
    BY <1>2, MessageDeltas DEF May
  <2>2. Read(t.out, c) = Part(IF j < 3 THEN 0 ELSE IF j = 3 THEN 1 ELSE 2)
    BY <1>2 DEF ChatAt
  <2> HIDE DEF e
  <2>3. CASE e.type \in {"added", "part_added"} /\ j < 3 /\ i < 3
    <3>1. u = t
      BY <2>3, ChatItemIs
    <3> QED BY <1>2, <2>2, <2>3, <3>1 DEF ChatTells, ChatAt, e
  <2>4. CASE e.type \in {"part_done", "item_done"} /\ j > 3 /\ i > 4
    <3>1. u = t
      BY <2>4, ChatItemIs
    <3>2. Read(t.out, c) = Part(2) /\ i \in Nat
      BY <1>2, <2>2, <2>4, MessageDeltas
    <3>3. ChatTells(t, t, c, "message", mode, i)
      BY <1>2, <2>4, <3>2 DEF ChatTells, ChatAt
    <3> QED BY <3>1, <3>3 DEF e
  <2>5. CASE e.type = "text_delta" /\ e.item = c /\ e.pieces = <<1>> /\ j < 3 /\ i = 3
    <3>1. u = ChatText(t, c, <<1>>)
      BY <2>5, ChatItemIs
    <3>2. Says(t, u, c, c, <<1>>)
      BY <3>1, SaysText, Parts
    <3>3. Read(u.out, c) = Part(1)
      BY <2>2, <2>5, <3>2, Parts DEF Says
    <3> HIDE DEF u
    <3>4. ChatTells(t, u, c, "message", mode, i)
      BY <1>2, <2>5, <3>2, <3>3 DEF ChatTells, ChatAt, Says
    <3> QED BY <3>4 DEF e, u
  <2>6. CASE e.type = "text_delta" /\ e.item = c /\ e.pieces = <<2>> /\ j = 3 /\ i = 4
    <3>1. u = ChatText(t, c, <<2>>)
      BY <2>6, ChatItemIs
    <3>2. Says(t, u, c, c, <<2>>)
      BY <3>1, SaysText, Parts
    <3>3. Read(t.out, c) = Part(1)
      BY <2>2, <2>6
    <3>4. Read(u.out, c) = Part(2)
      BY <3>2, <3>3, Parts DEF Says
    <3> HIDE DEF u
    <3>5. ChatTells(t, u, c, "message", mode, i)
      BY <1>2, <2>6, <3>2, <3>4 DEF ChatTells, ChatAt, Says
    <3> QED BY <3>5 DEF e, u
  <2> QED BY <2>1, <2>3, <2>4, <2>5, <2>6
<1> QED BY <1>1, <1>2

\* An event of reasoning: a chat client hears nothing of it.
LEMMA ChatTellsReasoning ==
  ASSUME NEW c \in Nat \ {0}, NEW t, ChatFormed(t, c), NEW mode, NEW i, NEW j,
         ChatAt(t, "reasoning", mode, c, j), NEW e,
         e.type \in {"added", "item_done", "summary_added", "summary_delta", "summary_done"}
  PROVE  ChatTells(t, ChatItem(t, e, "reasoning"), c, "reasoning", mode, i)
<1>1. ChatItem(t, e, "reasoning") = t
  BY ChatItemIs
<1>2. ChatTells(t, t, c, "reasoning", mode, i)
  BY DEF ChatTells, ChatAt
<1> QED BY <1>1, <1>2

\* An event of a call in deltas.
LEMMA ChatTellsCallDeltas ==
  ASSUME NEW c \in Nat \ {0}, NEW t, ChatFormed(t, c),
         NEW j \in Nat, j <= Len(CallScript(c, "deltas")), ChatAt(t, "call", "deltas", c, j),
         NEW i \in After(CallScript(c, "deltas"), j)
  PROVE  ChatTells(t, ChatItem(t, CallScript(c, "deltas")[i], "call"), c, "call", "deltas", i)
<1> DEFINE e == CallScript(c, "deltas")[i]
           u == ChatItem(t, e, "call")
<1>1. \/ e.type = "added" /\ j = 0 /\ i = 1
      \/ e.type = "args_delta" /\ e.pieces = <<1>> /\ j = 1 /\ i = 2
      \/ e.type = "args_delta" /\ e.pieces = <<2>> /\ j = 2 /\ i = 3
      \/ e.type \in {"args_done", "item_done"} /\ e.pieces = Whole /\ j > 2 /\ i > 3
  BY CallDeltas DEF May
<1>2. e.item = c /\ i \in Nat
  BY CallDeltas DEF May
<1>3. Read(t.out, c) = Part(IF j < 2 THEN 0 ELSE IF j = 2 THEN 1 ELSE 2) /\ (c \in t.sawArgs <=> j > 1)
  BY DEF ChatAt
<1>8. c \in 1 .. c
  OBVIOUS
<1> HIDE DEF e
<1>4. CASE e.type = "added" /\ j = 0 /\ i = 1
  <2>1. u = ToolAdded(t, c)
    BY <1>2, <1>4, ChatItemIs
  <2>2. Says(t, u, c, c, <<>>) /\ Knows(u, t.tools \cup {c}, t.sawArgs, t.finalized)
    BY <1>8, <2>1, AddsTool DEF CallNamed
  <2>3. ChatFormed(u, c) /\ \A m : Read(u.out, m) = Read(t.out, m)
    BY <2>2, SaysNothing DEF Says
  <2>4. Read(u.out, c) = Part(0) /\ c \notin u.sawArgs
    BY <1>3, <1>4, <2>2, <2>3 DEF Knows
  <2> HIDE DEF u
  <2>5. ChatTells(t, u, c, "call", "deltas", i)
    BY <1>4, <2>3, <2>4 DEF ChatTells, ChatAt
  <2> QED BY <2>5 DEF u, e
<1>5. CASE e.type = "args_delta" /\ e.pieces = <<1>> /\ j = 1 /\ i = 2
  <2>1. u = ToolDelta(t, c, <<1>>)
    BY <1>2, <1>5, ChatItemIs
  <2>2. Says(t, u, c, c, <<1>>) /\ Knows(u, t.tools \cup {c}, t.sawArgs \cup {c}, t.finalized)
    BY <1>8, <2>1, TellsTool, Parts DEF CallTold
  <2>3. Read(t.out, c) = Part(0)
    BY <1>3, <1>5
  <2>4. Read(u.out, c) = Part(1) /\ c \in u.sawArgs
    BY <2>2, <2>3, Parts DEF Knows, Says
  <2> HIDE DEF u
  <2>5. ChatTells(t, u, c, "call", "deltas", i)
    BY <1>5, <2>2, <2>4 DEF ChatTells, ChatAt, Says
  <2> QED BY <2>5 DEF u, e
<1>6. CASE e.type = "args_delta" /\ e.pieces = <<2>> /\ j = 2 /\ i = 3
  <2>1. u = ToolDelta(t, c, <<2>>)
    BY <1>2, <1>6, ChatItemIs
  <2>2. Says(t, u, c, c, <<2>>) /\ Knows(u, t.tools \cup {c}, t.sawArgs \cup {c}, t.finalized)
    BY <1>8, <2>1, TellsTool, Parts DEF CallTold
  <2>3. Read(t.out, c) = Part(1)
    BY <1>3, <1>6
  <2>4. Read(u.out, c) = Part(2) /\ c \in u.sawArgs
    BY <2>2, <2>3, Parts DEF Knows, Says
  <2> HIDE DEF u
  <2>5. ChatTells(t, u, c, "call", "deltas", i)
    BY <1>6, <2>2, <2>4 DEF ChatTells, ChatAt, Says
  <2> QED BY <2>5 DEF u, e
<1>7. CASE e.type \in {"args_done", "item_done"} /\ e.pieces = Whole /\ j > 2 /\ i > 3
  <2>1. u = ToolDone(t, c, Whole)
    BY <1>2, <1>7, ChatItemIs
  <2>2. c \in t.sawArgs /\ Read(t.out, c) = Part(2)
    BY <1>3, <1>7
  <2>3. /\ ChatFormed(u, c) /\ \A m : Read(u.out, m) = Read(t.out, m)
        /\ Knows(u, t.tools \cup {c}, t.sawArgs \cup {c}, t.finalized \cup {c})
    <3>1. Whole \in Seq(Nat) /\ (c \in t.finalized => c \in t.sawArgs)
      BY <2>2, Parts
    <3>2. CallDone(t, u, c, c, Whole)
      BY <1>8, <2>1, <3>1, FinishesTool
    <3> HIDE DEF u
    <3> QED BY <2>2, <3>2 DEF CallDone
  <2>4. Read(u.out, c) = Part(2) /\ c \in u.sawArgs
    BY <2>2, <2>3 DEF Knows
  <2> HIDE DEF u
  <2>5. ChatTells(t, u, c, "call", "deltas", i)
    BY <1>2, <1>7, <2>3, <2>4 DEF ChatTells, ChatAt
  <2> QED BY <2>5 DEF u, e
<1> QED BY <1>1, <1>4, <1>5, <1>6, <1>7

\* An event of a call that comes when it is finished.
LEMMA ChatTellsCallFinished ==
  ASSUME NEW c \in Nat \ {0}, NEW t, ChatFormed(t, c),
         NEW j \in Nat, j <= Len(CallScript(c, "finished")), ChatAt(t, "call", "finished", c, j),
         NEW i \in After(CallScript(c, "finished"), j)
  PROVE  ChatTells(t, ChatItem(t, CallScript(c, "finished")[i], "call"), c, "call", "finished", i)
<1> DEFINE e == CallScript(c, "finished")[i]
           u == ChatItem(t, e, "call")
<1>1. \/ e.type = "added" /\ j = 0 /\ i = 1
      \/ e.type \in {"args_done", "item_done"} /\ e.pieces = Whole /\ j > 0 /\ i > 1
  BY CallFinished DEF May
<1>2. e.item = c /\ i \in Nat
  BY CallFinished DEF May
<1>3. /\ Read(t.out, c) = IF j < 2 THEN <<>> ELSE Whole
      /\ c \in t.sawArgs <=> j > 1
      /\ c \in t.finalized <=> j > 1
  BY DEF ChatAt
<1>8. c \in 1 .. c
  OBVIOUS
<1> HIDE DEF e
<1>4. CASE e.type = "added" /\ j = 0 /\ i = 1
  <2>1. u = ToolAdded(t, c)
    BY <1>2, <1>4, ChatItemIs
  <2>2. Says(t, u, c, c, <<>>) /\ Knows(u, t.tools \cup {c}, t.sawArgs, t.finalized)
    BY <1>8, <2>1, AddsTool DEF CallNamed
  <2>3. ChatFormed(u, c) /\ \A m : Read(u.out, m) = Read(t.out, m)
    BY <2>2, SaysNothing DEF Says
  <2>4. Read(u.out, c) = <<>> /\ c \notin u.sawArgs /\ c \notin u.finalized
    BY <1>3, <1>4, <2>2, <2>3 DEF Knows
  <2> HIDE DEF u
  <2>5. ChatTells(t, u, c, "call", "finished", i)
    BY <1>4, <2>3, <2>4 DEF ChatTells, ChatAt
  <2> QED BY <2>5 DEF u, e
<1>5. CASE e.type \in {"args_done", "item_done"} /\ e.pieces = Whole /\ j > 0 /\ i > 1
  <2>1. u = ToolDone(t, c, Whole)
    BY <1>2, <1>5, ChatItemIs
  <2>2. /\ ChatFormed(u, c)
        /\ c \in t.sawArgs => \A m : Read(u.out, m) = Read(t.out, m)
        /\ c \notin t.sawArgs => Says(t, u, c, c, Whole)
        /\ Knows(u, t.tools \cup {c}, t.sawArgs \cup {c}, t.finalized \cup {c})
    <3>1. Whole \in Seq(Nat) /\ (c \in t.finalized => c \in t.sawArgs)
      BY <1>3, Parts
    <3>2. CallDone(t, u, c, c, Whole)
      BY <1>8, <2>1, <3>1, FinishesTool
    <3> HIDE DEF u
    <3> QED BY <3>2, Zenon DEF CallDone
  <2>3. CASE c \in t.sawArgs
    <3>1. Read(t.out, c) = Whole
      BY <1>3, <2>3
    <3>2. Read(u.out, c) = Whole /\ \A m : m # c => Read(u.out, m) = Read(t.out, m)
      BY <2>2, <2>3, <3>1
    <3> HIDE DEF u
    <3>3. ChatTells(t, u, c, "call", "finished", i)
      BY <1>2, <1>5, <2>2, <3>2 DEF ChatTells, ChatAt, Knows
    <3> QED BY <3>3 DEF u, e
  <2>4. CASE c \notin t.sawArgs
    <3>1. Read(t.out, c) = Part(0)
      BY <1>3, <2>4, Parts
    <3>2. Read(u.out, c) = Whole /\ \A m : m # c => Read(u.out, m) = Read(t.out, m)
      BY <2>2, <2>4, <3>1, Parts DEF Says
    <3> HIDE DEF u
    <3>3. ChatTells(t, u, c, "call", "finished", i)
      BY <1>2, <1>5, <2>2, <3>2 DEF ChatTells, ChatAt, Knows
    <3> QED BY <3>3 DEF u, e
  <2> QED BY <2>3, <2>4
<1> QED BY <1>1, <1>4, <1>5

-------------------------------------------------------------------------------
(* The events of a response.                                               *)

\* The items of a response.
LEMMA PlanTyped ==
  ASSUME NEW p \in Plans
  PROVE  /\ p.items \in Seq(Kinds) /\ Len(p.items) \in Nat /\ DOMAIN p.items = 1 .. Len(p.items)
         /\ p.mode \in Modes /\ p.parts \in 1 .. 2
         /\ \A k \in 1 .. Len(p.items) : p.items[k] \in Kinds
<1>1. PICK n \in 1 .. MaxItems : p.items \in [1 .. n -> Kinds]
  BY DEF Plans
<1>2. n \in Nat
  OBVIOUS
<1>3. p.items \in Seq(Kinds) /\ Len(p.items) = n
  BY <1>1, <1>2
<1>4. p.mode \in Modes /\ p.parts \in 1 .. 2
  BY DEF Plans
<1> QED BY <1>1, <1>2, <1>3, <1>4

\* The events of an item, by its kind.
LEMMA ScriptIs ==
  ASSUME NEW p \in Plans, NEW k \in 1 .. Len(p.items)
  PROVE  /\ p.mode = "last" => Script(p, k) = <<>>
         /\ p.mode # "last" /\ p.items[k] = "reasoning" => Script(p, k) = ReasoningScript(k, p.mode, p.parts)
         /\ p.mode # "last" /\ p.items[k] = "message" => Script(p, k) = MessageScript(k, p.mode)
         /\ p.mode # "last" /\ p.items[k] = "call" => Script(p, k) = CallScript(k, p.mode)
<1>1. k # 0 /\ k \in Nat
  BY PlanTyped
<1> QED BY <1>1 DEF Script

\* Nothing was sent of the next item.
LEMMA ChatOpens ==
  ASSUME NEW c \in Nat, NEW t, ChatFormed(t, c), NEW mode, NEW kind \in Kinds
  PROVE  ChatFormed(t, c + 1) /\ ChatAt(t, kind, mode, c + 1, 0)
<1>1. t \in Chats /\ t.out \in Seq(Chunks)
  BY ChatOutTyped DEF ChatFormed
<1>2. \A k \in 0 .. c : k \in 0 .. c + 1 /\ k # c + 1
  OBVIOUS
<1>3. Read(t.out, c + 1) = <<>>
  <2>1. \A i \in DOMAIN t.out : t.out[i].item # c + 1
    BY <1>2 DEF ChatFormed
  <2> QED BY <1>1, <2>1, ChunksPiecewise, ReadNone
<1>4. c + 1 \notin t.sawArgs /\ c + 1 \notin t.finalized
  BY DEF ChatFormed
<1>5. ChatFormed(t, c + 1)
  <2>1. 1 .. c \subseteq 1 .. c + 1 /\ 0 .. c \subseteq 0 .. c + 1
    OBVIOUS
  <2> QED BY <2>1 DEF ChatFormed
<1>6. ChatAt(t, kind, mode, c + 1, 0)
  <2> DEFINE d == c + 1
  <2> HIDE DEF d
  <2>1. Read(t.out, d) = <<>> /\ Read(t.out, d) = Part(0) /\ d \notin t.sawArgs /\ d \notin t.finalized
    BY <1>3, <1>4, Parts DEF d
  <2>2. CASE kind = "reasoning"
    BY <2>1, <2>2 DEF ChatAt, d
  <2>3. CASE kind = "message"
    BY <2>1, <2>3 DEF ChatAt, d
  <2>4. CASE kind = "call"
    BY <2>1, <2>4 DEF ChatAt, d
  <2> QED BY <2>2, <2>3, <2>4 DEF Kinds
<1> QED BY <1>5, <1>6

\* An event of an item.
LEMMA ChatEvent ==
  ASSUME NEW p \in Plans, NEW k \in 1 .. Len(p.items), p.mode # "last", NEW t, ChatFormed(t, k),
         NEW j \in Nat, j <= Len(Script(p, k)), ChatAt(t, p.items[k], p.mode, k, j),
         NEW i \in After(Script(p, k), j)
  PROVE  ChatTells(t, ChatItem(t, Script(p, k)[i], p.items[k]), k, p.items[k], p.mode, i)
<1>1. k \in Nat \ {0} /\ p.items[k] \in Kinds /\ p.mode \in {"deltas", "finished"} /\ p.parts \in 1 .. 2
  BY PlanTyped DEF Modes
<1>2. CASE p.items[k] = "message"
  <2>1. Script(p, k) = MessageScript(k, p.mode)
    BY <1>2, ScriptIs
  <2> QED BY <1>1, <1>2, <2>1, ChatTellsMessage
<1>3. CASE p.items[k] = "call"
  <2>1. Script(p, k) = CallScript(k, p.mode)
    BY <1>3, ScriptIs
  <2>2. CASE p.mode = "deltas"
    BY <1>1, <1>3, <2>1, <2>2, ChatTellsCallDeltas
  <2>3. CASE p.mode = "finished"
    BY <1>1, <1>3, <2>1, <2>3, ChatTellsCallFinished
  <2> QED BY <1>1, <2>2, <2>3
<1>4. CASE p.items[k] = "reasoning"
  <2>1. Script(p, k) = ReasoningScript(k, p.mode, p.parts)
    BY <1>4, ScriptIs
  <2>2. Script(p, k)[i].type \in {"added", "item_done", "summary_added", "summary_delta", "summary_done"}
    <3>1. CASE p.mode = "finished"
      BY <2>1, <3>1, ReasoningFinished DEF May
    <3>2. CASE p.mode = "deltas" /\ p.parts = 1
      BY <2>1, <3>2, ReasoningOnePart DEF May
    <3>3. CASE p.mode = "deltas" /\ p.parts = 2
      BY <2>1, <3>3, ReasoningTwoParts DEF May
    <3> QED BY <1>1, <3>1, <3>2, <3>3
  <2> QED BY <1>1, <1>4, <2>2, ChatTellsReasoning
<1> QED BY <1>1, <1>2, <1>3, <1>4 DEF Kinds

\* An item that was told to its end was read as far as it is due.
LEMMA ChatCompletes ==
  ASSUME NEW p \in Plans, NEW k \in 1 .. Len(p.items), p.mode # "last", NEW t,
         NEW j \in Nat, j <= Len(Script(p, k)), ChatAt(t, p.items[k], p.mode, k, j),
         Complete(Script(p, k), j)
  PROVE  Read(t.out, k) = ChatDue(p.mode, p.items[k])
<1>1. k \in Nat \ {0} /\ p.items[k] \in Kinds /\ p.mode \in {"deltas", "finished"}
  BY PlanTyped DEF Modes
<1>2. CASE p.items[k] = "message"
  <2>1. Script(p, k) = MessageScript(k, p.mode)
    BY <1>2, ScriptIs
  <2>2. CASE p.mode = "deltas"
    <3>1. j = 6
      BY <2>1, <2>2, MessageDeltas
    <3> QED BY <1>2, <2>2, <3>1, Parts DEF ChatAt, ChatDue
  <2>3. CASE p.mode = "finished"
    BY <1>2, <2>3 DEF ChatAt, ChatDue
  <2> QED BY <1>1, <2>2, <2>3
<1>3. CASE p.items[k] = "call"
  <2>1. Script(p, k) = CallScript(k, p.mode)
    BY <1>3, ScriptIs
  <2>2. CASE p.mode = "deltas"
    <3>1. j = 5
      BY <2>1, <2>2, CallDeltas
    <3> QED BY <1>3, <2>2, <3>1, Parts DEF ChatAt, ChatDue
  <2>3. CASE p.mode = "finished"
    <3>1. j = 3
      BY <2>1, <2>3, CallFinished
    <3> QED BY <1>3, <2>3, <3>1, Parts DEF ChatAt, ChatDue
  <2> QED BY <1>1, <2>2, <2>3
<1>4. CASE p.items[k] = "reasoning"
  BY <1>4 DEF ChatAt, ChatDue
<1> QED BY <1>1, <1>2, <1>3, <1>4 DEF Kinds

\* A part of what is due.
PartOf(got, due) == \E n \in 0 .. Len(due) : got = SubSeq(due, 1, n)

\* Nothing, one piece and both are parts of the content.
LEMMA PartsOf ==
  /\ PartOf(<<>>, <<>>) /\ PartOf(<<>>, Whole) /\ PartOf(Part(0), Whole) /\ PartOf(Part(1), Whole)
  /\ PartOf(Part(2), Whole) /\ PartOf(Whole, Whole)
<1>1. Len(Whole) = 2 /\ SubSeq(<<>>, 1, 0) = <<>> /\ Len(<<>>) = 0
  BY DEF Whole
<1>2. \A n \in {0, 1, 2} : PartOf(Part(n), Whole)
  BY <1>1 DEF PartOf, Part
<1>3. PartOf(<<>>, <<>>)
  BY <1>1 DEF PartOf
<1> QED BY <1>2, <1>3, Parts

\* What was read of the item that is told is a part of what is due.
LEMMA ChatPart ==
  ASSUME NEW kind \in Kinds, NEW mode \in {"deltas", "finished"}, NEW t, NEW c, NEW j \in Nat,
         ChatAt(t, kind, mode, c, j)
  PROVE  PartOf(Read(t.out, c), ChatDue(mode, kind))
<1>1. CASE kind = "reasoning"
  BY <1>1, PartsOf DEF ChatAt, ChatDue
<1>2. CASE kind = "message" /\ mode = "finished"
  BY <1>2, PartsOf DEF ChatAt, ChatDue
<1>3. CASE kind = "call" /\ mode = "finished"
  <2>1. Read(t.out, c) \in {<<>>, Whole}
    BY <1>3 DEF ChatAt
  <2>2. ChatDue(mode, kind) = Whole
    BY <1>3 DEF ChatDue
  <2> QED BY <2>1, <2>2, PartsOf
<1>4. CASE kind \in {"message", "call"} /\ mode = "deltas"
  <2>1. Read(t.out, c) \in {Part(0), Part(1), Part(2)}
    BY <1>4 DEF ChatAt
  <2>2. ChatDue(mode, kind) = Whole
    BY <1>4 DEF ChatDue
  <2> QED BY <2>1, <2>2, PartsOf
<1> QED BY <1>1, <1>2, <1>3, <1>4 DEF Kinds

-------------------------------------------------------------------------------
(* Where the stream is.                                                    *)

StreamAt ==
  /\ plan \in Plans
  /\ pos = [item |-> pos.item, at |-> pos.at]
  /\ pos.item \in 0 .. Len(plan.items)
  /\ plan.mode = "last" => pos.item = 0
  /\ pos.at \in Nat /\ pos.at <= Len(Script(plan, pos.item)) /\ (pos.item > 0 => pos.at > 0)
  /\ state \in {"open", "ended", "closed"}
  /\ by \in {"none", "completed", "incomplete", "failed", "done", "cut"}
  /\ state = "open" <=> by = "none"
  /\ by = "cut" => state = "closed"

\* The events of an item are a finite sequence.
LEMMA ScriptTyped ==
  ASSUME NEW p \in Plans, NEW k \in 0 .. Len(p.items)
  PROVE  Len(Script(p, k)) \in Nat /\ DOMAIN Script(p, k) = 1 .. Len(Script(p, k))
<1>1. CASE k = 0
  BY <1>1 DEF Script
<1>2. CASE k # 0
  <2>1. k \in 1 .. Len(p.items) /\ p.items[k] \in Kinds /\ p.mode \in Modes /\ p.parts \in 1 .. 2
    BY <1>2, PlanTyped
  <2>2. CASE p.mode = "last"
    BY <2>1, <2>2, ScriptIs
  <2>3. CASE p.mode # "last" /\ p.items[k] = "message"
    BY <2>1, <2>3, ScriptIs DEF MessageScript
  <2>4. CASE p.mode # "last" /\ p.items[k] = "call"
    BY <2>1, <2>4, ScriptIs DEF CallScript
  <2>5. CASE p.mode # "last" /\ p.items[k] = "reasoning"
    <3>1. Script(p, k) = ReasoningScript(k, p.mode, p.parts)
      BY <2>1, <2>5, ScriptIs
    <3>2. p.mode = "finished" \/ (p.mode = "deltas" /\ p.parts = 1) \/ (p.mode = "deltas" /\ p.parts = 2)
      BY <2>1, <2>5 DEF Modes
    <3>3. CASE p.mode = "finished"
      BY <3>1, <3>3 DEF ReasoningScript
    <3>4. CASE p.mode = "deltas" /\ p.parts = 1
      BY <3>1, <3>4 DEF ReasoningScript
    <3>5. CASE p.mode = "deltas" /\ p.parts = 2
      BY <3>1, <3>5 DEF ReasoningScript
    <3> QED BY <3>2, <3>3, <3>4, <3>5
  <2> QED BY <2>1, <2>2, <2>3, <2>4, <2>5 DEF Kinds
<1> QED BY <1>1, <1>2

\* The event that is told: the only one before the items, or one of an item that
\* is begun or that follows.
IsNext(k, i) ==
  \/ k = 0 /\ pos.item = 0 /\ i = 1 /\ pos.at = 0
  \/ /\ k \in 1 .. Len(plan.items) /\ plan.mode # "last"
     /\ \/ k = pos.item /\ i \in After(Script(plan, k), pos.at)
        \/ k = pos.item + 1 /\ ItemTold /\ i \in After(Script(plan, k), 0)

\* An event of the stream is the next of some item.
LEMMA EventIs ==
  ASSUME StreamAt, ItemEvent
  PROVE  /\ state = "open" /\ plan' = plan /\ state' = state /\ by' = by
         /\ \E k, i : Tell(k, i) /\ IsNext(k, i)
<1>1. state = "open" /\ plan' = plan /\ state' = state /\ by' = by
  BY DEF ItemEvent
<1>2. CASE \E i \in After(Script(plan, pos.item), pos.at) : Tell(pos.item, i)
  <2>1. PICK i \in After(Script(plan, pos.item), pos.at) : Tell(pos.item, i)
    BY <1>2
  <2>2. CASE pos.item = 0
    <3>1. Len(Script(plan, 0)) = 1
      BY DEF Script
    <3>2. pos.at \in Nat /\ pos.at <= 1 /\ i \in pos.at + 1 .. 1
      BY <2>1, <2>2, <3>1 DEF StreamAt, After
    <3>3. i = 1 /\ pos.at = 0
      BY <3>2
    <3> QED BY <1>1, <2>1, <2>2, <3>3 DEF IsNext
  <2>3. CASE pos.item # 0
    <3>1. pos.item \in 1 .. Len(plan.items) /\ plan.mode # "last"
      BY <2>3, PlanTyped DEF StreamAt
    <3> QED BY <1>1, <2>1, <3>1 DEF IsNext
  <2> QED BY <2>2, <2>3
<1>3. CASE ItemTold /\ pos.item < Len(plan.items) /\ \E i \in After(Script(plan, pos.item + 1), 0) : Tell(pos.item + 1, i)
  <2>1. PICK i \in After(Script(plan, pos.item + 1), 0) : Tell(pos.item + 1, i)
    BY <1>3
  <2>2. pos.item + 1 \in 1 .. Len(plan.items)
    BY <1>3, PlanTyped DEF StreamAt
  <2>3. plan.mode # "last"
    <3>1. ASSUME plan.mode = "last" PROVE FALSE
      <4>1. Script(plan, pos.item + 1) = <<>>
        BY <2>2, <3>1, ScriptIs DEF StreamAt
      <4> QED BY <2>1, <4>1 DEF After
    <3> QED BY <3>1
  <2> QED BY <1>1, <1>3, <2>1, <2>2, <2>3 DEF IsNext
<1> QED BY <1>2, <1>3 DEF ItemEvent

\* Where the stream begins.
LEMMA StreamAtInit ==
  ASSUME StreamInit PROVE StreamAt
<1>1. Len(plan.items) \in Nat
  BY PlanTyped DEF StreamInit
<1>2. Len(Script(plan, 0)) = 1
  BY DEF Script
<1> QED BY <1>1, <1>2 DEF StreamInit, StreamAt

\* Where it is after an event.
LEMMA StreamAtTell ==
  ASSUME StreamAt, NEW k, NEW i, Tell(k, i), IsNext(k, i), plan' = plan, state' = state, by' = by
  PROVE  StreamAt' /\ pos'.item = k /\ pos'.at = i
<1>1. pos' = [item |-> k, at |-> i]
  BY DEF Tell
<1>2. k \in 0 .. Len(plan.items) /\ (k # 0 => plan.mode # "last")
  BY PlanTyped DEF IsNext, StreamAt
<1>3. i \in Nat /\ i > 0 /\ i <= Len(Script(plan, k))
  <2>1. Len(Script(plan, k)) \in Nat
    BY <1>2, ScriptTyped DEF StreamAt
  <2>2. CASE k = 0
    BY <2>2, PlanTyped DEF Script, IsNext, StreamAt
  <2>3. CASE k # 0
    <3>1. \E j \in Nat : i \in After(Script(plan, k), j)
      BY <2>3 DEF IsNext, StreamAt
    <3> QED BY <2>1, <3>1 DEF After
  <2> QED BY <2>2, <2>3
<1> QED BY <1>1, <1>2, <1>3 DEF StreamAt

\* Where it is after any step.
LEMMA StreamAtKept ==
  ASSUME StreamAt, [StreamNext]_streamVars
  PROVE  StreamAt'
<1>1. CASE UNCHANGED streamVars
  BY <1>1 DEF StreamAt, streamVars
<1>2. CASE ItemEvent
  <2>1. PICK k, i : Tell(k, i) /\ IsNext(k, i) /\ plan' = plan /\ state' = state /\ by' = by
    BY <1>2, EventIs
  <2> QED BY <2>1, StreamAtTell
<1>3. CASE Completed \/ Incomplete \/ Failed
  BY <1>3 DEF StreamAt, Completed, Incomplete, Failed
<1>4. CASE Done
  BY <1>4 DEF StreamAt, Done
<1>5. CASE BodyEnds
  BY <1>5 DEF StreamAt, BodyEnds
<1> QED BY <1>1, <1>2, <1>3, <1>4, <1>5 DEF StreamNext

-------------------------------------------------------------------------------
(* The chat translator until the stream ends.                              *)

ChatStreams(t, p, c, j) ==
  /\ ChatFormed(t, c)
  /\ \A k \in 1 .. c - 1 : Read(t.out, k) = ChatDue(p.mode, p.items[k])
  /\ c > 0 => ChatAt(t, p.items[c], p.mode, c, j)

\* A chat translator that was told nothing.
LEMMA ChatInit == ChatFormed(Chat, 0)
<1>1. Chat \in Chats /\ Chat.out = <<>> /\ ~Chat.terminal /\ ~Chat.failed /\ ~Chat.sentRole
      /\ Chat.tools = {} /\ Chat.sawArgs = {} /\ Chat.finalized = {} /\ Chat.identitySent = {}
  BY DEF Chat, Chats
<1> QED BY <1>1 DEF ChatFormed

\* An event about an item: what was told before is told still.
LEMMA ChatStreamsEvent ==
  ASSUME NEW p \in Plans, NEW c \in 0 .. Len(p.items), NEW j \in Nat, j <= Len(Script(p, c)),
         NEW t, ChatStreams(t, p, c, j), NEW k \in 1 .. Len(p.items), p.mode # "last", NEW i,
         \/ k = c /\ i \in After(Script(p, k), j)
         \/ k = c + 1 /\ Complete(Script(p, c), j) /\ i \in After(Script(p, k), 0)
  PROVE  ChatStreams(ChatItem(t, Script(p, k)[i], p.items[k]), p, k, i)
<1> DEFINE u == ChatItem(t, Script(p, k)[i], p.items[k])
<1>1. c \in Nat /\ k \in Nat /\ p.items[k] \in Kinds /\ Len(p.items) \in Nat
  BY PlanTyped
<1>2. CASE k = c
  <2>1. ChatTells(t, u, k, p.items[k], p.mode, i)
    BY <1>2, ChatEvent DEF ChatStreams
  <2> HIDE DEF u
  <2>2. ChatStreams(u, p, k, i)
    BY <1>1, <1>2, <2>1 DEF ChatStreams, ChatTells
  <2> QED BY <2>2 DEF u
<1>3. CASE k = c + 1
  <2>1. ChatFormed(t, k) /\ ChatAt(t, p.items[k], p.mode, k, 0)
    BY <1>1, <1>3, ChatOpens DEF ChatStreams
  <2>2. 0 <= Len(Script(p, k)) /\ i \in After(Script(p, k), 0)
    BY <1>1, <1>3, ScriptTyped
  <2>3. ChatTells(t, u, k, p.items[k], p.mode, i)
    BY <2>1, <2>2, ChatEvent
  <2>4. c > 0 => Read(t.out, c) = ChatDue(p.mode, p.items[c])
    BY <1>1, <1>3, ChatCompletes DEF ChatStreams
  <2> HIDE DEF u
  <2>5. \A m \in 1 .. k - 1 : Read(t.out, m) = ChatDue(p.mode, p.items[m])
    <3> TAKE m \in 1 .. k - 1
    <3>1. m \in 1 .. c - 1 \/ (m = c /\ c > 0)
      BY <1>1, <1>3
    <3> QED BY <2>4, <3>1 DEF ChatStreams
  <2>6. \A m \in 1 .. k - 1 : m # k
    BY <1>1
  <2>7. ChatStreams(u, p, k, i)
    BY <2>3, <2>5, <2>6 DEF ChatStreams, ChatTells
  <2> QED BY <2>7 DEF u
<1> QED BY <1>2, <1>3

\* What was read of an item is a part of it.
LEMMA ChatStreamsParts ==
  ASSUME NEW p \in Plans, NEW c \in 0 .. Len(p.items), NEW j \in Nat,
         p.mode = "last" => c = 0,
         NEW t, ChatStreams(t, p, c, j), NEW k \in 1 .. Len(p.items)
  PROVE  PartOf(Read(t.out, k), ChatDue(p.mode, p.items[k]))
<1>1. c \in Nat /\ k \in Nat /\ p.items[k] \in Kinds /\ p.mode \in Modes
  BY PlanTyped
<1>2. CASE k < c
  <2>1. Read(t.out, k) = ChatDue(p.mode, p.items[k])
    BY <1>1, <1>2 DEF ChatStreams
  <2>2. ChatDue(p.mode, p.items[k]) \in {<<>>, Whole}
    BY DEF ChatDue
  <2> QED BY <2>1, <2>2, PartsOf
<1>3. CASE k = c
  <2>1. p.mode \in {"deltas", "finished"} /\ ChatAt(t, p.items[k], p.mode, k, j)
    BY <1>1, <1>3 DEF ChatStreams, Modes
  <2> QED BY <1>1, <2>1, ChatPart
<1>4. CASE k > c
  <2>1. t \in Chats /\ t.out \in Seq(Chunks)
    BY ChatOutTyped DEF ChatStreams, ChatFormed
  <2>2. \A i \in DOMAIN t.out : t.out[i].item # k
    BY <1>1, <1>4 DEF ChatStreams, ChatFormed
  <2>3. Read(t.out, k) = <<>>
    BY <2>1, <2>2, ChunksPiecewise, ReadNone
  <2>4. ChatDue(p.mode, p.items[k]) \in {<<>>, Whole}
    BY DEF ChatDue
  <2> QED BY <2>3, <2>4, PartsOf
<1> QED BY <1>1, <1>2, <1>3, <1>4

\* When all was told, it was read whole.
LEMMA ChatStreamsDone ==
  ASSUME NEW p \in Plans, NEW c \in 0 .. Len(p.items), NEW j \in Nat, j <= Len(Script(p, c)),
         p.mode = "last" => c = 0,
         Complete(Script(p, c), j), p.mode = "last" \/ c = Len(p.items),
         NEW t, ChatStreams(t, p, c, j), NEW k \in 1 .. Len(p.items)
  PROVE  Read(t.out, k) = ChatDue(p.mode, p.items[k])
<1>1. c \in Nat /\ k \in Nat /\ p.items[k] \in Kinds /\ Len(p.items) \in Nat
  BY PlanTyped
<1>2. CASE p.mode = "last"
  <2>1. t \in Chats /\ t.out \in Seq(Chunks)
    BY ChatOutTyped DEF ChatStreams, ChatFormed
  <2>2. \A i \in DOMAIN t.out : t.out[i].item # k
    BY <1>1, <1>2 DEF ChatStreams, ChatFormed
  <2>3. Read(t.out, k) = <<>>
    BY <2>1, <2>2, ChunksPiecewise, ReadNone
  <2> QED BY <1>2, <2>3 DEF ChatDue
<1>3. CASE p.mode # "last" /\ k < c
  BY <1>1, <1>3 DEF ChatStreams
<1>4. CASE p.mode # "last" /\ k = c
  BY <1>1, <1>4, ChatCompletes DEF ChatStreams
<1> QED BY <1>1, <1>2, <1>3, <1>4

-------------------------------------------------------------------------------
(* The chat translator once the stream ended.                              *)

NamesOnce(out) ==
  \A i \in DOMAIN out :
    out[i].what = "tool" =>
      (out[i].identity <=> \A j \in 1 .. i - 1 : ~(out[j].what = "tool" /\ out[j].item = out[i].item))

\* The chunks before the last.
ChatBody(out) ==
  /\ \A i \in DOMAIN out : out[i].what \in {"role", "text", "tool"} /\ (out[i].role <=> i = 1)
  /\ NamesOnce(out)

ChatFramed(out) ==
  \A i \in DOMAIN out :
    LET c == out[i]
        earlier == {out[j].what : j \in 1 .. i - 1}
    IN  /\ c.role <=> i = 1 /\ c.what \in {"role", "text", "tool"}
        /\ c.what = "tool" =>
             (c.identity <=> \A j \in 1 .. i - 1 : ~(out[j].what = "tool" /\ out[j].item = c.item))
        /\ {"finish", "error"} \cap earlier # {} => c.what = "done"

ChatDelivered(out, p, b) ==
  \A k \in DOMAIN p.items :
    /\ b \in {"completed", "done"} => Read(out, k) = ChatDue(p.mode, p.items[k])
    /\ PartOf(Read(out, k), ChatDue(p.mode, p.items[k]))

ChatTruthful(t, b) ==
  /\ b \in {"cut", "failed"} => t.failed
  /\ b \in {"completed", "incomplete"} => ~t.failed
  /\ \A i \in DOMAIN t.out :
       t.out[i].what = "finish" /\ b # "incomplete" => (t.out[i].reason = "tool_calls" <=> t.tools # {})

\* The chunk that ends it.
Ending(t, b, e) ==
  /\ e.what \in {"finish", "error"} /\ ~e.role /\ e.item = 0
  /\ e.what = "finish" /\ b # "incomplete" => (e.reason = "tool_calls" <=> t.tools # {})
  /\ t.failed <=> b \in {"cut", "failed"}

ChatEnded(t, p, b) ==
  /\ t \in Chats /\ t.terminal
  /\ \E o \in Seq(Chunks), e \in Chunks : ChatBody(o) /\ t.out = Append(o, e) /\ Ending(t, b, e)
  /\ ChatDelivered(t.out, p, b)

\* Chunks with deltas are framed.
LEMMA BodyFramed ==
  ASSUME NEW o \in Seq(Chunks), ChatBody(o)
  PROVE  ChatFramed(o)
<1> SUFFICES ASSUME NEW i \in DOMAIN o
             PROVE  {"finish", "error"} \cap {o[j].what : j \in 1 .. i - 1} = {}
  BY DEF ChatFramed, ChatBody, NamesOnce
<1>1. \A j \in 1 .. i - 1 : j \in DOMAIN o
  OBVIOUS
<1> QED BY <1>1 DEF ChatBody

\* A last chunk, and one more that ends the stream.
LEMMA FramedAppend ==
  ASSUME NEW o \in Seq(Chunks), NEW e \in Chunks, ChatFramed(o), ~e.role,
         \/ e.what \in {"finish", "error"} /\ \A j \in DOMAIN o : o[j].what \in {"role", "text", "tool"}
         \/ e.what = "done" /\ o # <<>>
  PROVE  ChatFramed(Append(o, e))
<1> DEFINE n == Len(o)
           new == Append(o, e)
<1>1. n \in Nat /\ DOMAIN o = 1 .. n /\ DOMAIN new = 1 .. n + 1
      /\ (\A i \in 1 .. n : new[i] = o[i]) /\ new[n + 1] = e
      /\ \A i \in DOMAIN new : i \in 1 .. n \/ i = n + 1
  BY ChunkAdded
<1> HIDE DEF n, new
<1> SUFFICES ASSUME NEW i \in DOMAIN new
             PROVE  LET c == new[i]
                        earlier == {new[j].what : j \in 1 .. i - 1}
                    IN  /\ c.role <=> i = 1 /\ c.what \in {"role", "text", "tool"}
                        /\ c.what = "tool" =>
                             (c.identity <=> \A j \in 1 .. i - 1 : ~(new[j].what = "tool" /\ new[j].item = c.item))
                        /\ {"finish", "error"} \cap earlier # {} => c.what = "done"
  BY DEF ChatFramed, new
<1>2. CASE i \in 1 .. n
  <2>1. new[i] = o[i] /\ \A j \in 1 .. i - 1 : new[j] = o[j]
    BY <1>1, <1>2
  <2>2. {new[j].what : j \in 1 .. i - 1} = {o[j].what : j \in 1 .. i - 1}
    BY <2>1
  <2>3. /\ o[i].role <=> i = 1 /\ o[i].what \in {"role", "text", "tool"}
        /\ o[i].what = "tool" =>
             (o[i].identity <=> \A j \in 1 .. i - 1 : ~(o[j].what = "tool" /\ o[j].item = o[i].item))
        /\ {"finish", "error"} \cap {o[j].what : j \in 1 .. i - 1} # {} => o[i].what = "done"
    BY <1>1, <1>2, Zenon DEF ChatFramed
  <2>4. (\A j \in 1 .. i - 1 : ~(o[j].what = "tool" /\ o[j].item = o[i].item))
        <=> \A j \in 1 .. i - 1 : ~(new[j].what = "tool" /\ new[j].item = new[i].item)
    BY <2>1
  <2> QED BY <2>1, <2>2, <2>3, <2>4
<1>3. CASE i = n + 1
  <2>1. new[i] = e /\ \A j \in 1 .. i - 1 : new[j] = o[j] /\ j \in DOMAIN o
    BY <1>1, <1>3
  <2>2. e.what \notin {"role", "text", "tool"}
    OBVIOUS
  <2>3. {"finish", "error"} \cap {new[j].what : j \in 1 .. i - 1} # {} => e.what = "done"
    BY <2>1
  <2> QED BY <2>1, <2>2, <2>3
<1> QED BY <1>1, <1>2, <1>3

\* So are they with the chunk that ends them.
LEMMA EndedFramed ==
  ASSUME NEW o \in Seq(Chunks), ChatBody(o), NEW e \in Chunks, e.what \in {"finish", "error"}, ~e.role
  PROVE  ChatFramed(Append(o, e))
<1>1. ChatFramed(o)
  BY BodyFramed
<1>2. \A j \in DOMAIN o : o[j].what \in {"role", "text", "tool"}
  BY DEF ChatBody
<1> QED BY <1>1, <1>2, FramedAppend

\* It ends, and nothing was said twice.
LEMMA ChatEndsWith ==
  ASSUME NEW t, NEW p \in Plans, NEW b, NEW c, ChatFormed(t, c), ChatDelivered(t.out, p, b),
         NEW e \in Chunks, e.pieces = <<>>, NEW u, u \in Chats, u.terminal, u.out = Append(t.out, e), Ending(u, b, e)
  PROVE  ChatEnded(u, p, b)
<1>1. t.out \in Seq(Chunks) /\ DOMAIN t.out = 1 .. Len(t.out)
  BY ChatOutTyped DEF ChatFormed
<1>2. ChatBody(t.out)
  BY DEF ChatBody, NamesOnce, ChatFormed
<1>3. ASSUME NEW k \in DOMAIN p.items
      PROVE  Read(u.out, k) = Read(t.out, k)
  <2>1. k # 0 /\ e.item = 0
    BY PlanTyped DEF Ending
  <2> QED BY <1>1, <2>1, ChunkAppended DEF ChunkRead
<1>4. ChatDelivered(u.out, p, b)
  BY <1>3 DEF ChatDelivered
<1> QED BY <1>1, <1>2, <1>4 DEF ChatEnded

\* An ended chat is framed, and its end is true.
LEMMA ChatEndedTruthful ==
  ASSUME NEW t, NEW p, NEW b, ChatEnded(t, p, b)
  PROVE  ChatFramed(t.out) /\ ChatTruthful(t, b) /\ t.out \in Seq(Chunks) /\ t.out # <<>>
<1>1. PICK o \in Seq(Chunks), e \in Chunks : ChatBody(o) /\ t.out = Append(o, e) /\ Ending(t, b, e)
  BY DEF ChatEnded
<1>2. ChatFramed(t.out)
  BY <1>1, EndedFramed DEF Ending
<1>3. /\ t.out \in Seq(Chunks) /\ DOMAIN t.out = 1 .. Len(o) + 1 /\ t.out # <<>>
      /\ \A i \in 1 .. Len(o) : t.out[i] = o[i]
      /\ t.out[Len(o) + 1] = e /\ \A i \in DOMAIN t.out : i \in 1 .. Len(o) \/ i = Len(o) + 1
  BY <1>1, ChunkAdded
<1>4. ASSUME NEW i \in DOMAIN t.out, t.out[i].what = "finish", b # "incomplete"
      PROVE  t.out[i].reason = "tool_calls" <=> t.tools # {}
  <2>1. i \notin 1 .. Len(o)
    BY <1>1, <1>3, <1>4 DEF ChatBody
  <2>2. t.out[i] = e
    BY <1>3, <2>1
  <2> QED BY <1>1, <1>4, <2>2 DEF Ending
<1> QED BY <1>1, <1>2, <1>3, <1>4 DEF ChatTruthful, Ending

\* [DONE].
LEMMA ChatCloses ==
  ASSUME NEW t, NEW p \in Plans, NEW b, ChatEnded(t, p, b), NEW u,
         u = [t EXCEPT !.out = Append(@, Chunk("done", 0, <<>>))]
  PROVE  ChatFramed(u.out) /\ ChatDelivered(u.out, p, b) /\ ChatTruthful(u, b)
<1> DEFINE e == Chunk("done", 0, <<>>)
<1>1. e \in Chunks /\ e.what = "done" /\ e.item = 0 /\ ~e.role
  BY Parts DEF Chunk, Chunks
<1>2. t \in Chats /\ u = [t EXCEPT !.out = Append(t.out, e)]
  BY DEF ChatEnded
<1> HIDE DEF e
<1>3. u.out = Append(t.out, e) /\ u.failed = t.failed /\ u.tools = t.tools
  BY <1>2 DEF Chats
<1>4. ChatFramed(t.out) /\ ChatTruthful(t, b) /\ t.out \in Seq(Chunks) /\ t.out # <<>>
  BY ChatEndedTruthful
<1>5. ChatFramed(u.out)
  BY <1>1, <1>3, <1>4, FramedAppend
<1>6. ASSUME NEW k \in DOMAIN p.items
      PROVE  Read(u.out, k) = Read(t.out, k)
  <2>1. k # 0
    BY PlanTyped
  <2> QED BY <1>1, <1>3, <1>4, <2>1, ChunkAppended DEF ChunkRead
<1>7. ChatDelivered(u.out, p, b)
  BY <1>6 DEF ChatDelivered, ChatEnded
<1>8. ChatTruthful(u, b)
  <2>1. /\ DOMAIN u.out = 1 .. Len(t.out) + 1 /\ u.out[Len(t.out) + 1] = e
        /\ \A i \in 1 .. Len(t.out) : u.out[i] = t.out[i]
        /\ \A i \in DOMAIN u.out : i \in 1 .. Len(t.out) \/ i = Len(t.out) + 1
    BY <1>1, <1>3, <1>4, ChunkAdded
  <2>2. \A i \in 1 .. Len(t.out) : i \in DOMAIN t.out
    BY <1>4
  <2> QED BY <1>1, <1>3, <1>4, <2>1, <2>2 DEF ChatTruthful
<1> QED BY <1>5, <1>7, <1>8

\* A finish ends a chat.
LEMMA ChatFinishes ==
  ASSUME NEW t, NEW p \in Plans, NEW c, ChatFormed(t, c), NEW b \in {"completed", "done", "incomplete"},
         ChatDelivered(t.out, p, b), NEW reason \in {"", "length"}, reason = "length" => b = "incomplete"
  PROVE  ChatEnded(ChatFinish(t, reason), p, b)
<1> DEFINE r == IF reason # "" THEN reason ELSE IF t.tools # {} THEN "tool_calls" ELSE "stop"
           e == [Chunk("finish", 0, <<>>) EXCEPT !.reason = r]
           u == ChatFinish(t, reason)
<1>1. t \in Chats /\ ~t.terminal /\ ~t.failed /\ t.out \in Seq(Chunks)
  BY ChatOutTyped DEF ChatFormed
<1>2. r \in {"length", "tool_calls", "stop"} /\ (b # "incomplete" => (r = "tool_calls" <=> t.tools # {}))
  OBVIOUS
<1>3. u = [t EXCEPT !.terminal = TRUE, !.out = Append(t.out, e)]
  BY <1>1 DEF ChatFinish
<1> HIDE DEF r, u
<1>4. e \in Chunks /\ e.what = "finish" /\ ~e.role /\ e.item = 0 /\ e.pieces = <<>> /\ e.reason = r
  BY <1>2, Parts DEF Chunk, Chunks
<1> HIDE DEF e
<1>5. Append(t.out, e) \in Seq(Chunks)
  BY <1>1, <1>4, ChunkAdded
<1>6. u \in Chats /\ u.terminal /\ u.out = Append(t.out, e) /\ u.failed = t.failed /\ u.tools = t.tools
  BY <1>1, <1>3, <1>5 DEF Chats
<1>7. Ending(u, b, e)
  BY <1>1, <1>2, <1>4, <1>6 DEF Ending
<1>8. ChatEnded(u, p, b)
  BY <1>4, <1>6, <1>7, ChatEndsWith
<1> QED BY <1>8 DEF u

\* An error ends a chat.
LEMMA ChatFails ==
  ASSUME NEW t, NEW p \in Plans, NEW c, ChatFormed(t, c), NEW b \in {"cut", "failed"},
         ChatDelivered(t.out, p, b)
  PROVE  ChatEnded(ChatFail(t), p, b)
<1> DEFINE e == Chunk("error", 0, <<>>)
           u == ChatFail(t)
<1>1. t \in Chats /\ t.out \in Seq(Chunks)
  BY ChatOutTyped DEF ChatFormed
<1>3. u = [t EXCEPT !.terminal = TRUE, !.failed = TRUE, !.out = Append(t.out, e)]
  BY DEF ChatFail
<1> HIDE DEF u
<1>4. e \in Chunks /\ e.what = "error" /\ ~e.role /\ e.item = 0 /\ e.pieces = <<>>
  BY Parts DEF Chunk, Chunks
<1> HIDE DEF e
<1>5. Append(t.out, e) \in Seq(Chunks)
  BY <1>1, <1>4, ChunkAdded
<1>6. u \in Chats /\ u.terminal /\ u.out = Append(t.out, e) /\ u.failed
  BY <1>1, <1>3, <1>5 DEF Chats
<1>7. Ending(u, b, e)
  BY <1>4, <1>6 DEF Ending
<1>8. ChatEnded(u, p, b)
  BY <1>4, <1>6, <1>7, ChatEndsWith
<1> QED BY <1>8 DEF u

-------------------------------------------------------------------------------
(* The chat translator: its invariant.                                     *)

ChatInv ==
  /\ StreamAt
  /\ state = "open" => ChatStreams(ch, plan, pos.item, pos.at)
  /\ state = "ended" => ChatEnded(ch, plan, by)
  /\ state = "closed" => ChatFramed(ch.out) /\ ChatDelivered(ch.out, plan, by) /\ ChatTruthful(ch, by)

\* The invariant of the chat translator holds at first.
LEMMA ChatInvInit ==
  ASSUME StreamInit PROVE ChatInv
<1>1. ChatStreams(ch, plan, pos.item, pos.at)
  BY ChatInit DEF ChatStreams, StreamInit
<1> QED BY <1>1, StreamAtInit DEF ChatInv, StreamInit

\* Until the stream ended, what was read of an item is a part of it.
LEMMA ChatSoFar ==
  ASSUME ChatInv, state = "open"
  PROVE  \A b : (b \in {"completed", "done"} => AllTold) => ChatDelivered(ch.out, plan, b)
<1>1. /\ plan \in Plans /\ pos.item \in 0 .. Len(plan.items) /\ (plan.mode = "last" => pos.item = 0)
      /\ pos.at \in Nat /\ pos.at <= Len(Script(plan, pos.item))
      /\ ChatStreams(ch, plan, pos.item, pos.at)
  BY DEF ChatInv, StreamAt
<1>2. DOMAIN plan.items = 1 .. Len(plan.items)
  BY <1>1, PlanTyped
<1>3. ASSUME NEW k \in DOMAIN plan.items
      PROVE  PartOf(Read(ch.out, k), ChatDue(plan.mode, plan.items[k]))
  BY <1>1, <1>2, ChatStreamsParts
<1>4. ASSUME NEW k \in DOMAIN plan.items, AllTold
      PROVE  Read(ch.out, k) = ChatDue(plan.mode, plan.items[k])
  <2>1. Complete(Script(plan, pos.item), pos.at) /\ (plan.mode = "last" \/ pos.item = Len(plan.items))
    BY <1>4 DEF AllTold, ItemTold
  <2> QED BY <1>1, <1>2, <2>1, ChatStreamsDone
<1> QED BY <1>3, <1>4 DEF ChatDelivered

\* An event about an item keeps it.
LEMMA ChatInvTell ==
  ASSUME ChatInv, state = "open", NEW k, NEW i, Tell(k, i), IsNext(k, i), plan' = plan
  PROVE  ChatStreams(ch', plan, k, i)
<1>1. /\ plan \in Plans /\ pos.item \in 0 .. Len(plan.items)
      /\ pos.at \in Nat /\ pos.at <= Len(Script(plan, pos.item))
      /\ ChatStreams(ch, plan, pos.item, pos.at)
  BY DEF ChatInv, StreamAt
<1>2. CASE k = 0
  <2>1. k = 0 /\ pos.item = 0 /\ i = 1
    BY <1>1, <1>2, PlanTyped DEF IsNext
  <2>2. Script(plan, 0)[1].type = "created"
    BY DEF Script, Optional
  <2>3. ch' = Greet(ch)
    BY <2>1, <2>2, ChatItemIs DEF Tell
  <2>4. ChatFormed(ch, 0)
    BY <1>1, <2>1 DEF ChatStreams
  <2>5. ChatFormed(ch', 0)
    BY <2>3, <2>4, Greets
  <2> QED BY <2>1, <2>5 DEF ChatStreams
<1>3. CASE k # 0
  <2>1. /\ k \in 1 .. Len(plan.items) /\ plan.mode # "last"
        /\ \/ k = pos.item /\ i \in After(Script(plan, k), pos.at)
           \/ k = pos.item + 1 /\ Complete(Script(plan, pos.item), pos.at) /\ i \in After(Script(plan, k), 0)
    BY <1>3 DEF IsNext, ItemTold
  <2>2. ch' = ChatItem(ch, Script(plan, k)[i], plan.items[k])
    BY <1>3 DEF Tell
  <2> QED BY <1>1, <2>1, <2>2, ChatStreamsEvent
<1> QED BY <1>2, <1>3

\* Every step of the stream keeps it.
LEMMA ChatInvKept ==
  ASSUME ChatInv, [StreamNext]_streamVars
  PROVE  ChatInv'
<1>1. StreamAt /\ StreamAt'
  BY StreamAtKept DEF ChatInv
<1>2. CASE UNCHANGED streamVars
  BY <1>1, <1>2 DEF ChatInv, streamVars
<1>3. CASE ItemEvent
  <2>1. PICK k, i : Tell(k, i) /\ IsNext(k, i) /\ plan' = plan /\ state' = state /\ by' = by /\ state = "open"
    BY <1>1, <1>3, EventIs
  <2>2. pos'.item = k /\ pos'.at = i
    BY <1>1, <2>1, StreamAtTell
  <2>3. ChatStreams(ch', plan, k, i)
    BY <2>1, ChatInvTell
  <2> QED BY <1>1, <2>1, <2>2, <2>3 DEF ChatInv
<1>4. ASSUME state = "open" PROVE plan \in Plans /\ ChatFormed(ch, pos.item)
  BY <1>4 DEF ChatInv, StreamAt, ChatStreams
<1>5. CASE Completed
  <2>1. state = "open" /\ AllTold /\ ch' = ChatFinish(ch, "") /\ by' = "completed" /\ plan' = plan /\ state' = "ended"
    BY <1>5 DEF Completed
  <2>2. ChatEnded(ch', plan', by')
    BY <1>4, <2>1, ChatSoFar, ChatFinishes
  <2> QED BY <1>1, <2>1, <2>2 DEF ChatInv
<1>6. CASE Incomplete
  <2>1. state = "open" /\ ch' = ChatFinish(ch, "length") /\ by' = "incomplete" /\ plan' = plan /\ state' = "ended"
    BY <1>6 DEF Incomplete
  <2>2. ChatEnded(ch', plan', by')
    BY <1>4, <2>1, ChatSoFar, ChatFinishes
  <2> QED BY <1>1, <2>1, <2>2 DEF ChatInv
<1>7. CASE Failed
  <2>1. state = "open" /\ ch' = ChatFail(ch) /\ by' = "failed" /\ plan' = plan /\ state' = "ended"
    BY <1>7 DEF Failed
  <2>2. ChatEnded(ch', plan', by')
    BY <1>4, <2>1, ChatSoFar, ChatFails
  <2> QED BY <1>1, <2>1, <2>2 DEF ChatInv
<1>8. CASE Done /\ state = "ended"
  <2>1. ch' = ChatFinish(ch, "") /\ by' = by /\ plan' = plan /\ state' = "ended"
    BY <1>8 DEF Done
  <2>2. ch' = ch
    BY <1>8, <2>1 DEF ChatInv, ChatEnded, ChatFinish
  <2> QED BY <1>1, <1>8, <2>1, <2>2 DEF ChatInv
<1>9. CASE Done /\ state = "open"
  <2>1. AllTold /\ ch' = ChatFinish(ch, "") /\ by' = "done" /\ plan' = plan /\ state' = "ended"
    BY <1>9 DEF Done
  <2>2. ChatEnded(ch', plan', by')
    BY <1>4, <1>9, <2>1, ChatSoFar, ChatFinishes
  <2> QED BY <1>1, <2>1, <2>2 DEF ChatInv
<1>10. CASE BodyEnds
  <2> DEFINE d == IF ch.terminal THEN ch ELSE ChatFail(ch)
  <2>1. ch' = [d EXCEPT !.out = Append(@, Chunk("done", 0, <<>>))] /\ plan' = plan /\ state' = "closed"
        /\ by' = IF state = "open" THEN "cut" ELSE by
    BY <1>10 DEF BodyEnds, ChatEnds
  <2>2. state \in {"open", "ended"}
    BY <1>1, <1>10 DEF BodyEnds, StreamAt
  <2>3. ASSUME state = "open" PROVE ChatEnded(d, plan, by')
    <3>1. d = ChatFail(ch)
      BY <1>4, <2>3 DEF ChatFormed
    <3>2. by' = "cut"
      BY <2>1, <2>3
    <3>3. ChatDelivered(ch.out, plan, "cut")
      BY <2>3, ChatSoFar
    <3> QED BY <1>4, <2>3, <3>1, <3>2, <3>3, ChatFails
  <2>4. ASSUME state = "ended" PROVE ChatEnded(d, plan, by')
    <3>1. d = ch /\ by' = by /\ ChatEnded(ch, plan, by)
      BY <2>1, <2>4 DEF ChatInv, ChatEnded
    <3> QED BY <3>1
  <2>5. ChatEnded(d, plan, by')
    BY <2>2, <2>3, <2>4
  <2> HIDE DEF d
  <2>6. plan \in Plans
    BY <1>1 DEF StreamAt
  <2>7. ChatFramed(ch'.out) /\ ChatDelivered(ch'.out, plan, by') /\ ChatTruthful(ch', by')
    BY <2>1, <2>5, <2>6, ChatCloses
  <2> QED BY <1>1, <2>1, <2>7 DEF ChatInv
<1> QED BY <1>1, <1>2, <1>3, <1>5, <1>6, <1>7, <1>8, <1>9, <1>10 DEF StreamNext, Done

\* It implies what a chat client may rely on.
LEMMA ChatInvFaithful ==
  ASSUME ChatInv
  PROVE  ChatFrames /\ ChatDelivers /\ ChatEndsTruthful
<1>1. plan \in Plans /\ state \in {"open", "ended", "closed"} /\ (state = "open" <=> by = "none")
  BY DEF ChatInv, StreamAt
<1>2. CASE state = "open"
  <2>1. ChatFormed(ch, pos.item) /\ by = "none"
    BY <1>1, <1>2 DEF ChatInv, ChatStreams
  <2>2. ch.out \in Seq(Chunks) /\ ChatBody(ch.out)
    BY <2>1, ChatOutTyped DEF ChatFormed, ChatBody, NamesOnce
  <2>3. ChatFramed(ch.out)
    BY <2>2, BodyFramed
  <2>4. ChatDelivered(ch.out, plan, by)
    BY <1>2, <2>1, ChatSoFar
  <2> QED BY <1>2, <2>3, <2>4 DEF ChatFramed, ChatFrames, ChatDelivered, ChatDelivers, ChatEndsTruthful, PartOf, ChatDue
<1>3. CASE state = "ended"
  <2>1. ChatFramed(ch.out) /\ ChatDelivered(ch.out, plan, by)
    BY <1>3, ChatEndedTruthful DEF ChatInv, ChatEnded
  <2> QED BY <1>3, <2>1 DEF ChatFramed, ChatFrames, ChatDelivered, ChatDelivers, ChatEndsTruthful, PartOf, ChatDue
<1>4. CASE state = "closed"
  <2>1. ChatFramed(ch.out) /\ ChatDelivered(ch.out, plan, by) /\ ChatTruthful(ch, by)
    BY <1>4 DEF ChatInv
  <2> QED BY <2>1 DEF ChatFramed, ChatFrames, ChatDelivered, ChatDelivers, ChatTruthful, ChatEndsTruthful, PartOf, ChatDue
<1> QED BY <1>1, <1>2, <1>3, <1>4

-------------------------------------------------------------------------------
(* A message or a call.                                                    *)

\* A message or a call is being told, and all that was read of it is p; its block
\* may be open.
Contents(t, items, c, p, open) ==
  /\ Formed(t, items, c)
  /\ t.thinking = 0 /\ t.signature = NoItem
  /\ Read(t.out, c) = p
  /\ \A i \in DOMAIN t.out : t.out[i].open <=> t.out[i].item = c /\ open

\* What telling item c leaves alone.
Kept(t, u, c) ==
  /\ u.display = t.display /\ u.ended = t.ended /\ t.completed \subseteq u.completed /\ u.reason = t.reason
  /\ t.started => u.started
  /\ \A m : m # c => Read(u.out, m) = Read(t.out, m)

HasBlock(t, c) == \E i \in DOMAIN t.out : t.out[i].item = c

Content(kind, items, c) == kind \in {"text", "tool"} /\ kind = BlockKind(items[c])

\* The only block of an item.
FoundAt(t, c, p, open, i) ==
  /\ i \in DOMAIN t.out /\ t.out[i].item = c /\ t.out[i].pieces = p
  /\ t.out[i].open <=> open
  /\ \A j \in DOMAIN t.out : t.out[j].item = c => j = i

FindIs(t, kind, c, p, open) ==
  /\ HasBlock(t, c) => Find(t, kind, c) # 0 /\ FoundAt(t, c, p, open, Find(t, kind, c))
  /\ ~HasBlock(t, c) => Find(t, kind, c) = 0 /\ p = <<>>

\* The translator finds the block of an item, if there is one, and it is the only one.
LEMMA Found ==
  ASSUME NEW items, NEW c \in Nat \ {0}, NEW kind, Content(kind, items, c), NEW t, NEW p, NEW open \in BOOLEAN,
         Contents(t, items, c, p, open)
  PROVE  FindIs(t, kind, c, p, open)
<1> DEFINE S == {i \in DOMAIN t.out : t.out[i].kind = kind /\ t.out[i].item = c}
<1>1. t \in Translators /\ Formed(t, items, c)
  BY DEF Contents, Formed
<1>2. t.out \in Seq(Blocks) /\ DOMAIN t.out = 1 .. Len(t.out) /\ Len(t.out) \in Nat
  BY <1>1, OutTyped
<1>3. \A i \in DOMAIN t.out : t.out[i].item = c => t.out[i].kind = kind
  BY <1>1 DEF Content, Formed
<1>4. CASE HasBlock(t, c)
  <2>1. S # {}
    BY <1>3, <1>4 DEF HasBlock
  <2>2. Find(t, kind, c) \in S
    BY <2>1 DEF Find
  <2> DEFINE i == Find(t, kind, c)
  <2> HIDE DEF i
  <2>3. i \in DOMAIN t.out /\ t.out[i].kind = kind /\ t.out[i].item = c /\ i # 0
    BY <1>2, <2>2 DEF i
  <2>4. t.out[i].kind # "thinking"
    BY <2>3 DEF Content
  <2>5. t.out[i].pieces = p
    BY <1>1, <2>3, <2>4 DEF Formed, Contents
  <2>6. \A j \in DOMAIN t.out : t.out[j].item = c => j = i
    BY <1>1, <2>3, <2>4 DEF Formed
  <2>7. t.out[i].open <=> open
    BY <2>3 DEF Contents
  <2> QED BY <1>4, <2>3, <2>5, <2>6, <2>7 DEF FoundAt, FindIs, i
<1>5. CASE ~HasBlock(t, c)
  <2>1. S = {}
    BY <1>5 DEF HasBlock
  <2>2. Read(t.out, c) = <<>>
    BY <1>2, <1>5, BlocksPiecewise, ReadNone DEF HasBlock
  <2> QED BY <1>5, <2>1, <2>2 DEF Find, FindIs, Contents
<1> QED BY <1>4, <1>5

\* A block has content if something was read of its item.
LEMMA EmittedIs ==
  ASSUME NEW items, NEW c \in Nat \ {0}, NEW kind, Content(kind, items, c), NEW t, NEW p, NEW open \in BOOLEAN,
         Contents(t, items, c, p, open)
  PROVE  Emitted(t, kind, c) <=> p # <<>>
<1>1. FindIs(t, kind, c, p, open)
  BY Found
<1> QED BY <1>1 DEF Emitted, FindIs, FoundAt

\* What two steps leave alone.
LEMMA KeptMore ==
  ASSUME NEW t, NEW u, NEW v, NEW c, Kept(t, u, c), Kept(u, v, c)
  PROVE  Kept(t, v, c)
BY DEF Kept

\* message_start changes no block.
LEMMA StartKept ==
  ASSUME NEW items, NEW c, NEW t, NEW p, NEW open, Contents(t, items, c, p, open)
  PROVE  /\ Contents(EnsureStart(t), items, c, p, open)
         /\ Kept(t, EnsureStart(t), c) /\ EnsureStart(t).started
<1> DEFINE u == EnsureStart(t)
<1>1. t \in Translators
  BY DEF Contents, Formed
<1>2. /\ u \in Translators /\ u.started /\ u.display = t.display /\ u.ended = t.ended /\ u.completed = t.completed
      /\ u.reason = t.reason /\ u.out = t.out /\ u.thinking = t.thinking /\ u.signature = t.signature
  BY <1>1 DEF EnsureStart, Translators
<1> HIDE DEF u
<1>3. Formed(u, items, c)
  BY <1>2 DEF Contents, Formed
<1> QED BY <1>2, <1>3 DEF Contents, Kept, u

\* The block at i is replaced.
Replaced(t, u, i, b) ==
  /\ u \in Translators /\ u.display = t.display /\ u.started = t.started /\ u.ended = t.ended
  /\ u.reason = t.reason /\ u.thinking = t.thinking /\ u.signature = t.signature
  /\ u.pending = t.pending /\ u.current = t.current /\ u.completed = t.completed
  /\ DOMAIN u.out = DOMAIN t.out /\ u.out[i] = b /\ \A j \in DOMAIN t.out : j # i => u.out[j] = t.out[j]

\* One block is replaced in the record.
LEMMA Replaces ==
  ASSUME NEW t \in Translators, NEW i \in DOMAIN t.out, NEW b \in Blocks, NEW u,
         u = [t EXCEPT !.out = [t.out EXCEPT ![i] = b]]
  PROVE  Replaced(t, u, i, b)
<1> DEFINE o == [t.out EXCEPT ![i] = b]
<1>1. t.out \in Seq(Blocks) /\ DOMAIN t.out = 1 .. Len(t.out)
  BY OutTyped
<1>2. o \in Seq(Blocks) /\ DOMAIN o = DOMAIN t.out /\ o[i] = b /\ \A j \in DOMAIN t.out : j # i => o[j] = t.out[j]
  BY <1>1, ExceptSeq
<1>3. u = [t EXCEPT !.out = o]
  OBVIOUS
<1> HIDE DEF o
<1>4. /\ u \in Translators /\ u.display = t.display /\ u.started = t.started /\ u.ended = t.ended
      /\ u.reason = t.reason /\ u.thinking = t.thinking /\ u.signature = t.signature
      /\ u.pending = t.pending /\ u.current = t.current /\ u.completed = t.completed /\ u.out = o
  BY <1>2, <1>3 DEF Translators
<1> QED BY <1>2, <1>4 DEF Replaced

\* The block of item c is there.
Tells(t, u, items, c, p, open) == Contents(u, items, c, p, open) /\ Kept(t, u, c)

\* EnsureBlock finds the block of the item or opens it.
LEMMA EnsuresBlock ==
  ASSUME NEW items, NEW c \in Nat \ {0}, NEW kind, Content(kind, items, c), NEW t, NEW p, NEW open \in BOOLEAN,
         Contents(t, items, c, p, open), t.started, open \/ HasBlock(t, c)
  PROVE  Tells(t, EnsureBlock(t, kind, c), items, c, p, open) /\ HasBlock(EnsureBlock(t, kind, c), c)
<1> DEFINE u == EnsureBlock(t, kind, c)
<1>1. FindIs(t, kind, c, p, open)
  BY Found
<1>2. t \in Translators /\ t.thinking = 0 /\ t.signature = NoItem /\ Formed(t, items, c)
      /\ t.completed \subseteq 1 .. c /\ Read(t.out, c) = p
  BY DEF Contents, Formed
<1>3. u = IF Find(t, kind, c) # 0 THEN t ELSE [t EXCEPT !.out = Append(@, Block(kind, c))]
  BY <1>2 DEF EnsureBlock, FinishThinkingBeforeContent
<1> HIDE DEF u
<1>4. CASE HasBlock(t, c)
  <2>1. u = t
    BY <1>1, <1>3, <1>4 DEF FindIs
  <2> QED BY <1>4, <2>1 DEF Tells, Kept, u
<1>5. CASE ~HasBlock(t, c)
  <2> DEFINE b == Block(kind, c)
  <2>1. open /\ u = [t EXCEPT !.out = Append(t.out, b)]
    BY <1>1, <1>3, <1>5 DEF FindIs
  <2>2. b \in Blocks /\ b.item = c /\ b.open
    BY Parts DEF Block, Blocks, Content, NoItem
  <2> HIDE DEF b
  <2>3. t.out \in Seq(Blocks) /\ Append(t.out, b) \in Seq(Blocks)
    BY <1>2, <2>2, OutTyped
  <2>4. /\ u \in Translators /\ u.display = t.display /\ u.started /\ u.ended = t.ended
        /\ u.reason = t.reason /\ u.thinking = 0 /\ u.signature = NoItem
        /\ u.completed = t.completed /\ u.out = Append(t.out, b)
    BY <1>2, <2>1, <2>3 DEF Translators
  <2>5. \A i \in DOMAIN t.out : ~t.out[i].open /\ t.out[i].item # c
    BY <1>5 DEF Contents, HasBlock
  <2>6. kind \in {"thinking", "text", "tool"} /\ kind # "thinking" /\ kind = BlockKind(items[c]) /\ c \in 1 .. c
    BY DEF Content
  <2>7. Formed(u, items, c) /\ \A m : Read(u.out, m) = Read(t.out, m)
    <3>1. Adds(t, u, items, c, kind, c)
      BY <1>2, <2>4, <2>5, <2>6 DEF Adds, b
    <3>2. Reads(t, u, items, c)
      BY <3>1, Added
    <3> QED BY <3>2 DEF Reads
  <2>8. /\ DOMAIN u.out = 1 .. Len(t.out) + 1 /\ u.out[Len(t.out) + 1] = b
        /\ \A i \in DOMAIN t.out : u.out[i] = t.out[i]
        /\ \A i \in DOMAIN u.out : i \in DOMAIN t.out \/ i = Len(t.out) + 1
    BY <2>2, <2>3, <2>4
  <2>9. \A i \in DOMAIN u.out : u.out[i].open <=> u.out[i].item = c /\ open
    BY <2>1, <2>2, <2>5, <2>8
  <2>10. Contents(u, items, c, p, open)
    BY <1>2, <2>4, <2>7, <2>9 DEF Contents
  <2>11. HasBlock(u, c)
    BY <1>2, <2>2, <2>8, OutTyped DEF HasBlock
  <2> QED BY <2>4, <2>7, <2>10, <2>11 DEF Tells, Kept, u
<1> QED BY <1>4, <1>5

\* A delta is read once.
LEMMA TellsDelta ==
  ASSUME NEW items, NEW c \in Nat \ {0}, NEW kind, Content(kind, items, c), NEW t, NEW p,
         Contents(t, items, c, p, TRUE), t.started, NEW q \in Seq(Nat), q # <<>>
  PROVE  Tells(t, Delta(t, kind, c, q), items, c, p \o q, TRUE)
<1> DEFINE u == EnsureBlock(t, kind, c)
           i == Find(u, kind, c)
           v == Delta(t, kind, c, q)
           b == [u.out[i] EXCEPT !.pieces = @ \o q]
<1>1. Contents(u, items, c, p, TRUE) /\ Kept(t, u, c) /\ HasBlock(u, c)
  BY EnsuresBlock DEF Tells
<1>2. FindIs(u, kind, c, p, TRUE)
  BY <1>1, Found
<1>3. v = IF u.out[i].open THEN [u EXCEPT !.out[i].pieces = @ \o q] ELSE u
  BY DEF Delta
<1> HIDE DEF u, v, i
<1>4. /\ i \in DOMAIN u.out /\ u.out[i].item = c /\ u.out[i].pieces = p /\ u.out[i].open
  BY <1>1, <1>2 DEF FindIs, FoundAt, i
<1>5. u \in Translators /\ Formed(u, items, c) /\ u.started /\ u.thinking = 0 /\ u.signature = NoItem
      /\ u.completed \subseteq 1 .. c /\ Read(u.out, c) = p
  BY <1>1, <1>4 DEF Contents, Formed
<1>6. u.out[i] \in Blocks /\ p \in Seq(Nat)
  BY <1>4, <1>5, OutTyped DEF Blocks
<1>7. p \o q \in Seq(Nat)
  BY <1>6
<1>8. /\ b \in Blocks /\ b.item = u.out[i].item /\ b.kind = u.out[i].kind /\ b.open = u.out[i].open
      /\ b.signature = u.out[i].signature /\ b.pieces = u.out[i].pieces \o q
  <2> DEFINE pq == p \o q
  <2>1. b = [u.out[i] EXCEPT !.pieces = pq]
    BY <1>4
  <2> HIDE DEF pq, b
  <2>2. pq \in Seq(Nat)
    BY <1>7 DEF pq
  <2>3. /\ b \in Blocks /\ b.item = u.out[i].item /\ b.kind = u.out[i].kind /\ b.open = u.out[i].open
        /\ b.signature = u.out[i].signature /\ b.pieces = pq
    BY <1>6, <2>1, <2>2 DEF Blocks
  <2> QED BY <1>4, <2>3 DEF pq
<1>9. v = [u EXCEPT !.out = [u.out EXCEPT ![i] = b]]
  BY <1>3, <1>4
<1> HIDE DEF b
<1>10. Replaced(u, v, i, b)
  BY <1>4, <1>5, <1>8, <1>9, Replaces
<1>11. /\ v \in Translators /\ v.display = u.display /\ v.started /\ v.thinking = u.thinking
       /\ v.completed \subseteq 1 .. c /\ DOMAIN v.out = DOMAIN u.out
       /\ \A j \in DOMAIN u.out : j # i => v.out[j] = u.out[j]
       /\ v.out[i].item = u.out[i].item /\ v.out[i].kind = u.out[i].kind /\ v.out[i].open
       /\ v.out[i].signature = u.out[i].signature /\ v.out[i].pieces = u.out[i].pieces \o q
       /\ v.ended = u.ended /\ v.reason = u.reason /\ v.completed = u.completed /\ v.signature = u.signature
  BY <1>4, <1>5, <1>8, <1>10, Zenon DEF Replaced
<1>12. /\ Formed(v, items, c)
       /\ Read(v.out, u.out[i].item) = Read(u.out, u.out[i].item) \o q
       /\ \A m : m # u.out[i].item => Read(v.out, m) = Read(u.out, m)
  <2>1. Grows(u, v, items, c, i, q)
    BY <1>4, <1>5, <1>11, Zenon DEF Grows
  <2>2. ReadsOn(u, v, items, c, u.out[i].item, q)
    BY <2>1, Grown
  <2> QED BY <2>2, Zenon DEF ReadsOn
<1>13. \A j \in DOMAIN v.out : v.out[j].open <=> v.out[j].item = c /\ TRUE
  BY <1>1, <1>4, <1>11 DEF Contents
<1>14. Contents(v, items, c, p \o q, TRUE)
  BY <1>4, <1>5, <1>11, <1>12, <1>13 DEF Contents
<1>15. Kept(u, v, c)
  BY <1>4, <1>11, <1>12 DEF Kept
<1> QED BY <1>1, <1>14, <1>15, KeptMore DEF Tells, v

\* Two steps that tell an item.
LEMMA TellsMore ==
  ASSUME NEW t, NEW u, NEW v, NEW items, NEW c, NEW p, NEW open, NEW q, NEW shut,
         Tells(t, u, items, c, p, open), Tells(u, v, items, c, q, shut)
  PROVE  Tells(t, v, items, c, q, shut)
<1>1. Kept(t, v, c)
  BY KeptMore DEF Tells
<1> QED BY <1>1 DEF Tells

\* A block that has content was written.
LEMMA HasContent ==
  ASSUME NEW items, NEW c \in Nat \ {0}, NEW kind, Content(kind, items, c), NEW t, NEW p, NEW open \in BOOLEAN,
         Contents(t, items, c, p, open), p # <<>>
  PROVE  HasBlock(t, c) /\ t.started
<1>1. FindIs(t, kind, c, p, open)
  BY Found
<1>2. HasBlock(t, c)
  BY <1>1 DEF FindIs
<1>3. t.out # <<>>
  <2>1. PICK i \in DOMAIN t.out : TRUE
    BY <1>2 DEF HasBlock
  <2> QED BY <2>1
<1> QED BY <1>2, <1>3 DEF Contents, Formed

\* The content of a finished item is written unless deltas brought it.
LEMMA TellsOnce ==
  ASSUME NEW items, NEW c \in Nat \ {0}, NEW kind, Content(kind, items, c), NEW t, NEW p, NEW open \in BOOLEAN,
         Contents(t, items, c, p, open), t.started, p = <<>> => open = TRUE
  PROVE  Tells(t, DeltaOnce(t, kind, c, Whole), items, c, IF p = <<>> THEN Whole ELSE p, open)
<1>1. Emitted(t, kind, c) <=> p # <<>>
  BY EmittedIs
<1>2. CASE p = <<>>
  <2>1. DeltaOnce(t, kind, c, Whole) = Delta(t, kind, c, Whole) /\ open = TRUE
    BY <1>1, <1>2 DEF DeltaOnce
  <2>2. Tells(t, Delta(t, kind, c, Whole), items, c, p \o Whole, TRUE)
    BY <2>1, TellsDelta, Parts
  <2>3. p \o Whole = Whole
    BY <1>2, Parts
  <2> QED BY <1>2, <2>1, <2>2, <2>3
<1>3. CASE p # <<>>
  <2>1. DeltaOnce(t, kind, c, Whole) = t
    BY <1>1, <1>3 DEF DeltaOnce
  <2> QED BY <1>3, <2>1 DEF Tells, Kept
<1> QED BY <1>2, <1>3

\* The block of the item is closed.
LEMMA TellsStop ==
  ASSUME NEW items, NEW c \in Nat \ {0}, NEW kind, Content(kind, items, c), NEW t, NEW p, NEW open \in BOOLEAN,
         Contents(t, items, c, p, open)
  PROVE  Tells(t, StopBlock(t, kind, c), items, c, p, FALSE)
<1> DEFINE u == StopBlock(t, kind, c)
           i == Find(t, kind, c)
           b == [t.out[i] EXCEPT !.open = FALSE]
<1>1. FindIs(t, kind, c, p, open)
  BY Found
<1>2. t \in Translators /\ t.thinking = 0 /\ t.signature = NoItem /\ Formed(t, items, c)
      /\ t.completed \subseteq 1 .. c /\ Read(t.out, c) = p /\ (t.out # <<>> => t.started)
  BY DEF Contents, Formed
<1>3. u = IF i = 0 THEN t ELSE [t EXCEPT !.out[i].open = FALSE]
  BY DEF StopBlock
<1> HIDE DEF u, i
<1>4. CASE ~HasBlock(t, c)
  <2>1. u = t
    BY <1>1, <1>3, <1>4 DEF FindIs, i
  <2>2. \A j \in DOMAIN t.out : ~t.out[j].open
    BY <1>4 DEF Contents, HasBlock
  <2> QED BY <1>4, <2>1, <2>2 DEF Tells, Kept, Contents, u, HasBlock
<1>5. CASE HasBlock(t, c)
  <2>1. i # 0 /\ FoundAt(t, c, p, open, i) /\ i \in DOMAIN t.out
    BY <1>1, <1>5 DEF FindIs, FoundAt, i
  <2>2. t.out[i] \in Blocks
    BY <1>2, <2>1, OutTyped
  <2>3. /\ b \in Blocks /\ b.item = t.out[i].item /\ b.kind = t.out[i].kind /\ ~b.open
        /\ b.signature = t.out[i].signature /\ b.pieces = t.out[i].pieces
    <3>1. PICK no \in BOOLEAN : ~no
      OBVIOUS
    <3>2. b = [t.out[i] EXCEPT !.open = no]
      BY <3>1
    <3> QED BY <2>2, <3>1, <3>2 DEF Blocks
  <2>4. u = [t EXCEPT !.out = [t.out EXCEPT ![i] = b]]
    BY <1>3, <2>1
  <2> HIDE DEF b
  <2>5. Replaced(t, u, i, b)
    BY <1>2, <2>1, <2>3, <2>4, Replaces
  <2>6. \A j \in DOMAIN t.out : t.out[j].signature \in {NoItem, t.out[j].item}
    BY <1>2 DEF Formed
  <2>7. \A j \in DOMAIN t.out :
          /\ u.out[j].item = t.out[j].item /\ u.out[j].kind = t.out[j].kind
          /\ u.out[j].pieces = t.out[j].pieces
          /\ u.out[j].open => t.out[j].open
          /\ u.out[j].signature \in {NoItem, u.out[j].item}
    <3> TAKE j \in DOMAIN t.out
    <3>1. CASE j = i
      BY <2>3, <2>5, <2>6, <3>1 DEF Replaced
    <3>2. CASE j # i
      BY <2>5, <2>6, <3>2 DEF Replaced
    <3> QED BY <3>1, <3>2
  <2>8. u.out # <<>> => u.started
    <3>1. t.out # <<>>
      BY <2>1
    <3> QED BY <1>2, <2>5, <3>1 DEF Replaced
  <2>9. Rewrites(t, u, items, c)
    BY <1>2, <2>5, <2>7, <2>8 DEF Rewrites, Replaced
  <2>10. Reads(t, u, items, c)
    BY <2>9, Rewritten
  <2>11. \A j \in DOMAIN u.out : ~u.out[j].open
    <3> TAKE j \in DOMAIN u.out
    <3>1. CASE j = i
      BY <2>3, <2>5, <3>1 DEF Replaced
    <3>2. CASE j # i
      <4>1. j \in DOMAIN t.out /\ t.out[j].item # c
        BY <2>1, <2>5, <3>2 DEF FoundAt, Replaced
      <4>2. ~t.out[j].open
        BY <4>1 DEF Contents
      <4> QED BY <2>7, <4>1, <4>2
    <3> QED BY <3>1, <3>2
  <2>12. Contents(u, items, c, p, FALSE)
    BY <1>2, <2>5, <2>10, <2>11 DEF Contents, Reads, Replaced
  <2>13. Kept(t, u, c)
    BY <2>5, <2>10 DEF Kept, Reads, Replaced
  <2> QED BY <2>12, <2>13 DEF Tells, u
<1> QED BY <1>4, <1>5

-------------------------------------------------------------------------------
(* The events of a message and of a call.                                  *)

\* What was told of a message or a call once its first j events came, and whether its
\* block may be open.
TextTold(mode, j) ==
  IF j < 3 THEN <<>> ELSE IF mode = "deltas" /\ j = 3 THEN <<1>> ELSE Whole
TextOpen(mode, j) == j < IF mode = "finished" THEN 3 ELSE 5
ArgsTold(mode, j) ==
  IF j < 2 THEN <<>> ELSE IF mode = "deltas" /\ j = 2 THEN <<1>> ELSE Whole
ArgsOpen(mode, j) == j < IF mode = "finished" THEN 2 ELSE 4

\* Item c is told, and the client heard from it.
Hears(t, u, items, c, p, open) == Tells(t, u, items, c, p, open) /\ u.started

\* message_start, and the item as it was.
LEMMA ContentsStarted ==
  ASSUME NEW t, NEW items, NEW c, NEW p, NEW open, Contents(t, items, c, p, open)
  PROVE  Hears(t, EnsureStart(t), items, c, p, open)
BY StartKept DEF Hears, Tells

\* A delta, with message_start before it.
LEMMA HearsDelta ==
  ASSUME NEW items, NEW c \in Nat \ {0}, NEW kind, Content(kind, items, c), NEW t, NEW p,
         Contents(t, items, c, p, TRUE), NEW q \in Seq(Nat), q # <<>>
  PROVE  Hears(t, Delta(EnsureStart(t), kind, c, q), items, c, p \o q, TRUE)
<1> DEFINE u == EnsureStart(t)
           v == Delta(u, kind, c, q)
<1>1. Hears(t, u, items, c, p, TRUE)
  BY ContentsStarted
<1> HIDE DEF u
<1>2. Contents(u, items, c, p, TRUE) /\ u.started
  BY <1>1 DEF Hears, Tells
<1>3. Tells(u, v, items, c, p \o q, TRUE)
  BY <1>2, TellsDelta
<1> HIDE DEF v
<1>4. v.started
  BY <1>2, <1>3 DEF Tells, Kept
<1>5. Tells(t, u, items, c, p, TRUE)
  BY <1>1 DEF Hears
<1>6. Tells(t, v, items, c, p \o q, TRUE)
  BY <1>3, <1>5, TellsMore
<1> QED BY <1>4, <1>6 DEF Hears, u, v

\* A block, with message_start before it.
LEMMA HearsBlock ==
  ASSUME NEW items, NEW c \in Nat \ {0}, NEW kind, Content(kind, items, c), NEW t, NEW p, NEW open \in BOOLEAN,
         Contents(t, items, c, p, open), open = TRUE \/ p # <<>>
  PROVE  Hears(t, EnsureBlock(EnsureStart(t), kind, c), items, c, p, open)
<1> DEFINE u == EnsureStart(t)
           v == EnsureBlock(u, kind, c)
<1>1. Hears(t, u, items, c, p, open)
  BY ContentsStarted
<1>2. p # <<>> => HasBlock(u, c)
  <2>1. u.out = t.out
    BY DEF EnsureStart, Contents, Formed, Translators
  <2> QED BY <2>1, HasContent DEF HasBlock
<1> HIDE DEF u
<1>3. Contents(u, items, c, p, open) /\ u.started /\ (open \/ HasBlock(u, c))
  BY <1>1, <1>2 DEF Hears, Tells
<1>4. Tells(u, v, items, c, p, open)
  BY <1>3, EnsuresBlock
<1> HIDE DEF v
<1>5. Tells(t, v, items, c, p, open)
  BY <1>1, <1>4, TellsMore DEF Hears
<1> QED BY <1>3, <1>4, <1>5 DEF Hears, Tells, Kept, u, v

\* The block is finished; its content is told unless deltas brought it.
HearsEnd(t, u, items, c, p) == Hears(t, u, items, c, IF p = <<>> THEN Whole ELSE p, FALSE)

\* The end of a block.
LEMMA HearsStop ==
  ASSUME NEW items, NEW c \in Nat \ {0}, NEW kind, Content(kind, items, c), NEW t, NEW u, NEW p, NEW open \in BOOLEAN,
         Hears(t, u, items, c, p, open)
  PROVE  Hears(t, StopBlock(u, kind, c), items, c, p, FALSE)
<1> DEFINE v == StopBlock(u, kind, c)
<1>1. Contents(u, items, c, p, open) /\ u.started /\ Tells(t, u, items, c, p, open)
  BY DEF Hears, Tells
<1>2. Tells(u, v, items, c, p, FALSE)
  BY <1>1, TellsStop
<1> HIDE DEF v
<1>3. Tells(t, v, items, c, p, FALSE)
  BY <1>1, <1>2, TellsMore
<1> QED BY <1>1, <1>2, <1>3 DEF Hears, Tells, Kept, v

\* The last event of a message.
LEMMA HearsText ==
  ASSUME NEW items, NEW c \in Nat \ {0}, Content("text", items, c), NEW t, NEW p, NEW open \in BOOLEAN,
         Contents(t, items, c, p, open), p = <<>> => open = TRUE
  PROVE  HearsEnd(t, StopBlock(IF Emitted(t, "text", c) THEN t ELSE Delta(EnsureStart(t), "text", c, Whole), "text", c),
                  items, c, p)
<1> DEFINE u == IF Emitted(t, "text", c) THEN t ELSE Delta(EnsureStart(t), "text", c, Whole)
<1>1. Emitted(t, "text", c) <=> p # <<>>
  BY EmittedIs
<1>2. CASE p = <<>>
  <2>1. u = Delta(EnsureStart(t), "text", c, Whole) /\ open = TRUE
    BY <1>1, <1>2
  <2>2. Hears(t, Delta(EnsureStart(t), "text", c, Whole), items, c, p \o Whole, TRUE)
    BY <2>1, HearsDelta, Parts
  <2>3. p \o Whole = Whole
    BY <1>2, Parts
  <2>4. Hears(t, u, items, c, Whole, TRUE)
    BY <2>1, <2>2, <2>3
  <2> HIDE DEF u
  <2>5. Hears(t, StopBlock(u, "text", c), items, c, Whole, FALSE)
    BY <2>4, HearsStop
  <2> QED BY <1>2, <2>5 DEF HearsEnd, u
<1>3. CASE p # <<>>
  <2>1. u = t /\ t.started
    BY <1>1, <1>3, HasContent
  <2>2. Hears(t, u, items, c, p, open)
    BY <2>1 DEF Hears, Tells, Kept
  <2> HIDE DEF u
  <2>3. Hears(t, StopBlock(u, "text", c), items, c, p, FALSE)
    BY <2>2, HearsStop
  <2> QED BY <1>3, <2>3 DEF HearsEnd, u
<1> QED BY <1>2, <1>3

\* The last event of a call.
LEMMA HearsCall ==
  ASSUME NEW items, NEW c \in Nat \ {0}, Content("tool", items, c), NEW t, NEW p, NEW open \in BOOLEAN,
         Contents(t, items, c, p, open), p = <<>> => open = TRUE
  PROVE  HearsEnd(t, StopBlock(DeltaOnce(EnsureBlock(EnsureStart(t), "tool", c), "tool", c, Whole), "tool", c),
                  items, c, p)
<1> DEFINE u == EnsureBlock(EnsureStart(t), "tool", c)
           v == DeltaOnce(u, "tool", c, Whole)
           q == IF p = <<>> THEN Whole ELSE p
<1>1. Hears(t, u, items, c, p, open)
  BY HearsBlock
<1> HIDE DEF u
<1>2. Contents(u, items, c, p, open) /\ u.started /\ Tells(t, u, items, c, p, open)
  BY <1>1 DEF Hears, Tells
<1>3. Tells(u, v, items, c, q, open)
  BY <1>2, TellsOnce
<1> HIDE DEF v, q
<1>4. Tells(t, v, items, c, q, open)
  BY <1>2, <1>3, TellsMore
<1>5. Hears(t, v, items, c, q, open)
  BY <1>2, <1>3, <1>4 DEF Hears, Tells, Kept
<1>6. Hears(t, StopBlock(v, "tool", c), items, c, q, FALSE)
  BY <1>5, HearsStop
<1> QED BY <1>6 DEF HearsEnd, u, v, q

\* An event of a message.
LEMMA MessageHears ==
  ASSUME NEW items, NEW c \in Nat \ {0}, items[c] = "message", NEW mode \in {"deltas", "finished"},
         NEW j \in Nat, j <= Len(MessageScript(c, mode)), NEW i \in After(MessageScript(c, mode), j),
         NEW t, Contents(t, items, c, TextTold(mode, j), TextOpen(mode, j)), NEW signed
  PROVE  Hears(t, ProcessItem(t, MessageScript(c, mode)[i], "message", signed),
               items, c, TextTold(mode, i), TextOpen(mode, i))
<1> DEFINE s == MessageScript(c, mode)
           e == s[i]
           p == TextTold(mode, j)
           u == ProcessItem(t, e, "message", signed)
           q == TextTold(mode, i)
           open == TextOpen(mode, i)
<1>0. Content("text", items, c)
  BY DEF Content, BlockKind
<1>1. TextOpen(mode, j) \in BOOLEAN /\ Contents(t, items, c, p, TextOpen(mode, j))
  BY DEF TextOpen
<1>2. CASE i = 1 /\ e.type = "added" /\ j = 0
  <2>1. u = EnsureStart(t)
    BY <1>2 DEF ProcessItem, ItemAdded
  <2>2. q = p /\ open = TextOpen(mode, j)
    BY <1>2 DEF TextTold, TextOpen
  <2> HIDE DEF u, p, q, open
  <2>3. Hears(t, u, items, c, q, open)
    BY <1>1, <2>1, <2>2, ContentsStarted
  <2> QED BY <2>3 DEF u, q, open
<1>3. CASE i = 2 /\ e.type = "part_added" /\ e.item = c /\ j \in 0 .. 1
  <2>1. u = EnsureBlock(EnsureStart(t), "text", c)
    BY <1>3 DEF ProcessItem, MessageEvent
  <2>2. q = p /\ open = TextOpen(mode, j) /\ open = TRUE
    BY <1>3 DEF TextTold, TextOpen
  <2> HIDE DEF u, p, q, open
  <2>3. Hears(t, u, items, c, q, open)
    BY <1>0, <1>1, <2>1, <2>2, HearsBlock
  <2> QED BY <2>3 DEF u, q, open
<1>4. CASE i \in {3, 4} /\ mode = "deltas" /\ e.type = "text_delta" /\ e.item = c
           /\ (i = 3 => e.pieces = <<1>> /\ j \in 0 .. 2) /\ (i = 4 => e.pieces = <<2>> /\ j = 3)
  <2>1. u = Delta(EnsureStart(t), "text", c, e.pieces)
    BY <1>4 DEF ProcessItem, MessageEvent
  <2>2. e.pieces \in Seq(Nat) /\ e.pieces # <<>> /\ q = p \o e.pieces
    <3>1. CASE i = 3
      <4>1. p = <<>> /\ q = <<1>> /\ e.pieces = <<1>>
        BY <1>4, <3>1 DEF TextTold
      <4>2. Part(0) \o <<1>> = Part(1) /\ Part(0) = <<>> /\ Part(1) = <<1>>
        BY Parts
      <4> QED BY <4>1, <4>2, Parts
    <3>2. CASE i = 4
      <4>1. p = <<1>> /\ q = Whole /\ e.pieces = <<2>>
        BY <1>4, <3>2 DEF TextTold
      <4>2. Part(1) \o <<2>> = Whole /\ Part(1) = <<1>>
        BY Parts
      <4> QED BY <4>1, <4>2, Parts
    <3> QED BY <1>4, <3>1, <3>2
  <2>3. TextOpen(mode, j) = TRUE /\ open = TRUE
    BY <1>4 DEF TextOpen
  <2> HIDE DEF u, p, q, open, e
  <2>4. Hears(t, u, items, c, q, open)
    BY <1>0, <1>1, <2>1, <2>2, <2>3, HearsDelta
  <2> QED BY <2>4 DEF u, q, open, e
<1>5. CASE /\ e.type \in {"part_done", "item_done"} /\ e.item = c /\ e.pieces = Whole
           /\ mode = "finished" => (i = 3 /\ j \in 0 .. 2) \/ (i = 4 /\ j \in 0 .. 3)
           /\ mode = "deltas" => (i = 5 /\ j = 4) \/ (i = 6 /\ j \in 4 .. 5)
  <2>1. u = StopBlock(IF Emitted(t, "text", c) THEN t ELSE Delta(EnsureStart(t), "text", c, Whole), "text", c)
    <3>1. CASE e.type = "part_done"
      BY <1>5, <3>1 DEF ProcessItem, MessageEvent
    <3>2. CASE e.type = "item_done"
      BY <1>5, <3>2 DEF ProcessItem, ItemDone
    <3> QED BY <1>5, <3>1, <3>2
  <2>2. open = FALSE /\ (p = <<>> => TextOpen(mode, j) = TRUE) /\ q = IF p = <<>> THEN Whole ELSE p
    <3>1. CASE mode = "finished"
      <4>1. p = IF j < 3 THEN <<>> ELSE Whole
        BY <3>1 DEF TextTold
      <4> QED BY <1>5, <3>1, <4>1, Parts DEF TextTold, TextOpen
    <3>2. CASE mode = "deltas"
      <4>1. p = Whole /\ q = Whole
        BY <1>5, <3>2 DEF TextTold
      <4>2. i \in {5, 6} /\ p # <<>>
        BY <1>5, <3>2, <4>1, Parts
      <4>3. open = FALSE
        BY <3>2, <4>2 DEF TextOpen
      <4> HIDE DEF p, q, open
      <4> QED BY <4>1, <4>2, <4>3
    <3> QED BY <3>1, <3>2
  <2> HIDE DEF u, p, q, open
  <2>3. HearsEnd(t, u, items, c, p)
    BY <1>0, <1>1, <2>1, <2>2, HearsText
  <2> QED BY <2>2, <2>3 DEF HearsEnd, u, q, open
<1>6. CASE mode = "deltas"
  <2>1. \/ i = 1 /\ May(s, j, i, "added", c, <<>>) /\ j = 0
        \/ i = 2 /\ May(s, j, i, "part_added", c, <<>>) /\ j \in 0 .. 1
        \/ i = 3 /\ May(s, j, i, "text_delta", c, <<1>>) /\ j \in 0 .. 2
        \/ i = 4 /\ May(s, j, i, "text_delta", c, <<2>>) /\ j = 3
        \/ i = 5 /\ May(s, j, i, "part_done", c, Whole) /\ j = 4
        \/ i = 6 /\ May(s, j, i, "item_done", c, Whole) /\ j \in 4 .. 5
    BY <1>6, MessageDeltas
  <2> QED BY <1>2, <1>3, <1>4, <1>5, <1>6, <2>1 DEF May
<1>7. CASE mode = "finished"
  <2>1. \/ i = 1 /\ May(s, j, i, "added", c, <<>>) /\ j = 0
        \/ i = 2 /\ May(s, j, i, "part_added", c, <<>>) /\ j \in 0 .. 1
        \/ i = 3 /\ May(s, j, i, "part_done", c, Whole) /\ j \in 0 .. 2
        \/ i = 4 /\ May(s, j, i, "item_done", c, Whole) /\ j \in 0 .. 3
    BY <1>7, MessageFinished
  <2> QED BY <1>2, <1>3, <1>5, <1>7, <2>1 DEF May
<1> QED BY <1>6, <1>7

\* An event of a call.
LEMMA CallHears ==
  ASSUME NEW items, NEW c \in Nat \ {0}, items[c] = "call", NEW mode \in {"deltas", "finished"},
         NEW j \in Nat, j <= Len(CallScript(c, mode)), NEW i \in After(CallScript(c, mode), j),
         NEW t, Contents(t, items, c, ArgsTold(mode, j), ArgsOpen(mode, j)), NEW signed
  PROVE  Hears(t, ProcessItem(t, CallScript(c, mode)[i], "call", signed),
               items, c, ArgsTold(mode, i), ArgsOpen(mode, i))
<1> DEFINE s == CallScript(c, mode)
           e == s[i]
           p == ArgsTold(mode, j)
           u == ProcessItem(t, e, "call", signed)
           q == ArgsTold(mode, i)
           open == ArgsOpen(mode, i)
<1>0. Content("tool", items, c)
  BY DEF Content, BlockKind
<1>1. ArgsOpen(mode, j) \in BOOLEAN /\ Contents(t, items, c, p, ArgsOpen(mode, j))
  BY DEF ArgsOpen
<1>2. CASE i = 1 /\ e.type = "added" /\ e.item = c /\ j = 0
  <2>1. u = EnsureBlock(EnsureStart(t), "tool", c)
    BY <1>2 DEF ProcessItem, ItemAdded
  <2>2. q = p /\ open = ArgsOpen(mode, j) /\ open = TRUE
    BY <1>2 DEF ArgsTold, ArgsOpen
  <2> HIDE DEF u, p, q, open
  <2>3. Hears(t, u, items, c, q, open)
    BY <1>0, <1>1, <2>1, <2>2, HearsBlock
  <2> QED BY <2>3 DEF u, q, open
<1>4. CASE i \in {2, 3} /\ mode = "deltas" /\ e.type = "args_delta" /\ e.item = c
           /\ (i = 2 => e.pieces = <<1>> /\ j = 1) /\ (i = 3 => e.pieces = <<2>> /\ j = 2)
  <2>1. u = Delta(EnsureStart(t), "tool", c, e.pieces)
    BY <1>4 DEF ProcessItem, CallEvent
  <2>2. e.pieces \in Seq(Nat) /\ e.pieces # <<>> /\ q = p \o e.pieces
    <3>1. CASE i = 2
      <4>1. p = <<>> /\ q = <<1>> /\ e.pieces = <<1>>
        BY <1>4, <3>1 DEF ArgsTold
      <4>2. Part(0) \o <<1>> = Part(1) /\ Part(0) = <<>> /\ Part(1) = <<1>>
        BY Parts
      <4> QED BY <4>1, <4>2, Parts
    <3>2. CASE i = 3
      <4>1. p = <<1>> /\ q = Whole /\ e.pieces = <<2>>
        BY <1>4, <3>2 DEF ArgsTold
      <4>2. Part(1) \o <<2>> = Whole /\ Part(1) = <<1>>
        BY Parts
      <4> QED BY <4>1, <4>2, Parts
    <3> QED BY <1>4, <3>1, <3>2
  <2>3. ArgsOpen(mode, j) = TRUE /\ open = TRUE
    BY <1>4 DEF ArgsOpen
  <2> HIDE DEF u, p, q, open, e
  <2>4. Hears(t, u, items, c, q, open)
    BY <1>0, <1>1, <2>1, <2>2, <2>3, HearsDelta
  <2> QED BY <2>4 DEF u, q, open, e
<1>5. CASE /\ e.type \in {"args_done", "item_done"} /\ e.item = c /\ e.pieces = Whole
           /\ mode = "finished" => (i = 2 /\ j = 1) \/ (i = 3 /\ j \in 1 .. 2)
           /\ mode = "deltas" => (i = 4 /\ j = 3) \/ (i = 5 /\ j \in 3 .. 4)
  <2>1. u = StopBlock(DeltaOnce(EnsureBlock(EnsureStart(t), "tool", c), "tool", c, Whole), "tool", c)
    <3>1. CASE e.type = "args_done"
      BY <1>5, <3>1 DEF ProcessItem, CallEvent
    <3>2. CASE e.type = "item_done"
      BY <1>5, <3>2 DEF ProcessItem, ItemDone
    <3> QED BY <1>5, <3>1, <3>2
  <2>2. open = FALSE /\ (p = <<>> => ArgsOpen(mode, j) = TRUE) /\ q = IF p = <<>> THEN Whole ELSE p
    <3>1. CASE mode = "finished"
      <4>1. p = IF j < 2 THEN <<>> ELSE Whole
        BY <3>1 DEF ArgsTold
      <4> QED BY <1>5, <3>1, <4>1, Parts DEF ArgsTold, ArgsOpen
    <3>2. CASE mode = "deltas"
      <4>1. p = Whole /\ q = Whole
        BY <1>5, <3>2 DEF ArgsTold
      <4>2. i \in {4, 5} /\ p # <<>>
        BY <1>5, <3>2, <4>1, Parts
      <4>3. open = FALSE
        BY <3>2, <4>2 DEF ArgsOpen
      <4> HIDE DEF p, q, open
      <4> QED BY <4>1, <4>2, <4>3
    <3> QED BY <3>1, <3>2
  <2> HIDE DEF u, p, q, open
  <2>3. HearsEnd(t, u, items, c, p)
    BY <1>0, <1>1, <2>1, <2>2, HearsCall
  <2> QED BY <2>2, <2>3 DEF HearsEnd, u, q, open
<1>6. CASE mode = "deltas"
  <2>1. \/ i = 1 /\ May(s, j, i, "added", c, <<>>) /\ j = 0
        \/ i = 2 /\ May(s, j, i, "args_delta", c, <<1>>) /\ j = 1
        \/ i = 3 /\ May(s, j, i, "args_delta", c, <<2>>) /\ j = 2
        \/ i = 4 /\ May(s, j, i, "args_done", c, Whole) /\ j = 3
        \/ i = 5 /\ May(s, j, i, "item_done", c, Whole) /\ j \in 3 .. 4
    BY <1>6, CallDeltas
  <2> QED BY <1>2, <1>4, <1>5, <1>6, <2>1 DEF May
<1>7. CASE mode = "finished"
  <2>1. \/ i = 1 /\ May(s, j, i, "added", c, <<>>) /\ j = 0
        \/ i = 2 /\ May(s, j, i, "args_done", c, Whole) /\ j = 1
        \/ i = 3 /\ May(s, j, i, "item_done", c, Whole) /\ j \in 1 .. 2
    BY <1>7, CallFinished
  <2> QED BY <1>2, <1>5, <1>7, <2>1 DEF May
<1> QED BY <1>6, <1>7

-------------------------------------------------------------------------------
(* Reasoning.                                                              *)

\* Reasoning item c is told, of which p came; nothing else is open.
Thinks(t, items, n, c, p) ==
  /\ Formed(t, items, n)
  /\ Read(t.out, c) = IF t.display = "summarized" THEN p ELSE <<>>
  /\ t.signature \in {NoItem, c} /\ (t.display = "off" => t.signature = NoItem)
  /\ t.thinking # 0 => t.out[t.thinking].item = c
  /\ \A i \in DOMAIN t.out : t.out[i].open => t.thinking = i

ThinksOn(t, u, items, n, c, p) == Thinks(u, items, n, c, p) /\ Kept(t, u, c)

Reasoning(items, n, c) == n \in Nat /\ c \in 1 .. n /\ items[c] = "reasoning"

\* No block changes.
Marks(t, u, c) ==
  /\ u \in Translators /\ u.out = t.out /\ u.display = t.display /\ u.ended = t.ended
  /\ u.reason = t.reason /\ u.completed = t.completed /\ u.thinking = t.thinking
  /\ t.started => u.started
  /\ u.signature \in {NoItem, c} /\ (u.display = "off" => u.signature = NoItem)

\* Nothing the client reads has changed.
LEMMA Marked ==
  ASSUME NEW t, NEW u, NEW items, NEW n, NEW c, NEW p, Thinks(t, items, n, c, p), Marks(t, u, c)
  PROVE  ThinksOn(t, u, items, n, c, p)
<1>1. Formed(u, items, n)
  BY DEF Thinks, Formed, Marks
<1> QED BY <1>1 DEF Thinks, Marks, ThinksOn, Kept

\* Two steps that tell reasoning.
LEMMA ThinksMore ==
  ASSUME NEW t, NEW u, NEW v, NEW items, NEW n, NEW c, NEW p, NEW q,
         ThinksOn(t, u, items, n, c, p), ThinksOn(u, v, items, n, c, q)
  PROVE  ThinksOn(t, v, items, n, c, q)
<1>1. Kept(t, v, c)
  BY KeptMore DEF ThinksOn
<1> QED BY <1>1 DEF ThinksOn

\* The display is on, and a thinking block is open.
Opened(t, u, items, n, c, p) ==
  /\ ThinksOn(t, u, items, n, c, p)
  /\ u.current = t.current /\ u.completed = t.completed /\ u.signature = t.signature
  /\ u.display # "off" => u.thinking # 0

\* A thinking block is opened unless one is open.
LEMMA Opens ==
  ASSUME NEW t, NEW items, NEW n, NEW c, NEW p, Reasoning(items, n, c), Thinks(t, items, n, c, p)
  PROVE  Opened(t, EnsureThinkingBlock(t, c), items, n, c, p)
<1> DEFINE u == EnsureThinkingBlock(t, c)
           b == Block("thinking", c)
<1>1. t \in Translators /\ Formed(t, items, n) /\ t.completed \subseteq 1 .. n /\ n \in Nat
      /\ c \in 1 .. n /\ items[c] = "reasoning" /\ c \in Nat
  BY DEF Thinks, Formed, Reasoning
<1>2. CASE t.display = "off" \/ t.thinking # 0
  <2>1. u = t
    BY <1>2 DEF EnsureThinkingBlock
  <2> QED BY <1>2, <2>1 DEF Opened, ThinksOn, Kept
<1>3. CASE t.display # "off" /\ t.thinking = 0
  <2>0. PICK yes \in BOOLEAN, no \in BOOLEAN : yes = TRUE /\ no = FALSE
    OBVIOUS
  <2>1. u = [t EXCEPT !.started = yes, !.out = Append(t.out, b), !.thinking = Len(t.out) + 1, !.pending = no]
    BY <1>1, <1>3, <2>0 DEF EnsureThinkingBlock, EnsureStart, Translators
  <2>2. b \in Blocks /\ b.item = c /\ b.open /\ b.kind = "thinking"
    BY <1>1, Parts DEF Block, Blocks, NoItem
  <2> HIDE DEF b, u
  <2>3. t.out \in Seq(Blocks) /\ Append(t.out, b) \in Seq(Blocks) /\ Len(t.out) \in Nat
    BY <1>1, <2>2, OutTyped
  <2>4. /\ u \in Translators /\ u.display = t.display /\ u.started /\ u.ended = t.ended
        /\ u.reason = t.reason /\ u.thinking = Len(t.out) + 1 /\ u.signature = t.signature
        /\ u.current = t.current /\ u.completed = t.completed /\ u.out = Append(t.out, b)
    <3> DEFINE o == Append(t.out, b)
               l == Len(t.out) + 1
    <3>1. o \in Seq(Blocks) /\ l \in Nat
      BY <2>3
    <3>2. u = [t EXCEPT !.started = yes, !.out = o, !.thinking = l, !.pending = no]
      BY <2>1
    <3> HIDE DEF o, l
    <3>3. /\ u \in Translators /\ u.display = t.display /\ u.started /\ u.ended = t.ended
          /\ u.reason = t.reason /\ u.thinking = l /\ u.signature = t.signature
          /\ u.current = t.current /\ u.completed = t.completed /\ u.out = o
      BY <1>1, <2>0, <3>1, <3>2 DEF Translators
    <3> QED BY <3>3 DEF o, l
  <2>5. \A i \in DOMAIN t.out : ~t.out[i].open
    BY <1>1, <1>3, OutTyped DEF Thinks
  <2>6. Adds(t, u, items, n, "thinking", c)
    BY <1>1, <1>3, <2>4, <2>5 DEF Adds, b, BlockKind
  <2>7. Reads(t, u, items, n)
    BY <1>1, <2>6, Added
  <2>8. /\ DOMAIN u.out = 1 .. Len(t.out) + 1 /\ u.out[Len(t.out) + 1] = b
        /\ \A i \in DOMAIN t.out : u.out[i] = t.out[i]
        /\ \A i \in DOMAIN u.out : i \in DOMAIN t.out \/ i = Len(t.out) + 1
    BY <2>2, <2>3, <2>4
  <2>9. \A i \in DOMAIN u.out : u.out[i].open => u.thinking = i
    BY <2>4, <2>5, <2>8
  <2>10. Thinks(u, items, n, c, p)
    BY <1>3, <2>2, <2>3, <2>4, <2>7, <2>8, <2>9 DEF Thinks, Reads
  <2>11. Kept(t, u, c)
    BY <2>4, <2>7 DEF Kept, Reads
  <2> QED BY <2>3, <2>4, <2>10, <2>11 DEF Opened, ThinksOn, u
<1> QED BY <1>2, <1>3

\* More of the summary.
Continues(t, u, items, n, c, p) ==
  /\ ThinksOn(t, u, items, n, c, p)
  /\ u.current = t.current /\ u.completed = t.completed /\ u.signature = t.signature
  /\ t.thinking # 0 \/ u.display = "summarized" => u.thinking # 0

\* A summary delta is read once, if summaries are wanted.
LEMMA ThinksDelta ==
  ASSUME NEW t, NEW items, NEW n, NEW c, NEW p, Reasoning(items, n, c), Thinks(t, items, n, c, p),
         NEW q \in Seq(Nat), q # <<>>
  PROVE  Continues(t, ThinkingDelta(t, c, q), items, n, c, p \o q)
<1> DEFINE u == EnsureThinkingBlock(t, c)
           i == u.thinking
           v == ThinkingDelta(t, c, q)
           b == [u.out[i] EXCEPT !.pieces = @ \o q]
<1>1. CASE t.display # "summarized"
  <2>1. v = t
    BY <1>1 DEF ThinkingDelta
  <2>2. Thinks(t, items, n, c, p \o q)
    BY <1>1 DEF Thinks
  <2> QED BY <1>1, <2>1, <2>2 DEF ThinksOn, Kept, Continues
<1>2. CASE t.display = "summarized"
  <2>1. Opened(t, u, items, n, c, p)
    BY Opens
  <2>2. v = [u EXCEPT !.out[u.thinking].pieces = @ \o q]
    BY <1>2 DEF ThinkingDelta
  <2> HIDE DEF u, v
  <2>3. /\ Thinks(u, items, n, c, p) /\ Kept(t, u, c) /\ u.display = "summarized" /\ i # 0
        /\ u.current = t.current /\ u.completed = t.completed /\ u.signature = t.signature
    BY <1>2, <2>1 DEF Opened, ThinksOn, Kept
  <2>4. u \in Translators /\ Formed(u, items, n) /\ u.completed \subseteq 1 .. n /\ Read(u.out, c) = p
        /\ n \in Nat /\ c \in Nat
    BY <2>3 DEF Thinks, Formed, Reasoning
  <2>5. i \in DOMAIN u.out /\ u.out[i].item = c /\ u.out[i].open
    <3>1. u.out \in Seq(Blocks) /\ i = Len(u.out) /\ i \in Nat /\ u.out[i].item = c /\ u.out[i].open
      BY <2>3, <2>4, OutTyped DEF Thinks, Formed
    <3> QED BY <2>3, <3>1
  <2>6. u.out[i] \in Blocks /\ u.started
    <3>1. u.out # <<>>
      BY <2>5
    <3> QED BY <2>4, <2>5, <3>1, OutTyped DEF Formed
  <2>7. /\ b \in Blocks /\ b.item = u.out[i].item /\ b.kind = u.out[i].kind /\ b.open = u.out[i].open
        /\ b.signature = u.out[i].signature /\ b.pieces = u.out[i].pieces \o q
    <3> DEFINE pq == u.out[i].pieces \o q
    <3>1. b = [u.out[i] EXCEPT !.pieces = pq] /\ pq \in Seq(Nat)
      BY <2>6 DEF Blocks
    <3> HIDE DEF pq, b
    <3>2. /\ b \in Blocks /\ b.item = u.out[i].item /\ b.kind = u.out[i].kind /\ b.open = u.out[i].open
          /\ b.signature = u.out[i].signature /\ b.pieces = pq
      BY <2>6, <3>1 DEF Blocks
    <3> QED BY <3>2 DEF pq
  <2>8. v = [u EXCEPT !.out = [u.out EXCEPT ![i] = b]]
    BY <2>2
  <2> HIDE DEF b
  <2>9. Replaced(u, v, i, b)
    BY <2>4, <2>5, <2>7, <2>8, Replaces
  <2>10. /\ v \in Translators /\ v.display = u.display /\ v.started /\ v.thinking = u.thinking
         /\ v.completed \subseteq 1 .. n /\ DOMAIN v.out = DOMAIN u.out
         /\ \A j \in DOMAIN u.out : j # i => v.out[j] = u.out[j]
         /\ v.out[i].item = u.out[i].item /\ v.out[i].kind = u.out[i].kind /\ v.out[i].open
         /\ v.out[i].signature = u.out[i].signature /\ v.out[i].pieces = u.out[i].pieces \o q
         /\ v.ended = u.ended /\ v.reason = u.reason /\ v.completed = u.completed /\ v.signature = u.signature
         /\ v.current = u.current
    BY <2>4, <2>5, <2>6, <2>7, <2>9, Zenon DEF Replaced
  <2>11. Grows(u, v, items, n, i, q)
    BY <2>4, <2>5, <2>10, Zenon DEF Grows
  <2>12. ReadsOn(u, v, items, n, u.out[i].item, q)
    BY <2>4, <2>11, Grown
  <2>13. Formed(v, items, n) /\ Read(v.out, c) = p \o q /\ \A m : m # c => Read(v.out, m) = Read(u.out, m)
    BY <2>4, <2>5, <2>12, Zenon DEF ReadsOn
  <2>14. \A j \in DOMAIN v.out : v.out[j].open => v.thinking = j
    <3> TAKE j \in DOMAIN v.out
    <3>1. CASE j = i
      BY <2>10, <3>1
    <3>2. CASE j # i
      BY <2>3, <2>10, <3>2 DEF Thinks
    <3> QED BY <3>1, <3>2
  <2>15. Thinks(v, items, n, c, p \o q)
    BY <2>3, <2>5, <2>10, <2>13, <2>14 DEF Thinks
  <2>16. Kept(u, v, c)
    BY <2>10, <2>13 DEF Kept
  <2>17. ThinksOn(t, v, items, n, c, p \o q)
    BY <2>3, <2>15, <2>16, KeptMore DEF ThinksOn
  <2> QED BY <2>3, <2>10, <2>17 DEF v, Continues
<1> QED BY <1>1, <1>2

\* The thinking block is closed.
Closed(t, u, items, n, c, p, clear) ==
  /\ ThinksOn(t, u, items, n, c, p)
  /\ u.thinking = 0 /\ u.completed = t.completed \cup {c}
  /\ u.current = IF clear THEN NoItem ELSE c
  /\ clear => u.signature = NoItem

\* The thinking block is closed, with the signature of its item.
LEMMA Closes ==
  ASSUME NEW t, NEW items, NEW n, NEW c, NEW p, Reasoning(items, n, c), Thinks(t, items, n, c, p),
         t.thinking # 0, t.current = c, NEW clear \in BOOLEAN
  PROVE  Closed(t, FinalizeThinking(t, clear), items, n, c, p, clear)
<1> DEFINE u == FinalizeThinking(t, clear)
           i == t.thinking
           b == [t.out[i] EXCEPT !.signature = t.signature, !.open = FALSE]
           s == IF clear THEN NoItem ELSE t.signature
           d == IF clear THEN NoItem ELSE c
           all == t.completed \cup {c}
<1>1. t \in Translators /\ Formed(t, items, n) /\ t.completed \subseteq 1 .. n /\ n \in Nat
      /\ c \in 1 .. n /\ c \in Nat /\ c # NoItem /\ t.signature \in {NoItem, c}
  BY DEF Thinks, Formed, Reasoning, NoItem
<1>2. i \in DOMAIN t.out /\ t.out[i].item = c /\ t.out[i].open /\ t.out[i].kind = "thinking" /\ i = Len(t.out)
  <2>1. t.out \in Seq(Blocks) /\ i = Len(t.out) /\ i \in Nat /\ t.out[i].item = c /\ t.out[i].open
        /\ t.out[i].kind = "thinking"
    BY <1>1, OutTyped DEF Thinks, Formed
  <2> QED BY <2>1
<1>3. t.display # "off" /\ t.started /\ t.out[i] \in Blocks
  <2>1. t.out # <<>>
    BY <1>2
  <2> QED BY <1>1, <1>2, <2>1, OutTyped DEF Formed
<1>4. PICK no \in BOOLEAN : no = FALSE
  OBVIOUS
<1>5. u = [t EXCEPT !.out = [t.out EXCEPT ![i] = b], !.completed = all, !.thinking = 0, !.pending = no,
                    !.signature = s, !.current = d]
  <2>1. u = [t EXCEPT !.out[i].signature = t.signature, !.out[i].open = FALSE,
                     !.completed = IF t.current = NoItem THEN @ ELSE @ \cup {t.current},
                     !.thinking = 0, !.pending = FALSE,
                     !.signature = IF clear THEN NoItem ELSE @,
                     !.current = IF clear THEN NoItem ELSE @]
    BY <1>3 DEF FinalizeThinking
  <2>2. [[t.out EXCEPT ![i].signature = t.signature] EXCEPT ![i].open = FALSE] = [t.out EXCEPT ![i] = b]
    BY <1>2
  <2>3. [t EXCEPT !.out[i].signature = t.signature, !.out[i].open = FALSE].out = [t.out EXCEPT ![i] = b]
    BY <1>1, <1>2, <2>2 DEF Translators
  <2> QED BY <1>1, <1>4, <2>1, <2>3 DEF Translators
<1>6. /\ b \in Blocks /\ b.item = t.out[i].item /\ b.kind = t.out[i].kind /\ ~b.open
      /\ b.signature = t.signature /\ b.pieces = t.out[i].pieces
  <2>1. b = [t.out[i] EXCEPT !.signature = t.signature, !.open = no]
    BY <1>4
  <2>2. t.signature \in Nat
    BY <1>1 DEF NoItem
  <2> QED BY <1>3, <1>4, <2>1, <2>2 DEF Blocks
<1>7. s \in {NoItem, c} /\ d \in Nat /\ all \in SUBSET Nat /\ s \in Nat /\ all \subseteq 1 .. n /\ (clear => s = NoItem)
  <2>1. 1 .. n \subseteq Nat
    OBVIOUS
  <2> QED BY <1>1, <2>1 DEF NoItem
<1> DEFINE o == [t.out EXCEPT ![i] = b]
<1>8. o \in Seq(Blocks) /\ DOMAIN o = DOMAIN t.out /\ o[i] = b /\ \A j \in DOMAIN t.out : j # i => o[j] = t.out[j]
  <2>1. t.out \in Seq(Blocks)
    BY <1>1, OutTyped
  <2> HIDE DEF b
  <2> QED BY <1>2, <1>6, <2>1, ExceptSeq, OutTyped
<1>9. u = [t EXCEPT !.out = o, !.completed = all, !.thinking = 0, !.pending = no, !.signature = s, !.current = d]
  BY <1>5
<1> HIDE DEF u, b, s, all, o, d
<1>10. /\ u \in Translators /\ u.display = t.display /\ u.started = t.started /\ u.ended = t.ended
       /\ u.reason = t.reason /\ u.thinking = 0 /\ u.signature = s
       /\ u.current = d /\ u.completed = all /\ u.out = o
  BY <1>1, <1>7, <1>8, <1>9 DEF Translators
<1>11. \A j \in DOMAIN t.out :
         /\ u.out[j].item = t.out[j].item /\ u.out[j].kind = t.out[j].kind
         /\ u.out[j].pieces = t.out[j].pieces
         /\ u.out[j].open => t.out[j].open
         /\ u.out[j].signature \in {NoItem, u.out[j].item}
  <2> TAKE j \in DOMAIN t.out
  <2>1. CASE j = i
    BY <1>1, <1>2, <1>6, <1>8, <1>10, <2>1
  <2>2. CASE j # i
    BY <1>1, <1>8, <1>10, <2>2 DEF Formed
  <2> QED BY <2>1, <2>2
<1>12. \A j \in DOMAIN t.out : ~u.out[j].open
  <2> TAKE j \in DOMAIN t.out
  <2>1. CASE j = i
    BY <1>6, <1>8, <1>10, <2>1
  <2>2. CASE j # i
    <3>1. ~t.out[j].open
      BY <2>2 DEF Thinks
    <3> QED BY <1>8, <1>10, <2>2, <3>1
  <2> QED BY <2>1, <2>2
<1>13. Rewrites(t, u, items, n)
  BY <1>1, <1>3, <1>7, <1>8, <1>10, <1>11, <1>12 DEF Rewrites
<1>14. Reads(t, u, items, n)
  BY <1>1, <1>13, Rewritten
<1>15. Thinks(u, items, n, c, p)
  <2>1. Read(u.out, c) = IF u.display = "summarized" THEN p ELSE <<>>
    BY <1>10, <1>14 DEF Thinks, Reads
  <2>2. \A j \in DOMAIN u.out : u.out[j].open => u.thinking = j
    BY <1>8, <1>10, <1>12
  <2> QED BY <1>3, <1>7, <1>10, <1>14, <2>1, <2>2 DEF Thinks, Reads
<1>16. Kept(t, u, c)
  BY <1>10, <1>14 DEF Kept, Reads, all
<1> QED BY <1>7, <1>10, <1>15, <1>16 DEF Closed, ThinksOn, u, s, all, d

\* Item c is told, in a block if there are any.
Begun(t, c) == t.current = c /\ (t.display # "off" => t.thinking # 0)
Begins(t, u, items, n, c, p) == ThinksOn(t, u, items, n, c, p) /\ Begun(u, c)

\* A part of the summary is begun, after the block of the last one is closed.
LEMMA StartsPart ==
  ASSUME NEW t, NEW items, NEW n, NEW c, NEW p, Reasoning(items, n, c), Thinks(t, items, n, c, p),
         t.current = c
  PROVE  Begins(t, StartThinkingPart(t, c), items, n, c, p)
<1> DEFINE u == IF t.thinking # 0 /\ t.pending THEN FinalizeThinking(t, FALSE) ELSE t
           v == [u EXCEPT !.current = c]
           w == StartThinkingPart(t, c)
<1>1. CASE t.display = "off"
  <2>1. w = t
    BY <1>1 DEF StartThinkingPart
  <2> QED BY <1>1, <2>1 DEF ThinksOn, Kept, Begins, Begun
<1>2. CASE t.display # "off"
  <2>1. w = EnsureThinkingBlock(v, c)
    BY <1>2 DEF StartThinkingPart
  <2>2. ThinksOn(t, u, items, n, c, p)
    <3>1. CASE t.thinking # 0 /\ t.pending
      <4>1. PICK no \in BOOLEAN : no = FALSE
        OBVIOUS
      <4>2. Closed(t, FinalizeThinking(t, no), items, n, c, p, no)
        BY <3>1, Closes
      <4>3. u = FinalizeThinking(t, no)
        BY <3>1, <4>1
      <4> QED BY <4>2, <4>3 DEF Closed
    <3>2. CASE ~(t.thinking # 0 /\ t.pending)
      BY <3>2 DEF ThinksOn, Kept
    <3> QED BY <3>1, <3>2
  <2> HIDE DEF u
  <2>3. u \in Translators /\ c \in Nat /\ Thinks(u, items, n, c, p)
    BY <2>2 DEF ThinksOn, Thinks, Formed, Reasoning
  <2>4. Marks(u, v, c) /\ v.current = c
    BY <2>3 DEF Marks, Translators, Thinks
  <2> HIDE DEF v, w
  <2>5. ThinksOn(u, v, items, n, c, p)
    BY <2>3, <2>4, Marked
  <2>6. Opened(v, w, items, n, c, p)
    BY <2>1, <2>5, Opens DEF ThinksOn
  <2>7. ThinksOn(t, v, items, n, c, p)
    BY <2>2, <2>5, ThinksMore
  <2>8. ThinksOn(t, w, items, n, c, p)
    BY <2>6, <2>7, ThinksMore DEF Opened
  <2> QED BY <2>4, <2>6, <2>8 DEF Opened, w, Begins, Begun
<1> QED BY <1>1, <1>2

\* Reasoning was told to its end.
Settled(t, u, items, n, c) ==
  /\ ThinksOn(t, u, items, n, c, Whole)
  /\ Rests(u)
  /\ u.display = "summarized" => c \in u.completed

\* With no thinking block and no signature nothing is open.
LEMMA RestsThinking ==
  ASSUME NEW t, NEW items, NEW n, NEW c, NEW p, Thinks(t, items, n, c, p),
         t.thinking = 0, t.signature = NoItem
  PROVE  Rests(t)
<1>1. t \in Translators
  BY DEF Thinks, Formed
<1>2. DOMAIN t.out = 1 .. Len(t.out)
  BY <1>1, OutTyped
<1> QED BY <1>2 DEF Thinks, Rests

\* The block is closed for good.
LEMMA Settles ==
  ASSUME NEW t, NEW items, NEW n, NEW c, NEW p, p = Whole \/ t.display # "summarized",
         Reasoning(items, n, c), Thinks(t, items, n, c, p), t.thinking # 0, t.current = c
  PROVE  Settled(t, FinalizeThinking(t, TRUE), items, n, c)
<1> DEFINE u == FinalizeThinking(t, TRUE)
<1>1. Closed(t, u, items, n, c, p, TRUE)
  BY Closes
<1> HIDE DEF u
<1>2. /\ ThinksOn(t, u, items, n, c, p) /\ u.thinking = 0 /\ c \in u.completed /\ u.signature = NoItem
      /\ Thinks(u, items, n, c, p) /\ Kept(t, u, c) /\ u.display = t.display
  BY <1>1 DEF Closed, ThinksOn, Kept
<1>3. Thinks(u, items, n, c, Whole)
  BY <1>2 DEF Thinks
<1> QED BY <1>2, <1>3, RestsThinking DEF Settled, ThinksOn, u

Unsettled(t, items, n, c) ==
  /\ Thinks(t, items, n, c, <<>>) /\ t.thinking = 0
  /\ c \in t.completed => t.signature = NoItem /\ t.display # "summarized"

\* Reasoning that no delta brought is written whole.
LEMMA EmitsReasoning ==
  ASSUME NEW t, NEW items, NEW n, NEW c, Reasoning(items, n, c), Unsettled(t, items, n, c), NEW signed
  PROVE  Settled(t, EmitFinalReasoningItem(t, c, Whole, signed), items, n, c)
<1> DEFINE summary == IF t.display = "omitted" THEN <<>> ELSE Whole
           signature == IF signed THEN c ELSE t.signature
           m == [t EXCEPT !.current = c, !.signature = signature]
           o == EnsureThinkingBlock(m, c)
           d == ThinkingDelta(o, c, summary)
           v == EmitFinalReasoningItem(t, c, Whole, signed)
<1>1. /\ Thinks(t, items, n, c, <<>>) /\ t.thinking = 0 /\ t \in Translators /\ c \in Nat /\ c # NoItem
      /\ t.signature \in {NoItem, c} /\ Formed(t, items, n)
  BY DEF Unsettled, Thinks, Formed, Reasoning, NoItem
<1>2. CASE t.display = "off" \/ c \in t.completed \/ (summary = <<>> /\ signature = NoItem)
  <2>1. v = t
    BY <1>2 DEF EmitFinalReasoningItem
  <2>2. t.display # "summarized" /\ t.signature = NoItem
    <3>1. CASE t.display = "off"
      BY <1>1, <3>1 DEF Thinks
    <3>2. CASE c \in t.completed
      BY <3>2 DEF Unsettled
    <3>3. CASE summary = <<>> /\ signature = NoItem
      BY <1>1, <3>3, Parts
    <3> QED BY <1>2, <3>1, <3>2, <3>3
  <2>3. Thinks(t, items, n, c, Whole)
    BY <1>1, <2>2 DEF Thinks
  <2>4. Rests(t)
    BY <1>1, <2>2, RestsThinking
  <2> QED BY <2>1, <2>2, <2>3, <2>4 DEF Settled, ThinksOn, Kept
<1>3. CASE ~(t.display = "off" \/ c \in t.completed \/ (summary = <<>> /\ signature = NoItem))
  <2>1. v = FinalizeThinking(d, TRUE)
    BY <1>3 DEF EmitFinalReasoningItem
  <2>2. signature \in {NoItem, c}
    BY <1>1
  <2> HIDE DEF signature, v
  <2>3. Marks(t, m, c) /\ m.current = c /\ m.display = t.display /\ m.display # "off"
    BY <1>1, <1>3, <2>2 DEF Marks, Translators, NoItem
  <2> HIDE DEF m
  <2>4. ThinksOn(t, m, items, n, c, <<>>)
    BY <1>1, <2>3, Marked
  <2>5. Opened(m, o, items, n, c, <<>>)
    BY <2>4, Opens DEF ThinksOn
  <2> HIDE DEF o
  <2>6. /\ ThinksOn(m, o, items, n, c, <<>>) /\ Thinks(o, items, n, c, <<>>) /\ o.current = c /\ o.thinking # 0
        /\ o.display = t.display
    BY <2>3, <2>5 DEF Opened, ThinksOn, Kept
  <2>7. ThinksOn(o, d, items, n, c, Whole) /\ d.current = c /\ d.thinking # 0
    <3>1. CASE t.display = "omitted"
      <4>1. d = o
        BY <2>6, <3>1 DEF ThinkingDelta
      <4>2. Thinks(o, items, n, c, Whole)
        BY <2>6, <3>1 DEF Thinks
      <4> QED BY <2>6, <4>1, <4>2 DEF ThinksOn, Kept
    <3>2. CASE t.display # "omitted"
      <4>1. d = ThinkingDelta(o, c, Whole)
        BY <3>2
      <4>2. Continues(o, ThinkingDelta(o, c, Whole), items, n, c, <<>> \o Whole)
        BY <2>6, ThinksDelta, Parts
      <4>3. <<>> \o Whole = Whole
        BY Parts
      <4> QED BY <2>6, <4>1, <4>2, <4>3 DEF Continues
    <3> QED BY <3>1, <3>2
  <2> HIDE DEF d
  <2>8. Settled(d, v, items, n, c)
    BY <2>1, <2>7, Settles DEF ThinksOn
  <2>9. Kept(t, v, c)
    <3>1. Kept(t, o, c)
      BY <2>4, <2>6, KeptMore DEF ThinksOn
    <3>2. Kept(t, d, c)
      BY <2>7, <3>1, KeptMore DEF ThinksOn
    <3> QED BY <2>8, <3>2, KeptMore DEF Settled, ThinksOn
  <2> QED BY <2>8, <2>9 DEF Settled, ThinksOn, v
<1> QED BY <1>2, <1>3

Announced(t, c) == t.current = c /\ t.thinking = 0 /\ c \notin t.completed

\* What was told of reasoning once its first j events came, and its last event.
ReasoningTold(mode, parts, j) ==
  IF j < (IF mode = "finished" THEN 2 ELSE 3) THEN <<>>
  ELSE IF mode = "deltas" /\ j < (IF parts = 1 THEN 4 ELSE 6) THEN <<1>> ELSE Whole
ReasoningLast(mode, parts) == IF mode = "finished" THEN 2 ELSE IF parts = 1 THEN 6 ELSE 8

AtThinking(t, items, c, mode, parts, j) ==
  /\ Thinks(t, items, c, c, ReasoningTold(mode, parts, j))
  /\ j = 1 => Announced(t, c)
  /\ j > 1 /\ j < ReasoningLast(mode, parts) => Begun(t, c)
  /\ j = ReasoningLast(mode, parts) => Rests(t) /\ (t.display = "summarized" => c \in t.completed)

\* message_start changes no thinking.
LEMMA StartThinks ==
  ASSUME NEW t, NEW items, NEW n, NEW c, NEW p, Thinks(t, items, n, c, p)
  PROVE  LET u == EnsureStart(t) IN
         ThinksOn(t, u, items, n, c, p) /\ u.started /\ u.current = t.current /\ u.thinking = t.thinking
         /\ u.display = t.display /\ u.completed = t.completed
<1> DEFINE u == EnsureStart(t)
<1>1. t \in Translators
  BY DEF Thinks, Formed
<1>2. /\ u.started /\ u.current = t.current /\ u.thinking = t.thinking
      /\ u.display = t.display /\ u.completed = t.completed /\ Marks(t, u, c)
  BY <1>1 DEF EnsureStart, Translators, Marks, Thinks
<1> HIDE DEF u
<1>3. ThinksOn(t, u, items, n, c, p)
  BY <1>2, Marked
<1> QED BY <1>2, <1>3 DEF u

\* The signature is kept for the block.
Captured(t, u, items, n, c, p) ==
  /\ ThinksOn(t, u, items, n, c, p) /\ u.current = c
  /\ u.thinking = t.thinking /\ u.completed = t.completed /\ u.started = t.started /\ u.display = t.display

\* A signature is kept for the item it came with.
LEMMA Captures ==
  ASSUME NEW t, NEW items, NEW n, NEW c, NEW p, Reasoning(items, n, c), Thinks(t, items, n, c, p), NEW signed
  PROVE  Captured(t, CaptureThinkingSignature([t EXCEPT !.current = c], c, signed), items, n, c, p)
<1> DEFINE v == [t EXCEPT !.current = c]
           u == CaptureThinkingSignature(v, c, signed)
<1>1. t \in Translators /\ c \in Nat
  BY DEF Thinks, Formed, Reasoning
<1>2. /\ v \in Translators /\ v.out = t.out /\ v.display = t.display /\ v.ended = t.ended /\ v.current = c
      /\ v.reason = t.reason /\ v.completed = t.completed /\ v.thinking = t.thinking /\ v.started = t.started
      /\ v.signature = t.signature
  BY <1>1 DEF Translators
<1> HIDE DEF v
<1>3. /\ Marks(t, u, c) /\ u.current = c /\ u.thinking = t.thinking /\ u.completed = t.completed
      /\ u.started = t.started /\ u.display = t.display
  <2>1. CASE v.display = "off" \/ ~signed
    <3>1. u = v
      BY <2>1 DEF CaptureThinkingSignature
    <3> QED BY <1>2, <3>1 DEF Marks, Thinks
  <2>2. CASE ~(v.display = "off" \/ ~signed)
    <3>1. u = [v EXCEPT !.current = c, !.signature = c]
      BY <2>2 DEF CaptureThinkingSignature
    <3> QED BY <1>1, <1>2, <2>2, <3>1 DEF Marks, Translators
  <2> QED BY <2>1, <2>2
<1> HIDE DEF u
<1>4. ThinksOn(t, u, items, n, c, p)
  BY <1>3, Marked
<1> QED BY <1>3, <1>4 DEF u, v, Captured

\* The first event of reasoning.
LEMMA Announces ==
  ASSUME NEW t, NEW items, NEW c \in Nat \ {0}, items[c] = "reasoning", Thinks(t, items, c, c, <<>>),
         t.thinking = 0, c \notin t.completed, NEW signed, NEW mode, NEW parts, NEW e,
         e.type = "added", e.item = c
  PROVE  LET u == ProcessItem(t, e, "reasoning", signed) IN
         AtThinking(u, items, c, mode, parts, 1) /\ Kept(t, u, c) /\ u.started
<1> DEFINE v == EnsureStart(t)
           u == CaptureThinkingSignature([v EXCEPT !.current = c], c, signed)
<1>1. ProcessItem(t, e, "reasoning", signed) = u
  BY DEF ProcessItem, ItemAdded
<1>2. /\ ThinksOn(t, v, items, c, c, <<>>) /\ v.started /\ v.thinking = 0 /\ c \notin v.completed
      /\ Thinks(v, items, c, c, <<>>)
  BY StartThinks DEF ThinksOn
<1> HIDE DEF v
<1>3. Reasoning(items, c, c)
  BY DEF Reasoning
<1>4. Captured(v, u, items, c, c, <<>>)
  BY <1>2, <1>3, Captures
<1> HIDE DEF u
<1>5. ThinksOn(t, u, items, c, c, <<>>)
  BY <1>2, <1>4, ThinksMore DEF Captured
<1>6. ReasoningTold(mode, parts, 1) = <<>> /\ 1 # ReasoningLast(mode, parts) /\ ~(1 > 1)
  BY DEF ReasoningTold, ReasoningLast
<1>7. Announced(u, c) /\ u.started /\ Thinks(u, items, c, c, <<>>) /\ Kept(t, u, c)
  BY <1>2, <1>4, <1>5 DEF Announced, Captured, ThinksOn
<1>8. AtThinking(u, items, c, mode, parts, 1)
  BY <1>6, <1>7 DEF AtThinking
<1> QED BY <1>1, <1>7, <1>8

\* A part begins, more of it comes, and it is done.
LEMMA ThinksEvent ==
  ASSUME NEW t, NEW items, NEW c, Reasoning(items, c, c), NEW p, Thinks(t, items, c, c, p),
         t.current = c, NEW e, e.item = c, NEW q \in Seq(Nat),
         \/ e.type = "summary_added" /\ q = p
         \/ e.type = "summary_delta" /\ e.pieces \in Seq(Nat) /\ e.pieces # <<>> /\ q = p \o e.pieces
         \/ e.type = "summary_done" /\ q = p /\ Begun(t, c),
         NEW signed
  PROVE  Begins(t, ProcessItem(t, e, "reasoning", signed), items, c, c, q)
<1> DEFINE v == EnsureStart(t)
           u == ProcessItem(t, e, "reasoning", signed)
<1>1. ThinksOn(t, v, items, c, c, p) /\ v.current = c /\ Thinks(v, items, c, c, p)
  BY StartThinks DEF ThinksOn
<1>2. CASE e.type = "summary_added"
  <2>1. u = StartThinkingPart(v, c) /\ q = p
    BY <1>2 DEF ProcessItem, ReasoningEvent
  <2> HIDE DEF u, v
  <2>2. Begins(v, u, items, c, c, p)
    BY <1>1, <2>1, StartsPart
  <2>3. ThinksOn(t, u, items, c, c, p)
    BY <1>1, <2>2, ThinksMore DEF Begins
  <2> QED BY <2>1, <2>2, <2>3 DEF Begins, u
<1>3. CASE e.type = "summary_delta"
  <2> DEFINE w == IF v.thinking = 0 THEN StartThinkingPart(v, c) ELSE v
             r == e.pieces
  <2>1. u = ThinkingDelta(w, c, r)
    BY <1>3 DEF ProcessItem, ReasoningEvent
  <2>2. r \in Seq(Nat) /\ r # <<>> /\ q = p \o r
    BY <1>3
  <2> HIDE DEF u, v, r
  <2>3. Begins(v, w, items, c, c, p)
    <3>1. CASE v.thinking = 0
      BY <1>1, <3>1, StartsPart
    <3>2. CASE v.thinking # 0
      BY <1>1, <3>2 DEF Begins, Begun, ThinksOn, Kept
    <3> QED BY <3>1, <3>2
  <2> HIDE DEF w
  <2>4. ThinksOn(v, w, items, c, c, p) /\ Thinks(w, items, c, c, p) /\ Begun(w, c)
    BY <2>3 DEF Begins, ThinksOn
  <2>5. Continues(w, u, items, c, c, p \o r)
    BY <2>1, <2>2, <2>4, ThinksDelta
  <2>6. ThinksOn(t, w, items, c, c, p)
    BY <1>1, <2>4, ThinksMore
  <2>7. ThinksOn(t, u, items, c, c, p \o r)
    BY <2>5, <2>6, ThinksMore DEF Continues
  <2>8. u.display = w.display
    BY <2>5 DEF Continues, ThinksOn, Kept
  <2>9. Begun(u, c)
    BY <2>4, <2>5, <2>8 DEF Continues, Begun
  <2> QED BY <2>2, <2>7, <2>9 DEF Begins, u
<1>4. CASE e.type = "summary_done"
  <2>1. u = [t EXCEPT !.pending = TRUE] /\ q = p /\ Begun(t, c)
    BY <1>4 DEF ProcessItem, ReasoningEvent
  <2>2. PICK yes \in BOOLEAN : yes = TRUE
    OBVIOUS
  <2>3. u = [t EXCEPT !.pending = yes]
    BY <2>1, <2>2
  <2> HIDE DEF u
  <2>4. Marks(t, u, c) /\ Begun(u, c)
    <3>1. t \in Translators /\ t.signature \in {NoItem, c} /\ (t.display = "off" => t.signature = NoItem)
      BY DEF Thinks, Formed
    <3>2. /\ u \in Translators /\ u.out = t.out /\ u.display = t.display /\ u.ended = t.ended
          /\ u.reason = t.reason /\ u.completed = t.completed /\ u.thinking = t.thinking
          /\ u.started = t.started /\ u.signature = t.signature /\ u.current = t.current
      BY <2>2, <2>3, <3>1 DEF Translators
    <3> QED BY <2>1, <3>1, <3>2 DEF Marks, Begun
  <2>5. ThinksOn(t, u, items, c, c, p)
    BY <2>4, Marked
  <2> QED BY <2>1, <2>4, <2>5 DEF Begins, u
<1> QED BY <1>2, <1>3, <1>4

\* The item is done: its block is closed, or written if nothing of it came.
LEMMA ThinksDone ==
  ASSUME NEW t, NEW items, NEW c, Reasoning(items, c, c), NEW p, Thinks(t, items, c, c, p),
         \/ p = Whole /\ Begun(t, c)
         \/ p = <<>> /\ Announced(t, c),
         NEW e, e.item = c, e.type = "item_done", NEW signed
  PROVE  Settled(t, ProcessItem(t, e, "reasoning", signed), items, c, c)
<1> DEFINE v == CaptureThinkingSignature([t EXCEPT !.current = c], c, signed)
           u == IF v.thinking = 0 THEN EmitFinalReasoningItem(v, c, Whole, signed) ELSE FinalizeThinking(v, TRUE)
<1>1. ProcessItem(t, e, "reasoning", signed) = u
  BY DEF ProcessItem, ItemDone
<1>2. /\ ThinksOn(t, v, items, c, c, p) /\ v.current = c /\ v.thinking = t.thinking /\ v.completed = t.completed
      /\ v.display = t.display /\ Thinks(v, items, c, c, p)
  <2>1. Captured(t, v, items, c, c, p)
    BY Captures
  <2> QED BY <2>1 DEF Captured, ThinksOn
<1> HIDE DEF v
<1>3. Settled(v, u, items, c, c)
  <2>1. CASE p = <<>> /\ Announced(t, c)
    <3>1. v.thinking = 0 /\ c \notin v.completed
      BY <1>2, <2>1 DEF Announced
    <3>2. Unsettled(v, items, c, c)
      BY <1>2, <2>1, <3>1 DEF Unsettled
    <3> QED BY <3>1, <3>2, EmitsReasoning
  <2>2. CASE p = Whole /\ Begun(t, c) /\ t.display # "off"
    <3>1. v.thinking # 0
      BY <1>2, <2>2 DEF Begun
    <3>2. Settled(v, FinalizeThinking(v, TRUE), items, c, c)
      BY <1>2, <2>2, <3>1, Settles
    <3> QED BY <3>1, <3>2
  <2>3. CASE p = Whole /\ t.display = "off"
    <3>1. v.thinking = 0 /\ v.signature = NoItem
      BY <1>2, <2>3, OutTyped DEF Thinks, Formed
    <3>2. EmitFinalReasoningItem(v, c, Whole, signed) = v
      BY <1>2, <2>3 DEF EmitFinalReasoningItem
    <3>3. Rests(v)
      BY <1>2, <3>1, RestsThinking
    <3> QED BY <1>2, <2>3, <3>1, <3>2, <3>3 DEF Settled, ThinksOn, Kept
  <2> QED BY <2>1, <2>2, <2>3
<1> HIDE DEF u
<1>4. Kept(t, u, c)
  BY <1>2, <1>3, KeptMore DEF ThinksOn, Settled
<1> QED BY <1>1, <1>3, <1>4 DEF Settled, ThinksOn

ThinkingOn(t, u, items, c, mode, parts, i) ==
  AtThinking(u, items, c, mode, parts, i) /\ Kept(t, u, c) /\ u.started

\* An event of reasoning between its first and its last.
LEMMA ReasoningGoesOn ==
  ASSUME NEW t, NEW items, NEW c, Reasoning(items, c, c), NEW mode, NEW parts, NEW j \in Nat, NEW i \in Nat,
         AtThinking(t, items, c, mode, parts, j), t.started, j > 0, j < ReasoningLast(mode, parts),
         i > 1, i < ReasoningLast(mode, parts), NEW e, e.item = c,
         \/ /\ e.type = "summary_added" \/ (e.type = "summary_done" /\ j > 1)
            /\ ReasoningTold(mode, parts, i) = ReasoningTold(mode, parts, j)
         \/ /\ e.type = "summary_delta" /\ e.pieces \in Seq(Nat) /\ e.pieces # <<>>
            /\ ReasoningTold(mode, parts, i) = ReasoningTold(mode, parts, j) \o e.pieces,
         NEW signed
  PROVE  ThinkingOn(t, ProcessItem(t, e, "reasoning", signed), items, c, mode, parts, i)
<1> DEFINE u == ProcessItem(t, e, "reasoning", signed)
           p == ReasoningTold(mode, parts, j)
           q == ReasoningTold(mode, parts, i)
<1>1. p \in Seq(Nat) /\ q \in Seq(Nat)
  BY Parts DEF ReasoningTold
<1>2. /\ Thinks(t, items, c, c, p) /\ t.current = c /\ (j > 1 => Begun(t, c))
  BY DEF AtThinking, Announced, Begun
<1> HIDE DEF p, q
<1>3. \/ e.type = "summary_added" /\ q = p
      \/ e.type = "summary_delta" /\ e.pieces \in Seq(Nat) /\ e.pieces # <<>> /\ q = p \o e.pieces
      \/ e.type = "summary_done" /\ q = p /\ Begun(t, c)
  BY <1>2 DEF p, q
<1>4. Begins(t, u, items, c, c, q)
  BY <1>1, <1>2, <1>3, ThinksEvent
<1> HIDE DEF u
<1>5. AtThinking(u, items, c, mode, parts, i)
  BY <1>4 DEF AtThinking, Begins, ThinksOn, q
<1> QED BY <1>4, <1>5 DEF ThinkingOn, Begins, ThinksOn, Kept, u

\* The last event of reasoning.
LEMMA ReasoningEnds ==
  ASSUME NEW t, NEW items, NEW c, Reasoning(items, c, c), NEW mode, NEW parts, NEW j \in Nat,
         AtThinking(t, items, c, mode, parts, j), t.started, j > 0, j < ReasoningLast(mode, parts),
         mode = "finished" \/ j > 1, ReasoningTold(mode, parts, j) = IF mode = "finished" THEN <<>> ELSE Whole,
         NEW i \in Nat, i = ReasoningLast(mode, parts), NEW e, e.item = c, e.type = "item_done", NEW signed
  PROVE  ThinkingOn(t, ProcessItem(t, e, "reasoning", signed), items, c, mode, parts, i)
<1> DEFINE u == ProcessItem(t, e, "reasoning", signed)
           p == ReasoningTold(mode, parts, j)
<1>1. i > 1 /\ ~(i < i) /\ i # 1 /\ ReasoningTold(mode, parts, i) = Whole
  BY DEF ReasoningTold, ReasoningLast
<1>2. Thinks(t, items, c, c, p) /\ (j = 1 => Announced(t, c)) /\ (j > 1 => Begun(t, c))
  BY DEF AtThinking
<1>3. \/ p = Whole /\ Begun(t, c)
      \/ p = <<>> /\ Announced(t, c)
  <2>1. CASE mode = "finished"
    <3>1. j = 1
      BY <2>1 DEF ReasoningLast
    <3> QED BY <1>2, <2>1, <3>1
  <2>2. CASE mode # "finished"
    BY <1>2, <2>2
  <2> QED BY <2>1, <2>2
<1> HIDE DEF p
<1>4. Settled(t, u, items, c, c)
  BY <1>2, <1>3, ThinksDone
<1> HIDE DEF u
<1>5. AtThinking(u, items, c, mode, parts, i)
  BY <1>1, <1>4 DEF AtThinking, Settled, ThinksOn
<1> QED BY <1>4, <1>5 DEF ThinkingOn, Settled, ThinksOn, Kept, u

\* An event of reasoning after the first.
LEMMA ReasoningHears ==
  ASSUME NEW items, NEW c \in Nat \ {0}, items[c] = "reasoning", NEW mode \in {"deltas", "finished"},
         NEW parts \in 1 .. 2, NEW j \in Nat \ {0}, j <= Len(ReasoningScript(c, mode, parts)),
         NEW i \in After(ReasoningScript(c, mode, parts), j),
         NEW t, AtThinking(t, items, c, mode, parts, j), t.started, NEW signed
  PROVE  ThinkingOn(t, ProcessItem(t, ReasoningScript(c, mode, parts)[i], "reasoning", signed), items, c, mode, parts, i)
<1> DEFINE s == ReasoningScript(c, mode, parts)
           e == s[i]
<1>1. Reasoning(items, c, c)
  BY DEF Reasoning
<1>2. CASE mode = "finished"
  <2>1. i = 2 /\ May(s, j, i, "item_done", c, Whole) /\ j = 1
    BY <1>2, ReasoningFinished
  <2>2. e.item = c /\ e.type = "item_done"
    BY <2>1 DEF May
  <2>3. j < ReasoningLast(mode, parts) /\ i = ReasoningLast(mode, parts) /\ ReasoningTold(mode, parts, j) = <<>>
    BY <1>2, <2>1 DEF ReasoningLast, ReasoningTold
  <2> HIDE DEF e
  <2>4. ThinkingOn(t, ProcessItem(t, e, "reasoning", signed), items, c, mode, parts, i)
    BY <1>1, <1>2, <2>1, <2>2, <2>3, ReasoningEnds
  <2> QED BY <2>4 DEF e
<1>3. CASE mode = "deltas" /\ parts = 1
  <2>1. \/ i = 2 /\ May(s, j, i, "summary_added", c, <<>>) /\ j = 1
        \/ i = 3 /\ May(s, j, i, "summary_delta", c, <<1>>) /\ j \in 1 .. 2
        \/ i = 4 /\ May(s, j, i, "summary_delta", c, <<2>>) /\ j = 3
        \/ i = 5 /\ May(s, j, i, "summary_done", c, <<>>) /\ j = 4
        \/ i = 6 /\ May(s, j, i, "item_done", c, Whole) /\ j \in 4 .. 5
    BY <1>3, ReasoningOnePart
  <2>2. ReasoningLast(mode, parts) = 6
    BY <1>3 DEF ReasoningLast
  <2>3. \A m \in Nat : ReasoningTold(mode, parts, m) = IF m < 3 THEN <<>> ELSE IF m < 4 THEN <<1>> ELSE Whole
    BY <1>3 DEF ReasoningTold
  <2>4. CASE i = 6
    <3>1. e.item = c /\ e.type = "item_done" /\ j \in 4 .. 5
      BY <2>1, <2>4 DEF May
    <3>2. ReasoningTold(mode, parts, j) = Whole
      BY <2>3, <3>1
    <3> HIDE DEF e
    <3>3. ThinkingOn(t, ProcessItem(t, e, "reasoning", signed), items, c, mode, parts, i)
      BY <1>1, <1>3, <2>2, <2>4, <3>1, <3>2, ReasoningEnds
    <3> QED BY <3>3 DEF e
  <2>5. CASE i # 6
    <3>1. /\ e.item = c /\ i \in 2 .. 5 /\ j \in 1 .. 4
          /\ \/ /\ e.type = "summary_added" \/ (e.type = "summary_done" /\ j > 1)
                /\ ReasoningTold(mode, parts, i) = ReasoningTold(mode, parts, j)
             \/ /\ e.type = "summary_delta" /\ e.pieces \in Seq(Nat) /\ e.pieces # <<>>
                /\ ReasoningTold(mode, parts, i) = ReasoningTold(mode, parts, j) \o e.pieces
      <4>1. CASE i = 2
        <5>1. ReasoningTold(mode, parts, i) = <<>> /\ ReasoningTold(mode, parts, j) = <<>>
          BY <2>1, <2>3, <4>1
        <5>2. e.type = "summary_added" /\ e.item = c /\ j = 1
          BY <2>1, <4>1 DEF May
        <5> QED BY <4>1, <5>1, <5>2
      <4>2. CASE i = 3
        <5>1. ReasoningTold(mode, parts, i) = <<1>> /\ ReasoningTold(mode, parts, j) = <<>>
          BY <2>1, <2>3, <4>2
        <5>2. <<>> \o <<1>> = <<1>>
          BY Parts
        <5>3. e.type = "summary_delta" /\ e.pieces = <<1>> /\ e.item = c /\ j \in 1 .. 2
          BY <2>1, <4>2 DEF May
        <5> QED BY <4>2, <5>1, <5>2, <5>3, Parts
      <4>3. CASE i = 4
        <5>1. ReasoningTold(mode, parts, i) = Whole /\ ReasoningTold(mode, parts, j) = <<1>>
          BY <2>1, <2>3, <4>3
        <5>2. <<1>> \o <<2>> = Whole
          BY Parts
        <5>3. e.type = "summary_delta" /\ e.pieces = <<2>> /\ e.item = c /\ j = 3
          BY <2>1, <4>3 DEF May
        <5> QED BY <4>3, <5>1, <5>2, <5>3, Parts
      <4>4. CASE i = 5
        BY <2>1, <2>3, <4>4 DEF May
      <4> QED BY <2>1, <2>5, <4>1, <4>2, <4>3, <4>4
    <3> HIDE DEF e
    <3>2. i > 1 /\ i < ReasoningLast(mode, parts) /\ j > 0 /\ j < ReasoningLast(mode, parts) /\ i \in Nat
      BY <2>2, <3>1
    <3>3. ThinkingOn(t, ProcessItem(t, e, "reasoning", signed), items, c, mode, parts, i)
      BY <1>1, <3>1, <3>2, ReasoningGoesOn
    <3> QED BY <3>3 DEF e
  <2> QED BY <2>4, <2>5
<1>4. CASE mode = "deltas" /\ parts = 2
  <2>1. \/ i = 2 /\ May(s, j, i, "summary_added", c, <<>>) /\ j = 1
        \/ i = 3 /\ May(s, j, i, "summary_delta", c, <<1>>) /\ j \in 1 .. 2
        \/ i = 4 /\ May(s, j, i, "summary_done", c, <<>>) /\ j = 3
        \/ i = 5 /\ May(s, j, i, "summary_added", c, <<>>) /\ j = 4
        \/ i = 6 /\ May(s, j, i, "summary_delta", c, <<2>>) /\ j = 5
        \/ i = 7 /\ May(s, j, i, "summary_done", c, <<>>) /\ j = 6
        \/ i = 8 /\ May(s, j, i, "item_done", c, Whole) /\ j = 7
    BY <1>4, ReasoningTwoParts
  <2>2. ReasoningLast(mode, parts) = 8
    BY <1>4 DEF ReasoningLast
  <2>3. \A m \in Nat : ReasoningTold(mode, parts, m) = IF m < 3 THEN <<>> ELSE IF m < 6 THEN <<1>> ELSE Whole
    BY <1>4 DEF ReasoningTold
  <2>4. CASE i = 8
    <3>1. e.item = c /\ e.type = "item_done" /\ j = 7
      BY <2>1, <2>4 DEF May
    <3>2. ReasoningTold(mode, parts, j) = Whole
      BY <2>3, <3>1
    <3> HIDE DEF e
    <3>3. ThinkingOn(t, ProcessItem(t, e, "reasoning", signed), items, c, mode, parts, i)
      BY <1>1, <1>4, <2>2, <2>4, <3>1, <3>2, ReasoningEnds
    <3> QED BY <3>3 DEF e
  <2>5. CASE i # 8
    <3>1. /\ e.item = c /\ i \in 2 .. 7 /\ j \in 1 .. 6
          /\ \/ /\ e.type = "summary_added" \/ (e.type = "summary_done" /\ j > 1)
                /\ ReasoningTold(mode, parts, i) = ReasoningTold(mode, parts, j)
             \/ /\ e.type = "summary_delta" /\ e.pieces \in Seq(Nat) /\ e.pieces # <<>>
                /\ ReasoningTold(mode, parts, i) = ReasoningTold(mode, parts, j) \o e.pieces
      <4>1. CASE i \in {2, 4, 5, 7}
        <5>1. ReasoningTold(mode, parts, i) = ReasoningTold(mode, parts, j)
          <6>1. j = i - 1 /\ j \in Nat /\ i \in Nat
            BY <2>1, <4>1
          <6> QED BY <2>3, <4>1, <6>1
        <5>2. /\ e.type \in {"summary_added", "summary_done"} /\ e.item = c /\ j \in 1 .. 6
              /\ e.type = "summary_done" => j > 1
          BY <2>1, <4>1 DEF May
        <5> QED BY <4>1, <5>1, <5>2
      <4>2. CASE i = 3
        <5>1. ReasoningTold(mode, parts, i) = <<1>> /\ ReasoningTold(mode, parts, j) = <<>>
          BY <2>1, <2>3, <4>2
        <5>2. <<>> \o <<1>> = <<1>>
          BY Parts
        <5>3. e.type = "summary_delta" /\ e.pieces = <<1>> /\ e.item = c /\ j \in 1 .. 2
          BY <2>1, <4>2 DEF May
        <5> QED BY <4>2, <5>1, <5>2, <5>3, Parts
      <4>3. CASE i = 6
        <5>1. ReasoningTold(mode, parts, i) = Whole /\ ReasoningTold(mode, parts, j) = <<1>>
          BY <2>1, <2>3, <4>3
        <5>2. <<1>> \o <<2>> = Whole
          BY Parts
        <5>3. e.type = "summary_delta" /\ e.pieces = <<2>> /\ e.item = c /\ j = 5
          BY <2>1, <4>3 DEF May
        <5> QED BY <4>3, <5>1, <5>2, <5>3, Parts
      <4> QED BY <2>1, <2>5, <4>1, <4>2, <4>3
    <3> HIDE DEF e
    <3>2. i > 1 /\ i < ReasoningLast(mode, parts) /\ j > 0 /\ j < ReasoningLast(mode, parts) /\ i \in Nat
      BY <2>2, <3>1
    <3>3. ThinkingOn(t, ProcessItem(t, e, "reasoning", signed), items, c, mode, parts, i)
      BY <1>1, <3>1, <3>2, ReasoningGoesOn
    <3> QED BY <3>3 DEF e
  <2> QED BY <2>4, <2>5
<1> QED BY <1>2, <1>3, <1>4

-------------------------------------------------------------------------------
(* The Anthropic translator until the stream ends.                         *)

\* Item c is told, up to its j-th event.
AtItem(t, items, mode, parts, c, j) ==
  /\ items[c] = "message" => Contents(t, items, c, TextTold(mode, j), TextOpen(mode, j))
  /\ items[c] = "call" => Contents(t, items, c, ArgsTold(mode, j), ArgsOpen(mode, j))
  /\ items[c] = "reasoning" => AtThinking(t, items, c, mode, parts, j)

AnthropicStreams(t, p, c, j) ==
  /\ t.ended = "no" /\ Formed(t, p.items, c)
  /\ \A k \in 1 .. c - 1 : Told(t, p.items[k], k)
  /\ c = 0 => Rests(t)
  /\ c > 0 => t.started /\ AtItem(t, p.items, p.mode, p.parts, c, j)

\* Between two items nothing is open.
Between(t, items, c) == Formed(t, items, c) /\ Rests(t)

\* Nothing was written of the next item.
LEMMA OpensItem ==
  ASSUME NEW c \in Nat, NEW t, NEW items, Between(t, items, c)
  PROVE  /\ Formed(t, items, c + 1) /\ Read(t.out, c + 1) = <<>> /\ c + 1 \notin t.completed
         /\ \A i \in DOMAIN t.out : t.out[i].item # c + 1
<1>1. t \in Translators /\ t.out \in Seq(Blocks) /\ Formed(t, items, c)
  BY OutTyped DEF Between, Formed
<1>2. \A k \in 1 .. c : k \in 1 .. c + 1 /\ k # c + 1
  OBVIOUS
<1>3. \A i \in DOMAIN t.out : t.out[i].item # c + 1
  BY <1>1, <1>2 DEF Formed
<1>4. Read(t.out, c + 1) = <<>>
  BY <1>1, <1>3, BlocksPiecewise, ReadNone
<1>5. c + 1 \notin t.completed /\ t.completed \subseteq 1 .. c + 1
  BY <1>1, <1>2 DEF Formed
<1>6. Formed(t, items, c + 1)
  BY <1>1, <1>2, <1>5 DEF Formed
<1> QED BY <1>3, <1>4, <1>5, <1>6

\* A message or a call begins.
LEMMA OpensContents ==
  ASSUME NEW c \in Nat \ {0}, NEW t, NEW items, Between(t, items, c - 1), NEW open
  PROVE  Contents(t, items, c, <<>>, open)
<1>1. c - 1 \in Nat /\ c - 1 + 1 = c
  OBVIOUS
<1>2. /\ Formed(t, items, c) /\ Read(t.out, c) = <<>>
      /\ \A i \in DOMAIN t.out : t.out[i].item # c
  BY <1>1, OpensItem
<1> QED BY <1>2 DEF Contents, Between, Rests

\* Reasoning begins.
LEMMA OpensThinking ==
  ASSUME NEW c \in Nat \ {0}, NEW t, NEW items, Between(t, items, c - 1)
  PROVE  Thinks(t, items, c, c, <<>>) /\ t.thinking = 0 /\ c \notin t.completed
<1>1. c - 1 \in Nat /\ c - 1 + 1 = c
  OBVIOUS
<1>2. /\ Formed(t, items, c) /\ Read(t.out, c) = <<>> /\ c \notin t.completed
  BY <1>1, OpensItem
<1> QED BY <1>2 DEF Thinks, Between, Rests

\* All that had to come of the item has come.
LEMMA ItemEnds ==
  ASSUME NEW p \in Plans, NEW c \in 1 .. Len(p.items), p.mode # "last", NEW t,
         NEW j \in Nat \ {0}, j <= Len(Script(p, c)), AtItem(t, p.items, p.mode, p.parts, c, j),
         Complete(Script(p, c), j)
  PROVE  Rests(t) /\ Told(t, p.items[c], c)
<1>1. c \in Nat \ {0} /\ p.items[c] \in Kinds /\ p.mode \in {"deltas", "finished"} /\ p.parts \in 1 .. 2
  BY PlanTyped DEF Modes
<1>2. ASSUME NEW kind \in {"message", "call"}, p.items[c] = kind, Contents(t, p.items, c, Whole, FALSE)
      PROVE  Rests(t) /\ Told(t, p.items[c], c)
  BY <1>2 DEF Contents, Rests, Told, Due
<1>3. CASE p.items[c] = "message"
  <2>1. Script(p, c) = MessageScript(c, p.mode)
    BY <1>3, ScriptIs
  <2>2. j = IF p.mode = "deltas" THEN 6 ELSE 4
    BY <1>1, <2>1, MessageDeltas, MessageFinished
  <2>3. TextTold(p.mode, j) = Whole /\ TextOpen(p.mode, j) = FALSE
    BY <1>1, <2>2 DEF TextTold, TextOpen
  <2> QED BY <1>2, <1>3, <2>3 DEF AtItem
<1>4. CASE p.items[c] = "call"
  <2>1. Script(p, c) = CallScript(c, p.mode)
    BY <1>4, ScriptIs
  <2>2. j = IF p.mode = "deltas" THEN 5 ELSE 3
    BY <1>1, <2>1, CallDeltas, CallFinished
  <2>3. ArgsTold(p.mode, j) = Whole /\ ArgsOpen(p.mode, j) = FALSE
    BY <1>1, <2>2 DEF ArgsTold, ArgsOpen
  <2> QED BY <1>2, <1>4, <2>3 DEF AtItem
<1>5. CASE p.items[c] = "reasoning"
  <2>1. Script(p, c) = ReasoningScript(c, p.mode, p.parts)
    BY <1>5, ScriptIs
  <2>2. j = ReasoningLast(p.mode, p.parts)
    <3>1. CASE p.mode = "finished"
      BY <2>1, <3>1, ReasoningFinished DEF ReasoningLast
    <3>2. CASE p.mode = "deltas" /\ p.parts = 1
      BY <2>1, <3>2, ReasoningOnePart DEF ReasoningLast
    <3>3. CASE p.mode = "deltas" /\ p.parts = 2
      BY <2>1, <3>3, ReasoningTwoParts DEF ReasoningLast
    <3> QED BY <1>1, <3>1, <3>2, <3>3
  <2>3. ReasoningTold(p.mode, p.parts, j) = Whole
    BY <1>1, <2>2 DEF ReasoningTold, ReasoningLast
  <2>4. Thinks(t, p.items, c, c, Whole) /\ Rests(t) /\ (t.display = "summarized" => c \in t.completed)
    BY <1>5, <2>2, <2>3 DEF AtItem, AtThinking
  <2> QED BY <1>5, <2>4 DEF Thinks, Told, Due
<1> QED BY <1>1, <1>3, <1>4, <1>5 DEF Kinds

\* One more event of an item.
ItemTells(t, u, p, k, i) ==
  u.started /\ AtItem(u, p.items, p.mode, p.parts, k, i) /\ Kept(t, u, k) /\ Formed(u, p.items, k)

\* An event of an item, the first or a later one.
LEMMA ItemContinues ==
  ASSUME NEW p \in Plans, NEW k \in 1 .. Len(p.items), p.mode # "last", NEW t,
         NEW j \in Nat, j <= Len(Script(p, k)), NEW i \in After(Script(p, k), j),
         \/ j > 0 /\ t.started /\ AtItem(t, p.items, p.mode, p.parts, k, j)
         \/ j = 0 /\ Between(t, p.items, k - 1),
         NEW signed
  PROVE  ItemTells(t, ProcessItem(t, Script(p, k)[i], p.items[k], signed), p, k, i)
<1> DEFINE u == ProcessItem(t, Script(p, k)[i], p.items[k], signed)
           q == TextTold(p.mode, i)
           open == TextOpen(p.mode, i)
<1>1. k \in Nat \ {0} /\ p.items[k] \in Kinds /\ p.mode \in {"deltas", "finished"} /\ p.parts \in 1 .. 2
  BY PlanTyped DEF Modes
<1>2. CASE p.items[k] = "message"
  <2>1. Script(p, k) = MessageScript(k, p.mode)
    BY <1>2, ScriptIs
  <2>2. Contents(t, p.items, k, TextTold(p.mode, j), TextOpen(p.mode, j))
    <3>1. CASE j > 0
      BY <1>2, <3>1 DEF AtItem
    <3>2. CASE j = 0
      <4>1. TextTold(p.mode, j) = <<>>
        BY <3>2 DEF TextTold
      <4>2. Between(t, p.items, k - 1)
        BY <3>2
      <4> QED BY <1>1, <4>1, <4>2, OpensContents
    <3> QED BY <3>1, <3>2
  <2>3. Hears(t, u, p.items, k, TextTold(p.mode, i), TextOpen(p.mode, i))
    BY <1>1, <1>2, <2>1, <2>2, MessageHears
  <2> HIDE DEF u
  <2>4. ItemTells(t, u, p, k, i)
    BY <1>2, <2>3 DEF ItemTells, AtItem, Hears, Tells, Contents
  <2> QED BY <2>4 DEF u
<1>3. CASE p.items[k] = "call"
  <2>1. Script(p, k) = CallScript(k, p.mode)
    BY <1>3, ScriptIs
  <2>2. Contents(t, p.items, k, ArgsTold(p.mode, j), ArgsOpen(p.mode, j))
    <3>1. CASE j > 0
      BY <1>3, <3>1 DEF AtItem
    <3>2. CASE j = 0
      <4>1. ArgsTold(p.mode, j) = <<>>
        BY <3>2 DEF ArgsTold
      <4>2. Between(t, p.items, k - 1)
        BY <3>2
      <4> QED BY <1>1, <4>1, <4>2, OpensContents
    <3> QED BY <3>1, <3>2
  <2>3. Hears(t, u, p.items, k, ArgsTold(p.mode, i), ArgsOpen(p.mode, i))
    BY <1>1, <1>3, <2>1, <2>2, CallHears
  <2> HIDE DEF u
  <2>4. ItemTells(t, u, p, k, i)
    BY <1>3, <2>3 DEF ItemTells, AtItem, Hears, Tells, Contents
  <2> QED BY <2>4 DEF u
<1>4. CASE p.items[k] = "reasoning"
  <2>1. Script(p, k) = ReasoningScript(k, p.mode, p.parts)
    BY <1>4, ScriptIs
  <2>2. AtThinking(u, p.items, k, p.mode, p.parts, i) /\ Kept(t, u, k) /\ u.started
    <3>1. CASE j > 0
      <4>1. AtThinking(t, p.items, k, p.mode, p.parts, j) /\ t.started /\ j \in Nat \ {0}
        BY <1>4, <3>1 DEF AtItem
      <4>2. ThinkingOn(t, ProcessItem(t, ReasoningScript(k, p.mode, p.parts)[i], "reasoning", signed),
                       p.items, k, p.mode, p.parts, i)
        BY <1>1, <1>4, <2>1, <4>1, ReasoningHears
      <4> QED BY <1>4, <2>1, <4>2 DEF ThinkingOn
    <3>2. CASE j = 0
      <4> DEFINE e == Script(p, k)[i]
      <4>1. i = 1 /\ e.type = "added" /\ e.item = k
        <5>1. CASE p.mode = "finished"
          BY <2>1, <3>2, <5>1, ReasoningFinished DEF May
        <5>2. CASE p.mode = "deltas" /\ p.parts = 1
          BY <2>1, <3>2, <5>2, ReasoningOnePart DEF May
        <5>3. CASE p.mode = "deltas" /\ p.parts = 2
          BY <2>1, <3>2, <5>3, ReasoningTwoParts DEF May
        <5> QED BY <1>1, <5>1, <5>2, <5>3
      <4>2. Thinks(t, p.items, k, k, <<>>) /\ t.thinking = 0 /\ k \notin t.completed
        BY <1>1, <3>2, OpensThinking
      <4> QED BY <1>1, <1>4, <4>1, <4>2, Announces
    <3> QED BY <3>1, <3>2
  <2> HIDE DEF u
  <2>3. ItemTells(t, u, p, k, i)
    BY <1>4, <2>2 DEF ItemTells, AtItem, AtThinking, Thinks
  <2> QED BY <2>3 DEF u
<1> QED BY <1>1, <1>2, <1>3, <1>4 DEF Kinds

\* An event about an item: the items before it were told, and stay so.
LEMMA AnthropicStreamsEvent ==
  ASSUME NEW p \in Plans, NEW c \in 0 .. Len(p.items), NEW j \in Nat, j <= Len(Script(p, c)), c > 0 => j > 0,
         NEW t, AnthropicStreams(t, p, c, j), NEW k \in 1 .. Len(p.items), p.mode # "last", NEW i,
         \/ k = c /\ i \in After(Script(p, k), j)
         \/ k = c + 1 /\ Complete(Script(p, c), j) /\ i \in After(Script(p, k), 0),
         NEW signed
  PROVE  AnthropicStreams(ProcessItem(t, Script(p, k)[i], p.items[k], signed), p, k, i)
<1> DEFINE u == ProcessItem(t, Script(p, k)[i], p.items[k], signed)
<1>1. c \in Nat /\ k \in Nat /\ k > 0 /\ p.items[k] \in Kinds /\ Len(p.items) \in Nat
  BY PlanTyped
<1>2. ItemTells(t, u, p, k, i)
  <2>1. CASE k = c
    <3>1. j > 0 /\ t.started /\ AtItem(t, p.items, p.mode, p.parts, k, j) /\ j <= Len(Script(p, k)) /\ i \in After(Script(p, k), j)
      BY <1>1, <2>1 DEF AnthropicStreams
    <3> QED BY <3>1, ItemContinues
  <2>2. CASE k = c + 1
    <3>1. Rests(t)
      <4>1. CASE c = 0
        BY <4>1 DEF AnthropicStreams
      <4>2. CASE c > 0
        <5>1. AtItem(t, p.items, p.mode, p.parts, c, j) /\ c \in 1 .. Len(p.items) /\ j \in Nat \ {0} /\ Complete(Script(p, c), j)
          BY <1>1, <2>2, <4>2 DEF AnthropicStreams
        <5> QED BY <5>1, ItemEnds
      <4> QED BY <1>1, <4>1, <4>2
    <3>2. Between(t, p.items, k - 1)
      <4>1. k - 1 = c
        BY <1>1, <2>2
      <4> QED BY <3>1, <4>1 DEF AnthropicStreams, Between
    <3>3. 0 \in Nat /\ 0 <= Len(Script(p, k)) /\ i \in After(Script(p, k), 0)
      BY <1>1, <2>2, ScriptTyped
    <3> QED BY <3>2, <3>3, ItemContinues
  <2> QED BY <2>1, <2>2
<1>3. \A m \in 1 .. k - 1 : m # k /\ Told(t, p.items[m], m)
  <2> TAKE m \in 1 .. k - 1
  <2>1. m # k /\ m \in Nat
    BY <1>1
  <2>2. CASE m \in 1 .. c - 1
    BY <2>1, <2>2 DEF AnthropicStreams
  <2>3. CASE m = c
    <3>1. k = c + 1 /\ c > 0 /\ c \in 1 .. Len(p.items) /\ j \in Nat \ {0}
      BY <1>1, <2>3
    <3>2. AtItem(t, p.items, p.mode, p.parts, c, j) /\ Complete(Script(p, c), j)
      BY <1>1, <3>1 DEF AnthropicStreams
    <3> QED BY <2>1, <2>3, <3>1, <3>2, ItemEnds
  <2>4. m \in 1 .. c - 1 \/ m = c
    BY <1>1
  <2> QED BY <2>2, <2>3, <2>4
<1> HIDE DEF u
<1>4. \A m \in 1 .. k - 1 : Told(u, p.items[m], m)
  BY <1>2, <1>3 DEF ItemTells, Kept, Told
<1>5. AnthropicStreams(u, p, k, i)
  BY <1>1, <1>2, <1>4 DEF AnthropicStreams, ItemTells, Kept
<1> QED BY <1>5 DEF u

-------------------------------------------------------------------------------
(* The output of the last event.                                           *)

\* f holds the translator after each of the first m items was written.
Emits(f, t, items, signed, m) ==
  f = [k \in 0 .. m |-> IF k = 0 THEN t ELSE FinalItem(f[k - 1], k, items[k], signed)]

\* There is such a function.
LEMMA EmitsExists ==
  ASSUME NEW t, NEW items, NEW signed, NEW n \in Nat
  PROVE  \E f : Emits(f, t, items, signed, n)
<1> DEFINE T == {m \in Nat : \E f : Emits(f, t, items, signed, m)}
<1>1. 0 \in T
  <2> DEFINE f == [k \in 0 .. 0 |-> t]
  <2>1. f = [k \in 0 .. 0 |-> IF k = 0 THEN t ELSE FinalItem(f[k - 1], k, items[k], signed)]
    OBVIOUS
  <2> HIDE DEF f
  <2> QED BY <2>1 DEF Emits
<1>2. ASSUME NEW m \in T PROVE m + 1 \in T
  <2>1. m \in Nat
    OBVIOUS
  <2>2. PICK f : Emits(f, t, items, signed, m)
    OBVIOUS
  <2> DEFINE g == [k \in 0 .. m + 1 |-> IF k = m + 1 THEN FinalItem(f[m], k, items[k], signed) ELSE f[k]]
  <2>3. \A k \in 0 .. m : g[k] = f[k] /\ f[k] = IF k = 0 THEN t ELSE FinalItem(f[k - 1], k, items[k], signed)
    <3>1. \A k \in 0 .. m : k \in 0 .. m + 1 /\ k # m + 1
      BY <2>1
    <3>2. f = [k \in 0 .. m |-> IF k = 0 THEN t ELSE FinalItem(f[k - 1], k, items[k], signed)]
      BY <2>2 DEF Emits
    <3>3. \A k \in 0 .. m : f[k] = IF k = 0 THEN t ELSE FinalItem(f[k - 1], k, items[k], signed)
      BY <3>2, Zenon
    <3> QED BY <3>1, <3>3
  <2>4. ASSUME NEW k \in 0 .. m + 1
        PROVE  g[k] = IF k = 0 THEN t ELSE FinalItem(g[k - 1], k, items[k], signed)
    <3>1. CASE k = m + 1
      <4>1. k # 0 /\ k - 1 = m /\ m \in 0 .. m
        BY <2>1, <3>1
      <4>2. g[k - 1] = f[m]
        BY <2>3, <4>1
      <4>3. g[k] = FinalItem(f[m], k, items[k], signed)
        BY <3>1
      <4> QED BY <4>1, <4>2, <4>3
    <3>2. CASE k # m + 1
      <4>1. k \in 0 .. m /\ (k # 0 => k - 1 \in 0 .. m)
        BY <2>1, <3>2
      <4>2. k # 0 => g[k - 1] = f[k - 1]
        BY <2>3, <4>1
      <4> HIDE DEF g
      <4> QED BY <2>3, <4>1, <4>2
    <3> QED BY <3>1, <3>2
  <2>5. DOMAIN g = 0 .. m + 1 /\ g = [k \in 0 .. m + 1 |-> g[k]]
    OBVIOUS
  <2> HIDE DEF g
  <2>6. Emits(g, t, items, signed, m + 1)
    BY <2>4, <2>5 DEF Emits
  <2> QED BY <2>1, <2>6
<1>3. T \in SUBSET Nat
  OBVIOUS
<1> HIDE DEF T
<1>4. T = Nat
  BY <1>1, <1>2, <1>3, Induction
<1> QED BY <1>4 DEF T

\* EmitFinalOutput is the last of its values.
LEMMA EmitsIs ==
  ASSUME NEW t, NEW items, NEW signed, Len(items) \in Nat
  PROVE  \E f : Emits(f, t, items, signed, Len(items)) /\ EmitFinalOutput(t, items, signed) = f[Len(items)]
<1> DEFINE n == Len(items)
           f == CHOOSE emit : emit = [k \in 0 .. n |->
                  IF k = 0 THEN t ELSE FinalItem(emit[k - 1], k, items[k], signed)]
<1>1. \E g : Emits(g, t, items, signed, n)
  BY EmitsExists
<1>2. Emits(f, t, items, signed, n)
  BY <1>1, Zenon DEF Emits
<1>3. EmitFinalOutput(t, items, signed) = f[n]
  BY DEF EmitFinalOutput
<1> HIDE DEF f
<1> QED BY <1>2, <1>3

\* What holds of t, and is kept by writing an item, holds after the last one.
LEMMA EmitsAll ==
  ASSUME NEW t, NEW items, NEW signed, NEW G, Len(items) \in Nat, <<0, t>> \in G,
         \A k \in 1 .. Len(items) : \A s : <<k - 1, s>> \in G => <<k, FinalItem(s, k, items[k], signed)>> \in G
  PROVE  <<Len(items), EmitFinalOutput(t, items, signed)>> \in G
<1> DEFINE n == Len(items)
<1>1. PICK f : Emits(f, t, items, signed, n) /\ EmitFinalOutput(t, items, signed) = f[n]
  BY EmitsIs
<1>2. \A k \in 0 .. n : f[k] = IF k = 0 THEN t ELSE FinalItem(f[k - 1], k, items[k], signed)
  BY <1>1, Zenon DEF Emits
<1> DEFINE T == {k \in Nat : k <= n => <<k, f[k]>> \in G}
<1>3. 0 \in T
  BY <1>2
<1>4. ASSUME NEW k \in T PROVE k + 1 \in T
  <2>1. k \in Nat
    OBVIOUS
  <2>2. CASE k + 1 <= n
    <3>1. k + 1 \in 1 .. n /\ k + 1 \in 0 .. n /\ k + 1 - 1 = k /\ k + 1 # 0 /\ <<k, f[k]>> \in G
      BY <2>1, <2>2
    <3>2. f[k + 1] = FinalItem(f[k], k + 1, items[k + 1], signed)
      BY <1>2, <3>1
    <3>3. <<k + 1, FinalItem(f[k], k + 1, items[k + 1], signed)>> \in G
      <4> DEFINE d == k + 1
      <4>1. d \in 1 .. n /\ <<d - 1, f[k]>> \in G
        BY <3>1
      <4> HIDE DEF d
      <4>2. <<d, FinalItem(f[k], d, items[d], signed)>> \in G
        BY <4>1
      <4> QED BY <4>2 DEF d
    <3> QED BY <2>1, <3>2, <3>3
  <2>3. CASE ~(k + 1 <= n)
    BY <2>1, <2>3
  <2> QED BY <2>2, <2>3
<1>5. T \in SUBSET Nat
  OBVIOUS
<1> HIDE DEF T
<1>6. T = Nat
  BY <1>3, <1>4, <1>5, Induction
<1>7. <<n, f[n]>> \in G
  BY <1>6 DEF T
<1> QED BY <1>1, <1>7

-------------------------------------------------------------------------------
(* The items of the output.                                                *)

\* An item that was told keeps its block as it is.
LEMMA ToldAlready ==
  ASSUME NEW items, NEW n \in Nat, NEW k \in 1 .. n, NEW kind, Content(kind, items, k), NEW t,
         Between(t, items, n), Read(t.out, k) = Whole
  PROVE  /\ Find(t, kind, k) # 0 /\ Emitted(t, kind, k)
         /\ StopBlock(t, kind, k) = t /\ EnsureBlock(t, kind, k) = t
<1> DEFINE S == {i \in DOMAIN t.out : t.out[i].kind = kind /\ t.out[i].item = k}
           i == Find(t, kind, k)
<1>1. /\ t \in Translators /\ Formed(t, items, n) /\ t.thinking = 0 /\ t.out \in Seq(Blocks)
      /\ DOMAIN t.out = 1 .. Len(t.out) /\ \A j \in DOMAIN t.out : t.out[j] \in Blocks /\ ~t.out[j].open
  BY OutTyped DEF Between, Formed, Rests
<1>2. \E j \in DOMAIN t.out : t.out[j].item = k
  <2>1. ASSUME \A j \in DOMAIN t.out : t.out[j].item # k PROVE FALSE
    <3>1. Read(t.out, k) = <<>>
      BY <1>1, <2>1, BlocksPiecewise, ReadNone
    <3> QED BY <3>1, Parts
  <2> QED BY <2>1
<1>3. S # {}
  BY <1>1, <1>2 DEF Content, Formed
<1>4. i \in S
  BY <1>3 DEF Find
<1> HIDE DEF i
<1>5. i \in DOMAIN t.out /\ t.out[i].kind = kind /\ t.out[i].item = k /\ i # 0 /\ kind # "thinking"
  BY <1>1, <1>4 DEF Content
<1>6. t.out[i].pieces = Whole /\ t.out[i] \in Blocks /\ t.out[i].open = FALSE
  BY <1>1, <1>5 DEF Formed, Blocks
<1>7. Find(t, kind, k) # 0 /\ Emitted(t, kind, k)
  BY <1>5, <1>6, Parts DEF Emitted, i
<1>8. StopBlock(t, kind, k) = t
  <2>1. StopBlock(t, kind, k) = [t EXCEPT !.out[i].open = FALSE]
    BY <1>5 DEF StopBlock, i
  <2>2. PICK no \in BOOLEAN : no = FALSE
    OBVIOUS
  <2>3. [t.out[i] EXCEPT !.open = no] = t.out[i]
    BY <1>6, <2>2 DEF Blocks
  <2>4. [t.out EXCEPT ![i] = t.out[i]] = t.out
    BY <1>1, <1>5
  <2>5. [t EXCEPT !.out = t.out] = t
    BY <1>1 DEF Translators
  <2>6. [t EXCEPT !.out[i].open = no] = [t EXCEPT !.out = [t.out EXCEPT ![i] = [t.out[i] EXCEPT !.open = no]]]
    BY <1>1 DEF Translators
  <2> QED BY <2>1, <2>2, <2>3, <2>4, <2>5, <2>6
<1>9. EnsureBlock(t, kind, k) = t
  BY <1>1, <1>7 DEF EnsureBlock, FinishThinkingBeforeContent
<1> QED BY <1>7, <1>8, <1>9

\* Items that were told are not written again, but for the signature of reasoning
\* that is not shown.
Again(t, u, items, n, k) ==
  Between(u, items, n) /\ Kept(t, u, k) /\ Told(u, items[k], k)

\* An item that was told is not written again.
LEMMA WritesAgain ==
  ASSUME NEW items, NEW n \in Nat, NEW k \in 1 .. n, items[k] \in Kinds, NEW t,
         Between(t, items, n), Told(t, items[k], k), NEW signed
  PROVE  Again(t, FinalItem(t, k, items[k], signed), items, n, k)
<1> DEFINE u == FinalItem(t, k, items[k], signed)
<1>0. ASSUME u = t PROVE Again(t, u, items, n, k)
  BY <1>0 DEF Again, Kept
<1>1. CASE items[k] = "message"
  <2>1. Content("text", items, k) /\ Read(t.out, k) = Whole
    BY <1>1 DEF Content, BlockKind, Told, Due
  <2>2. Find(t, "text", k) # 0 /\ Emitted(t, "text", k) /\ StopBlock(t, "text", k) = t
    BY <2>1, ToldAlready
  <2>3. u = t
    BY <1>1, <2>2 DEF FinalItem, FinalMessage, DeltaOnce
  <2> QED BY <1>0, <2>3
<1>2. CASE items[k] = "call"
  <2>1. Content("tool", items, k) /\ Read(t.out, k) = Whole
    BY <1>2 DEF Content, BlockKind, Told, Due
  <2>2. EnsureBlock(t, "tool", k) = t /\ Emitted(t, "tool", k) /\ StopBlock(t, "tool", k) = t
    BY <2>1, ToldAlready
  <2>3. u = t
    BY <1>2, <2>2 DEF FinalItem, FinalCall, DeltaOnce
  <2> QED BY <1>0, <2>3
<1>3. CASE items[k] = "reasoning"
  <2>1. u = EmitFinalReasoningItem(t, k, Whole, signed)
    BY <1>3 DEF FinalItem
  <2>2. CASE t.display = "summarized"
    <3>1. k \in t.completed
      BY <1>3, <2>2 DEF Told
    <3>2. u = t
      BY <2>1, <3>1 DEF EmitFinalReasoningItem
    <3> QED BY <1>0, <3>2
  <2>3. CASE t.display # "summarized"
    <3>1. Read(t.out, k) = <<>>
      BY <1>3, <2>3 DEF Told, Due
    <3>2. Unsettled(t, items, n, k)
      BY <2>3, <3>1 DEF Unsettled, Thinks, Between, Rests
    <3>3. Reasoning(items, n, k)
      BY <1>3 DEF Reasoning
    <3>4. Settled(t, u, items, n, k)
      BY <2>1, <3>2, <3>3, EmitsReasoning
    <3> HIDE DEF u
    <3>5. /\ Formed(u, items, n) /\ Rests(u) /\ Kept(t, u, k)
          /\ Read(u.out, k) = (IF u.display = "summarized" THEN Whole ELSE <<>>)
          /\ u.display = "summarized" => k \in u.completed
      BY <3>4 DEF Settled, ThinksOn, Thinks
    <3>6. Told(u, items[k], k)
      BY <1>3, <3>5 DEF Told, Due
    <3>7. Again(t, u, items, n, k)
      BY <3>5, <3>6 DEF Again, Between
    <3> QED BY <3>7 DEF u
  <2> QED BY <2>2, <2>3
<1> QED BY <1>1, <1>2, <1>3 DEF Kinds

\* What the client got of item k: all that is due, or nothing of a message that was
\* taken for a repetition.
Got(t, items, k, repeats) ==
  \/ Read(t.out, k) = Due(t.display, items[k])
  \/ /\ repeats /\ items[k] = "message" /\ Read(t.out, k) = <<>>
     /\ \E j \in 1 .. k - 1 : items[j] = "message"

Written(t, u, items, k) ==
  Between(u, items, k) /\ Kept(t, u, k) /\ Got(u, items, k, TRUE)

\* An item that was not told is written.
LEMMA WritesLast ==
  ASSUME NEW items, NEW k \in Nat \ {0}, \A m \in 1 .. k : items[m] \in Kinds, NEW t,
         Between(t, items, k - 1), t.started, NEW signed
  PROVE  Written(t, FinalItem(t, k, items[k], signed), items, k)
<1> DEFINE u == FinalItem(t, k, items[k], signed)
<1>0. items[k] \in Kinds
  OBVIOUS
<1>1. Contents(t, items, k, <<>>, TRUE) /\ t \in Translators
  BY OpensContents DEF Between, Formed
<1>2. ASSUME NEW v, NEW kind \in {"message", "call"}, items[k] = kind, Tells(t, v, items, k, Whole, FALSE)
      PROVE  Written(t, v, items, k)
  BY <1>2 DEF Tells, Contents, Written, Between, Rests, Got, Due
<1>3. CASE items[k] = "message"
  <2>0. Content("text", items, k)
    BY <1>3 DEF Content, BlockKind
  <2>1. CASE Find(t, "text", k) = 0 /\ HasEmittedKind(t, "text")
    <3>1. u = t
      BY <1>3, <2>1 DEF FinalItem, FinalMessage
    <3>2. PICK i \in DOMAIN t.out : t.out[i].kind = "text"
      BY <2>1 DEF HasEmittedKind
    <3>3. t.out[i].item \in 1 .. k - 1 /\ BlockKind(items[t.out[i].item]) = "text" /\ k - 1 \in Nat
      BY <3>2 DEF Between, Formed
    <3>4. items[t.out[i].item] = "message"
      <4>1. items[t.out[i].item] \in Kinds
        BY <3>3
      <4> QED BY <3>3, <4>1 DEF BlockKind, Kinds
    <3>5. Formed(t, items, k) /\ Read(t.out, k) = <<>> /\ Rests(t)
      BY <1>1 DEF Contents, Between
    <3> HIDE DEF u
    <3>6. Written(t, u, items, k)
      BY <1>3, <3>1, <3>3, <3>4, <3>5 DEF Written, Between, Kept, Got
    <3> QED BY <3>6 DEF u
  <2>2. CASE ~(Find(t, "text", k) = 0 /\ HasEmittedKind(t, "text"))
    <3> DEFINE v == DeltaOnce(t, "text", k, Whole)
    <3>1. u = StopBlock(v, "text", k)
      BY <1>3, <2>2 DEF FinalItem, FinalMessage
    <3>2. Tells(t, v, items, k, Whole, TRUE)
      BY <1>1, <2>0, TellsOnce
    <3> HIDE DEF v, u
    <3>3. Tells(v, u, items, k, Whole, FALSE)
      BY <2>0, <3>1, <3>2, TellsStop DEF Tells
    <3>4. Tells(t, u, items, k, Whole, FALSE)
      BY <3>2, <3>3, TellsMore
    <3> QED BY <1>2, <1>3, <3>4 DEF u
  <2> QED BY <2>1, <2>2
<1>4. CASE items[k] = "call"
  <2>0. Content("tool", items, k)
    BY <1>4 DEF Content, BlockKind
  <2>1. EnsureStart(t) = t
    <3>1. PICK yes \in BOOLEAN : yes = TRUE
      OBVIOUS
    <3>2. [t EXCEPT !.started = yes] = t
      BY <1>1, <3>1 DEF Translators
    <3> QED BY <3>1, <3>2 DEF EnsureStart
  <2>2. u = StopBlock(DeltaOnce(EnsureBlock(EnsureStart(t), "tool", k), "tool", k, Whole), "tool", k)
    BY <1>4, <2>1 DEF FinalItem, FinalCall
  <2> HIDE DEF u
  <2>3. HearsEnd(t, u, items, k, <<>>)
    BY <1>1, <2>0, <2>2, HearsCall
  <2>4. Tells(t, u, items, k, Whole, FALSE)
    BY <2>3 DEF HearsEnd, Hears
  <2> QED BY <1>2, <1>4, <2>4 DEF u
<1>5. CASE items[k] = "reasoning"
  <2>1. u = EmitFinalReasoningItem(t, k, Whole, signed)
    BY <1>5 DEF FinalItem
  <2>2. Thinks(t, items, k, k, <<>>) /\ t.thinking = 0 /\ k \notin t.completed
    BY OpensThinking
  <2>3. Unsettled(t, items, k, k) /\ Reasoning(items, k, k)
    BY <1>5, <2>2 DEF Unsettled, Reasoning
  <2>4. Settled(t, u, items, k, k)
    BY <2>1, <2>3, EmitsReasoning
  <2> HIDE DEF u
  <2>5. Written(t, u, items, k)
    BY <1>5, <2>4 DEF Settled, ThinksOn, Thinks, Written, Between, Got, Due
  <2> QED BY <2>5 DEF u
<1> QED BY <1>0, <1>3, <1>4, <1>5 DEF Kinds

\* Everything was written, and the message is not ended.
AllGot(t, items, repeats) ==
  /\ Between(t, items, Len(items)) /\ t.started /\ t.ended = "no"
  /\ \A k \in 1 .. Len(items) : Got(t, items, k, repeats)

\* The output repeats a stream that was told: nothing is written twice.
LEMMA OutputAgain ==
  ASSUME NEW p \in Plans, NEW t, Between(t, p.items, Len(p.items)), t.started, t.ended = "no",
         \A k \in 1 .. Len(p.items) : Told(t, p.items[k], k), NEW signed
  PROVE  AllGot(EmitFinalOutput(t, p.items, signed), p.items, FALSE)
<1> DEFINE items == p.items
           n == Len(p.items)
           G == {x \in (0 .. n) \X Translators :
                   /\ Between(x[2], items, n) /\ x[2].started /\ x[2].ended = "no"
                   /\ \A m \in 1 .. n : Told(x[2], items[m], m)}
           u == EmitFinalOutput(t, items, signed)
<1>1. n \in Nat /\ \A k \in 1 .. n : items[k] \in Kinds
  BY PlanTyped
<1>2. <<0, t>> \in G
  <2>1. t \in Translators /\ 0 \in 0 .. n
    BY <1>1 DEF Between, Formed
  <2> QED BY <2>1
<1>3. ASSUME NEW k \in 1 .. n, NEW s, <<k - 1, s>> \in G
      PROVE  <<k, FinalItem(s, k, items[k], signed)>> \in G
  <2> DEFINE v == FinalItem(s, k, items[k], signed)
  <2>1. /\ Between(s, items, n) /\ s.started /\ s.ended = "no"
        /\ \A m \in 1 .. n : Told(s, items[m], m)
    BY <1>3
  <2>2. Again(s, v, items, n, k)
    BY <1>1, <2>1, WritesAgain
  <2> HIDE DEF v
  <2>3. Between(v, items, n) /\ v.started /\ v.ended = "no" /\ v \in Translators /\ k \in 0 .. n
    BY <1>1, <2>1, <2>2 DEF Again, Kept, Between, Formed
  <2>4. \A m \in 1 .. n : Told(v, items[m], m)
    <3> TAKE m \in 1 .. n
    <3>1. CASE m = k
      BY <2>2, <3>1 DEF Again
    <3>2. CASE m # k
      BY <2>1, <2>2, <3>2 DEF Again, Kept, Told
    <3> QED BY <3>1, <3>2
  <2> QED BY <2>3, <2>4 DEF v
<1> HIDE DEF G
<1>4. <<n, u>> \in G
  BY <1>1, <1>2, <1>3, EmitsAll
<1> HIDE DEF u
<1>5. /\ Between(u, items, n) /\ u.started /\ u.ended = "no"
      /\ \A m \in 1 .. n : Told(u, items[m], m)
  BY <1>4 DEF G
<1> QED BY <1>5 DEF AllGot, Got, Told, u

\* The output alone has the content: everything is written.
LEMMA OutputLast ==
  ASSUME NEW p \in Plans, NEW t, Between(t, p.items, 0), t.started, t.ended = "no", NEW signed
  PROVE  AllGot(EmitFinalOutput(t, p.items, signed), p.items, TRUE)
<1> DEFINE items == p.items
           n == Len(p.items)
           G == {x \in (0 .. n) \X Translators :
                   /\ Between(x[2], items, x[1]) /\ x[2].started /\ x[2].ended = "no"
                   /\ \A m \in 1 .. x[1] : Got(x[2], items, m, TRUE)}
           u == EmitFinalOutput(t, items, signed)
<1>1. n \in Nat /\ \A k \in 1 .. n : items[k] \in Kinds
  BY PlanTyped
<1>2. <<0, t>> \in G
  <2>1. t \in Translators /\ 0 \in 0 .. n
    BY <1>1 DEF Between, Formed
  <2>2. \A m \in 1 .. 0 : Got(t, items, m, TRUE)
    OBVIOUS
  <2> QED BY <2>1, <2>2
<1>3. ASSUME NEW k \in 1 .. n, NEW s, <<k - 1, s>> \in G
      PROVE  <<k, FinalItem(s, k, items[k], signed)>> \in G
  <2> DEFINE v == FinalItem(s, k, items[k], signed)
  <2>0. k \in Nat \ {0} /\ k - 1 \in Nat /\ \A m \in 1 .. k : items[m] \in Kinds
    BY <1>1
  <2>1. /\ Between(s, items, k - 1) /\ s.started /\ s.ended = "no"
        /\ \A m \in 1 .. k - 1 : Got(s, items, m, TRUE)
    BY <1>3
  <2>2. Written(s, v, items, k)
    BY <2>0, <2>1, WritesLast
  <2> HIDE DEF v
  <2>3. Between(v, items, k) /\ v.started /\ v.ended = "no" /\ v \in Translators /\ k \in 0 .. n
    BY <1>1, <2>1, <2>2 DEF Written, Kept, Between, Formed
  <2>4. \A m \in 1 .. k : Got(v, items, m, TRUE)
    <3> TAKE m \in 1 .. k
    <3>1. CASE m = k
      BY <2>2, <3>1 DEF Written
    <3>2. CASE m # k
      <4>1. m \in 1 .. k - 1
        BY <2>0, <3>2
      <4> QED BY <2>1, <2>2, <3>2, <4>1 DEF Written, Kept, Got
    <3> QED BY <3>1, <3>2
  <2> QED BY <2>3, <2>4 DEF v
<1> HIDE DEF G
<1>4. <<n, u>> \in G
  BY <1>1, <1>2, <1>3, EmitsAll
<1> HIDE DEF u
<1>5. /\ Between(u, items, n) /\ u.started /\ u.ended = "no"
      /\ \A m \in 1 .. n : Got(u, items, m, TRUE)
  BY <1>4 DEF G
<1> QED BY <1>5 DEF AllGot, u

-------------------------------------------------------------------------------
(* The end of the stream.                                                  *)

\* The blocks of t are closed, with what they have.
Stopped(t, u) ==
  /\ u \in Translators /\ u.display = t.display /\ u.started = t.started
  /\ DOMAIN u.out = DOMAIN t.out
  /\ \A i \in DOMAIN t.out :
       /\ u.out[i].item = t.out[i].item /\ u.out[i].kind = t.out[i].kind /\ u.out[i].pieces = t.out[i].pieces
       /\ ~u.out[i].open /\ u.out[i].signature \in {NoItem, t.out[i].item}

\* A stream that may be stopped.
Stoppable(t, items, n) ==
  /\ Formed(t, items, n) /\ t.ended = "no"
  /\ t.thinking # 0 => t.signature \in {NoItem, t.out[t.thinking].item}

\* The thinking block is closed.
ThinkingStopped(t, v) ==
  /\ v \in Translators /\ v.display = t.display /\ v.started = t.started /\ v.ended = t.ended /\ v.reason = t.reason
  /\ DOMAIN v.out = DOMAIN t.out
  /\ \A i \in DOMAIN t.out :
       /\ v.out[i].item = t.out[i].item /\ v.out[i].kind = t.out[i].kind /\ v.out[i].pieces = t.out[i].pieces
       /\ v.out[i].kind = "thinking" => ~v.out[i].open
       /\ v.out[i].signature \in {NoItem, t.out[i].item}

\* The thinking block is closed with the signature of its own item or none.
LEMMA ThinkingStops ==
  ASSUME NEW t, NEW items, NEW n, Stoppable(t, items, n)
  PROVE  ThinkingStopped(t, FinalizeThinking(t, TRUE))
<1> DEFINE u == FinalizeThinking(t, TRUE)
           i == t.thinking
           b == [t.out[i] EXCEPT !.signature = t.signature, !.open = FALSE]
           all == IF t.current = NoItem THEN t.completed ELSE t.completed \cup {t.current}
           o == [t.out EXCEPT ![i] = b]
<1>1. t \in Translators /\ Formed(t, items, n) /\ t.out \in Seq(Blocks) /\ DOMAIN t.out = 1 .. Len(t.out)
      /\ Len(t.out) \in Nat /\ \A j \in DOMAIN t.out : t.out[j] \in Blocks
  BY OutTyped DEF Stoppable, Formed
<1>2. CASE t.thinking = 0
  <2>1. \A j \in DOMAIN t.out : t.out[j].kind = "thinking" => ~t.out[j].open
    BY <1>1, <1>2 DEF Formed
  <2>2. u = t \/ u = [t EXCEPT !.signature = NoItem]
    BY <1>2 DEF FinalizeThinking
  <2>3. /\ u \in Translators /\ u.display = t.display /\ u.started = t.started /\ u.ended = t.ended
        /\ u.reason = t.reason /\ u.out = t.out
    <3>1. NoItem \in Nat
      BY DEF NoItem
    <3>2. CASE u = t
      BY <1>1, <3>2
    <3>3. CASE u = [t EXCEPT !.signature = NoItem]
      BY <1>1, <3>1, <3>3 DEF Translators
    <3> QED BY <2>2, <3>2, <3>3
  <2> HIDE DEF u
  <2>4. ThinkingStopped(t, u)
    BY <1>1, <2>1, <2>3 DEF ThinkingStopped, Formed
  <2> QED BY <2>4 DEF u
<1>3. CASE t.thinking # 0
  <2>1. i \in DOMAIN t.out /\ t.out[i].kind = "thinking" /\ t.signature \in {NoItem, t.out[i].item}
        /\ t.out[i] \in Blocks
    <3>1. i = Len(t.out) /\ i \in Nat /\ t.out[i].kind = "thinking" /\ t.signature \in {NoItem, t.out[i].item}
      BY <1>1, <1>3 DEF Stoppable, Formed
    <3> QED BY <1>1, <1>3, <3>1
  <2>2. t.display # "off"
    BY <1>1, <2>1 DEF Formed
  <2>3. PICK no \in BOOLEAN : no = FALSE
    OBVIOUS
  <2>4. u = [t EXCEPT !.out = o, !.completed = all, !.thinking = 0, !.pending = no, !.signature = NoItem, !.current = NoItem]
    <3>1. u = [t EXCEPT !.out[i].signature = t.signature, !.out[i].open = FALSE,
                       !.completed = IF t.current = NoItem THEN @ ELSE @ \cup {t.current},
                       !.thinking = 0, !.pending = FALSE,
                       !.signature = IF TRUE THEN NoItem ELSE @,
                       !.current = IF TRUE THEN NoItem ELSE @]
      BY <1>3, <2>2 DEF FinalizeThinking
    <3>2. [[t.out EXCEPT ![i].signature = t.signature] EXCEPT ![i].open = FALSE] = o
      BY <2>1
    <3>3. [t EXCEPT !.out[i].signature = t.signature, !.out[i].open = FALSE].out = o
      BY <1>1, <2>1, <3>2 DEF Translators
    <3> QED BY <1>1, <2>3, <3>1, <3>3 DEF Translators
  <2>5. /\ b \in Blocks /\ b.item = t.out[i].item /\ b.kind = t.out[i].kind /\ ~b.open
        /\ b.signature = t.signature /\ b.pieces = t.out[i].pieces
    <3>1. b = [t.out[i] EXCEPT !.signature = t.signature, !.open = no]
      BY <2>3
    <3>2. t.signature \in Nat
      BY <1>1 DEF Translators
    <3> QED BY <2>1, <2>3, <3>1, <3>2 DEF Blocks
  <2>6. all \in SUBSET Nat
    BY <1>1 DEF Translators
  <2> HIDE DEF b
  <2>7. o \in Seq(Blocks) /\ DOMAIN o = DOMAIN t.out /\ o[i] = b /\ \A j \in DOMAIN t.out : j # i => o[j] = t.out[j]
    BY <1>1, <2>1, <2>5, ExceptSeq
  <2> HIDE DEF u, o, all
  <2>8. /\ u \in Translators /\ u.display = t.display /\ u.started = t.started /\ u.ended = t.ended
        /\ u.reason = t.reason /\ u.out = o
    BY <1>1, <2>4, <2>6, <2>7 DEF Translators, NoItem
  <2>9. ASSUME NEW j \in DOMAIN t.out
        PROVE  /\ u.out[j].item = t.out[j].item /\ u.out[j].kind = t.out[j].kind /\ u.out[j].pieces = t.out[j].pieces
               /\ u.out[j].kind = "thinking" => ~u.out[j].open
               /\ u.out[j].signature \in {NoItem, t.out[j].item}
    <3>1. CASE j = i
      BY <2>1, <2>5, <2>7, <2>8, <3>1
    <3>2. CASE j # i
      <4>1. t.out[j].signature \in {NoItem, t.out[j].item} /\ (t.out[j].kind = "thinking" => ~t.out[j].open)
        BY <1>1, <3>2 DEF Formed
      <4> QED BY <2>7, <2>8, <3>2, <4>1
    <3> QED BY <3>1, <3>2
  <2>10. ThinkingStopped(t, u)
    BY <2>7, <2>8, <2>9 DEF ThinkingStopped
  <2> QED BY <2>10 DEF u
<1> QED BY <1>2, <1>3

\* Every block is closed.
LEMMA Stops ==
  ASSUME NEW t, NEW items, NEW n, Stoppable(t, items, n)
  PROVE  Stopped(t, StopAllBlocks(FinalizeThinking(t, TRUE)))
<1> DEFINE v == FinalizeThinking(t, TRUE)
           w == StopAllBlocks(v)
<1>1. ThinkingStopped(t, v)
  BY ThinkingStops
<1> HIDE DEF v
<1> DEFINE o == [i \in DOMAIN v.out |->
                   IF v.out[i].kind = "thinking" THEN v.out[i] ELSE [v.out[i] EXCEPT !.open = FALSE]]
<1>2. v \in Translators /\ v.out \in Seq(Blocks) /\ DOMAIN v.out = 1 .. Len(v.out) /\ Len(v.out) \in Nat
      /\ \A i \in DOMAIN v.out : v.out[i] \in Blocks
  BY <1>1, OutTyped DEF ThinkingStopped
<1>3. w = [v EXCEPT !.out = o]
  BY DEF StopAllBlocks
<1>4. ASSUME NEW i \in DOMAIN v.out
      PROVE  /\ o[i] \in Blocks /\ o[i].item = v.out[i].item /\ o[i].kind = v.out[i].kind
             /\ o[i].pieces = v.out[i].pieces /\ o[i].signature = v.out[i].signature
             /\ v.out[i].kind = "thinking" => o[i] = v.out[i]
             /\ v.out[i].kind # "thinking" => ~o[i].open
  <2>1. CASE v.out[i].kind = "thinking"
    BY <1>2, <2>1
  <2>2. CASE v.out[i].kind # "thinking"
    <3>1. PICK no \in BOOLEAN : no = FALSE
      OBVIOUS
    <3>2. o[i] = [v.out[i] EXCEPT !.open = no] /\ v.out[i] \in Blocks
      BY <1>2, <2>2, <3>1
    <3> HIDE DEF o
    <3> QED BY <2>2, <3>1, <3>2 DEF Blocks
  <2> QED BY <2>1, <2>2
<1>5. DOMAIN o = DOMAIN v.out /\ o \in [1 .. Len(v.out) -> Blocks]
  BY <1>2, <1>4
<1>6. o \in Seq(Blocks)
  BY <1>2, <1>5
<1> HIDE DEF o, w
<1>7. w \in Translators /\ w.display = v.display /\ w.started = v.started /\ w.out = o
  BY <1>2, <1>3, <1>6 DEF Translators
<1>8. Stopped(t, w)
  BY <1>1, <1>4, <1>5, <1>7 DEF Stopped, ThinkingStopped
<1> QED BY <1>8 DEF w, v

AnthropicDelivered(t, p, b) ==
  \A k \in DOMAIN p.items :
    /\ b \in {"completed", "done"} => Got(t, p.items, k, p.mode = "last")
    /\ PartOf(Read(t.out, k), Whole)

AnthropicEnded(t, p, b) ==
  /\ t.out # <<>> => t.started
  /\ t.ended # "no"
  /\ \A i \in DOMAIN t.out : ~t.out[i].open /\ t.out[i].signature \in {NoItem, t.out[i].item}
  /\ AnthropicDelivered(t, p, b)
  /\ b \in {"cut", "failed"} => t.ended # "stop"
  /\ b \in {"completed", "incomplete", "done"} => t.ended = "stop"
  /\ t.ended = "stop" => (t.reason = "tool_use" <=> HasToolUse(t))

\* The same frames, and the one that ends the message.
Concludes(s, u, b) ==
  /\ u.out = s.out /\ u.started = s.started /\ u.display = s.display /\ u.ended # "no"
  /\ b \in {"cut", "failed"} => u.ended # "stop"
  /\ b \in {"completed", "incomplete", "done"} => u.ended = "stop"
  /\ u.ended = "stop" => (u.reason = "tool_use" <=> HasToolUse(s))

\* The client reads what it read.
LEMMA StoppedReads ==
  ASSUME NEW t, NEW s, Stopped(t, s)
  PROVE  (\A k : Read(s.out, k) = Read(t.out, k)) /\ (HasToolUse(s) <=> HasToolUse(t))
<1>1. \A k : Read(s.out, k) = Read(t.out, k)
  BY ReadSame DEF Stopped
<1>2. HasToolUse(s) <=> HasToolUse(t)
  BY DEF HasToolUse, Stopped
<1> QED BY <1>1, <1>2

\* A message whose blocks are closed, and then its end.
LEMMA AnthropicEnds ==
  ASSUME NEW t, NEW s, NEW u, NEW items, NEW n, NEW p, NEW b, Formed(t, items, n), Stopped(t, s),
         t.out # <<>> => s.started, AnthropicDelivered(t, p, b), Concludes(s, u, b)
  PROVE  AnthropicEnded(u, p, b)
<1>1. \A k : Read(u.out, k) = Read(t.out, k)
  BY StoppedReads DEF Concludes
<1>2. HasToolUse(u) <=> HasToolUse(s)
  BY DEF HasToolUse, Concludes
<1>3. u.display = t.display
  BY DEF Stopped, Concludes
<1>4. AnthropicDelivered(u, p, b)
  BY <1>1, <1>3 DEF AnthropicDelivered, Got
<1>5. u.out # <<>> => u.started
  <2>1. t \in Translators /\ s \in Translators
    BY DEF Formed, Stopped
  <2>2. t.out = <<>> => s.out = <<>>
    <3>1. Len(t.out) = 0 => Len(s.out) = 0
      BY <2>1, OutTyped DEF Stopped
    <3> QED BY <2>1, <3>1, OutTyped
  <2> QED BY <2>2 DEF Concludes
<1>6. \A i \in DOMAIN u.out : ~u.out[i].open /\ u.out[i].signature \in {NoItem, u.out[i].item}
  BY DEF Stopped, Concludes
<1> QED BY <1>2, <1>4, <1>5, <1>6 DEF AnthropicEnded, Concludes

\* The message starts, if it had not.
LEMMA StartStoppable ==
  ASSUME NEW t, NEW items, NEW n, Stoppable(t, items, n)
  PROVE  /\ Stoppable(EnsureStart(t), items, n) /\ EnsureStart(t).started /\ EnsureStart(t).out = t.out
         /\ EnsureStart(t).display = t.display
<1> DEFINE u == EnsureStart(t)
<1>1. t \in Translators
  BY DEF Stoppable, Formed
<1>2. /\ u \in Translators /\ u.started /\ u.display = t.display /\ u.ended = t.ended /\ u.completed = t.completed
      /\ u.reason = t.reason /\ u.out = t.out /\ u.thinking = t.thinking /\ u.signature = t.signature
  BY <1>1 DEF EnsureStart, Translators
<1> HIDE DEF u
<1>3. Formed(u, items, n)
  BY <1>2 DEF Stoppable, Formed
<1> QED BY <1>2, <1>3 DEF Stoppable, u

\* message_stop ends a message.
LEMMA AnthropicFinishes ==
  ASSUME NEW t, NEW items, NEW n, Stoppable(t, items, n), NEW p, NEW b \in {"completed", "incomplete", "done"},
         AnthropicDelivered(t, p, b), NEW reason \in {"", "tool_use", "max_tokens", "end_turn"},
         reason # "" => (reason = "tool_use" <=> HasToolUse(t))
  PROVE  AnthropicEnded(Finish(t, reason), p, b)
<1> DEFINE v == EnsureStart(t)
           s == StopAllBlocks(FinalizeThinking(v, TRUE))
           r == IF reason # "" THEN reason ELSE IF HasToolUse(t) THEN "tool_use" ELSE "end_turn"
           u == Finish(t, reason)
<1>1. Stoppable(v, items, n) /\ v.started /\ v.out = t.out /\ v.display = t.display
  BY StartStoppable
<1>2. u = [s EXCEPT !.ended = "stop", !.reason = r]
  BY DEF Finish, Stoppable
<1>3. HasToolUse(v) <=> HasToolUse(t)
  BY <1>1 DEF HasToolUse
<1>4. r = "tool_use" <=> HasToolUse(t)
  OBVIOUS
<1> HIDE DEF v, r, u
<1>5. Stopped(v, s)
  BY <1>1, Stops
<1> HIDE DEF s
<1>6. HasToolUse(s) <=> HasToolUse(v)
  BY <1>5, StoppedReads
<1>7. u.out = s.out /\ u.started = s.started /\ u.display = s.display /\ u.ended = "stop" /\ u.reason = r
  BY <1>2, <1>5 DEF Stopped, Translators
<1>8. Concludes(s, u, b)
  BY <1>3, <1>4, <1>6, <1>7 DEF Concludes
<1>9. AnthropicDelivered(v, p, b)
  BY <1>1 DEF AnthropicDelivered, Got
<1>10. AnthropicEnded(u, p, b)
  BY <1>1, <1>5, <1>8, <1>9, AnthropicEnds DEF Stopped, Stoppable
<1> QED BY <1>10 DEF u

\* An error ends a message.
LEMMA AnthropicFails ==
  ASSUME NEW t, NEW items, NEW n, Stoppable(t, items, n), NEW p, NEW b \in {"cut", "failed"},
         AnthropicDelivered(t, p, b)
  PROVE  AnthropicEnded(Fail(t), p, b)
<1> DEFINE s == StopAllBlocks(FinalizeThinking(t, TRUE))
           u == Fail(t)
<1>1. u = [s EXCEPT !.ended = "error"]
  BY DEF Fail, Stoppable
<1>2. Stopped(t, s)
  BY Stops
<1> HIDE DEF s, u
<1>3. u.out = s.out /\ u.started = s.started /\ u.display = s.display /\ u.ended = "error"
  BY <1>1, <1>2 DEF Stopped, Translators
<1>4. Concludes(s, u, b)
  BY <1>3 DEF Concludes
<1>5. Formed(t, items, n) /\ (t.out # <<>> => s.started)
  BY <1>2 DEF Stoppable, Stopped, Formed
<1>6. AnthropicEnded(u, p, b)
  BY <1>2, <1>4, <1>5, AnthropicEnds
<1> QED BY <1>6 DEF u

\* Nothing was written, and an error response is.
LEMMA AnthropicRefuses ==
  ASSUME NEW t, NEW items, NEW n, Stoppable(t, items, n), NEW p, AnthropicDelivered(t, p, "cut")
  PROVE  AnthropicEnded(PipeEnds(t), p, "cut")
<1> DEFINE u == PipeEnds(t)
<1>1. CASE t.started
  <2>1. u = Fail(t)
    BY <1>1 DEF PipeEnds, Stoppable
  <2> QED BY <2>1, AnthropicFails
<1>2. CASE ~t.started
  <2>1. u = [t EXCEPT !.ended = "refused"]
    BY <1>2 DEF PipeEnds, Stoppable
  <2>2. t \in Translators /\ t.out = <<>>
    BY <1>2 DEF Stoppable, Formed
  <2> HIDE DEF u
  <2>3. u.out = <<>> /\ u.display = t.display /\ u.ended = "refused"
    BY <2>1, <2>2 DEF Translators
  <2>4. AnthropicDelivered(u, p, "cut")
    BY <2>2, <2>3 DEF AnthropicDelivered
  <2>5. AnthropicEnded(u, p, "cut")
    BY <2>3, <2>4 DEF AnthropicEnded
  <2> QED BY <2>5 DEF u
<1> QED BY <1>1, <1>2

\* What ended stays as it is.
LEMMA AnthropicStays ==
  ASSUME NEW t, NEW p, NEW b, AnthropicEnded(t, p, b)
  PROVE  ProcessDone(t) = t /\ PipeEnds(t) = t
BY DEF AnthropicEnded, ProcessDone, PipeEnds, Finish

-------------------------------------------------------------------------------
(* The Anthropic translator: its invariant.                                *)

\* An Anthropic translator that was told nothing.
LEMMA AnthropicInit ==
  ASSUME NEW p, NEW display \in Displays
  PROVE  AnthropicStreams(Translator(display), p, 0, 0)
<1> DEFINE t == Translator(display)
<1>1. /\ t \in Translators /\ t.out = <<>> /\ t.thinking = 0 /\ t.signature = NoItem /\ t.ended = "no"
      /\ t.completed = {}
  BY DEF Translator, Translators, NoItem
<1> HIDE DEF t
<1>2. Formed(t, p.items, 0) /\ Rests(t)
  BY <1>1 DEF Formed, Rests
<1>3. \A k \in 1 .. 0 - 1 : Told(t, p.items[k], k)
  OBVIOUS
<1>4. AnthropicStreams(t, p, 0, 0)
  BY <1>1, <1>2, <1>3 DEF AnthropicStreams
<1> QED BY <1>4 DEF t

\* response.created.
LEMMA AnthropicCreated ==
  ASSUME NEW t, NEW p, NEW j, NEW i, AnthropicStreams(t, p, 0, j)
  PROVE  AnthropicStreams(EnsureStart(t), p, 0, i)
<1> DEFINE u == EnsureStart(t)
<1>1. t \in Translators /\ Formed(t, p.items, 0) /\ Rests(t) /\ t.ended = "no"
  BY DEF AnthropicStreams, Formed
<1>2. /\ u \in Translators /\ u.started /\ u.display = t.display /\ u.ended = t.ended /\ u.completed = t.completed
      /\ u.out = t.out /\ u.thinking = t.thinking /\ u.signature = t.signature
  BY <1>1 DEF EnsureStart, Translators
<1> HIDE DEF u
<1>3. Formed(u, p.items, 0) /\ Rests(u)
  BY <1>1, <1>2 DEF Formed, Rests
<1>4. \A k \in 1 .. 0 - 1 : Told(u, p.items[k], k)
  OBVIOUS
<1>5. AnthropicStreams(u, p, 0, i)
  BY <1>1, <1>2, <1>3, <1>4 DEF AnthropicStreams
<1> QED BY <1>5 DEF u

\* A stream may end anywhere.
LEMMA StreamsStoppable ==
  ASSUME NEW p \in Plans, NEW c \in 0 .. Len(p.items), NEW j, NEW t, AnthropicStreams(t, p, c, j)
  PROVE  Stoppable(t, p.items, c)
<1>1. Formed(t, p.items, c) /\ t.ended = "no"
  BY DEF AnthropicStreams
<1>2. t.thinking # 0 => t.signature \in {NoItem, t.out[t.thinking].item}
  <2>1. CASE c = 0
    BY <2>1 DEF AnthropicStreams, Rests
  <2>2. CASE c # 0
    <3>1. c > 0 /\ c \in 1 .. Len(p.items) /\ p.items[c] \in Kinds /\ AtItem(t, p.items, p.mode, p.parts, c, j)
      BY <2>2, PlanTyped DEF AnthropicStreams
    <3>2. CASE p.items[c] \in {"message", "call"}
      BY <3>1, <3>2 DEF AtItem, Contents
    <3>3. CASE p.items[c] = "reasoning"
      BY <3>1, <3>3 DEF AtItem, AtThinking, Thinks
    <3> QED BY <3>1, <3>2, <3>3 DEF Kinds
  <2> QED BY <2>1, <2>2
<1> QED BY <1>1, <1>2 DEF Stoppable

\* What is due is a part of the content.
LEMMA DuePart == \A display, kind : PartOf(Due(display, kind), Whole)
BY PartsOf DEF Due

\* What was read of an item is a part of it.
LEMMA AnthropicStreamsParts ==
  ASSUME NEW p \in Plans, NEW c \in 0 .. Len(p.items), NEW j \in Nat,
         NEW t, AnthropicStreams(t, p, c, j), NEW k \in 1 .. Len(p.items)
  PROVE  PartOf(Read(t.out, k), Whole)
<1>0. PartOf(<<>>, Whole) /\ PartOf(<<1>>, Whole) /\ PartOf(Whole, Whole)
  BY PartsOf, Parts
<1>1. c \in Nat /\ k \in Nat /\ k > 0 /\ p.items[k] \in Kinds
  BY PlanTyped
<1>2. CASE k < c
  <2>1. Read(t.out, k) = Due(t.display, p.items[k])
    BY <1>1, <1>2 DEF AnthropicStreams, Told
  <2> QED BY <2>1, DuePart
<1>3. CASE k = c
  <2>1. AtItem(t, p.items, p.mode, p.parts, k, j)
    BY <1>1, <1>3 DEF AnthropicStreams
  <2>2. CASE p.items[k] = "message"
    BY <1>0, <2>1, <2>2 DEF AtItem, Contents, TextTold
  <2>3. CASE p.items[k] = "call"
    BY <1>0, <2>1, <2>3 DEF AtItem, Contents, ArgsTold
  <2>4. CASE p.items[k] = "reasoning"
    BY <1>0, <2>1, <2>4 DEF AtItem, AtThinking, Thinks, ReasoningTold
  <2> QED BY <1>1, <2>2, <2>3, <2>4 DEF Kinds
<1>4. CASE k > c
  <2>1. t \in Translators /\ t.out \in Seq(Blocks)
    BY OutTyped DEF AnthropicStreams, Formed
  <2>2. \A i \in DOMAIN t.out : t.out[i].item # k
    BY <1>1, <1>4 DEF AnthropicStreams, Formed
  <2>3. Read(t.out, k) = <<>>
    BY <2>1, <2>2, BlocksPiecewise, ReadNone
  <2> QED BY <1>0, <2>3
<1> QED BY <1>1, <1>2, <1>3, <1>4

\* When all was told, nothing is open and everything was read.
LEMMA AnthropicStreamsDone ==
  ASSUME NEW p \in Plans, p.mode # "last", NEW j \in Nat, j <= Len(Script(p, Len(p.items))), j > 0,
         Complete(Script(p, Len(p.items)), j), NEW t, AnthropicStreams(t, p, Len(p.items), j)
  PROVE  /\ Between(t, p.items, Len(p.items)) /\ t.started
         /\ \A k \in 1 .. Len(p.items) : Told(t, p.items[k], k)
<1> DEFINE n == Len(p.items)
<1>1. n \in Nat /\ n > 0 /\ n \in 1 .. n
  BY DEF Plans
<1>2. AtItem(t, p.items, p.mode, p.parts, n, j) /\ t.started
  BY <1>1 DEF AnthropicStreams
<1>3. Rests(t) /\ Told(t, p.items[n], n)
  BY <1>1, <1>2, ItemEnds
<1>4. ASSUME NEW k \in 1 .. n PROVE Told(t, p.items[k], k)
  <2>1. k = n \/ k \in 1 .. n - 1
    BY <1>1
  <2> QED BY <1>3, <2>1 DEF AnthropicStreams
<1> QED BY <1>2, <1>3, <1>4 DEF Between, AnthropicStreams

\* What the last event brought was delivered.
LEMMA AllGotDelivered ==
  ASSUME NEW p \in Plans, NEW t, NEW repeats, AllGot(t, p.items, repeats), repeats => p.mode = "last", NEW b
  PROVE  AnthropicDelivered(t, p, b)
<1> SUFFICES ASSUME NEW k \in DOMAIN p.items
             PROVE  Got(t, p.items, k, p.mode = "last") /\ PartOf(Read(t.out, k), Whole)
  BY DEF AnthropicDelivered
<1>1. Got(t, p.items, k, repeats)
  BY PlanTyped DEF AllGot
<1>2. Read(t.out, k) = Due(t.display, p.items[k]) \/ Read(t.out, k) = <<>>
  BY <1>1 DEF Got
<1>3. PartOf(Read(t.out, k), Whole)
  BY <1>2, DuePart, PartsOf
<1> QED BY <1>1, <1>3 DEF Got

\* After the output nothing is open.
LEMMA AllGotStoppable ==
  ASSUME NEW t, NEW items, NEW repeats, AllGot(t, items, repeats)
  PROVE  Stoppable(t, items, Len(items))
BY DEF AllGot, Between, Rests, Stoppable

\* A message starts once.
LEMMA StartedAlready ==
  ASSUME NEW t \in Translators, t.started
  PROVE  EnsureStart(t) = t
<1>1. PICK yes \in BOOLEAN : yes = TRUE
  OBVIOUS
<1>2. [t EXCEPT !.started = yes] = t
  BY <1>1 DEF Translators
<1> QED BY <1>1, <1>2 DEF EnsureStart

AnthropicInv ==
  /\ StreamAt
  /\ state = "open" => AnthropicStreams(an, plan, pos.item, pos.at)
  /\ state # "open" => AnthropicEnded(an, plan, by)

\* The invariant of the Anthropic translator holds at first.
LEMMA AnthropicInvInit ==
  ASSUME StreamInit PROVE AnthropicInv
<1>1. AnthropicStreams(an, plan, pos.item, pos.at)
  BY AnthropicInit DEF StreamInit
<1> QED BY <1>1, StreamAtInit DEF AnthropicInv, StreamInit

\* Until the stream ended, what was read of an item is a part of it.
LEMMA AnthropicSoFar ==
  ASSUME AnthropicInv, state = "open"
  PROVE  /\ Stoppable(an, plan.items, pos.item)
         /\ \A b : (b \in {"completed", "done"} => AllTold /\ plan.mode # "last") => AnthropicDelivered(an, plan, b)
<1>1. /\ plan \in Plans /\ pos.item \in 0 .. Len(plan.items) /\ (plan.mode = "last" => pos.item = 0)
      /\ pos.at \in Nat /\ pos.at <= Len(Script(plan, pos.item)) /\ (pos.item > 0 => pos.at > 0)
      /\ AnthropicStreams(an, plan, pos.item, pos.at)
  BY DEF AnthropicInv, StreamAt
<1>2. DOMAIN plan.items = 1 .. Len(plan.items)
  BY <1>1, PlanTyped
<1>3. Stoppable(an, plan.items, pos.item)
  BY <1>1, StreamsStoppable
<1>4. ASSUME NEW k \in DOMAIN plan.items
      PROVE  PartOf(Read(an.out, k), Whole)
  BY <1>1, <1>2, AnthropicStreamsParts
<1>5. ASSUME NEW k \in DOMAIN plan.items, AllTold, plan.mode # "last"
      PROVE  Got(an, plan.items, k, plan.mode = "last")
  <2>1. Complete(Script(plan, pos.item), pos.at) /\ pos.item = Len(plan.items)
    BY <1>5 DEF AllTold, ItemTold
  <2>2. Len(plan.items) > 0
    BY <1>1 DEF Plans
  <2>3. Told(an, plan.items[k], k)
    BY <1>1, <1>2, <1>5, <2>1, <2>2, AnthropicStreamsDone
  <2> QED BY <2>3 DEF Told, Got
<1> QED BY <1>3, <1>4, <1>5 DEF AnthropicDelivered

\* An event about an item keeps it.
LEMMA AnthropicInvTell ==
  ASSUME AnthropicInv, state = "open", NEW k, NEW i, Tell(k, i), IsNext(k, i), plan' = plan
  PROVE  AnthropicStreams(an', plan, k, i)
<1>1. /\ plan \in Plans /\ pos.item \in 0 .. Len(plan.items)
      /\ pos.at \in Nat /\ pos.at <= Len(Script(plan, pos.item)) /\ (pos.item > 0 => pos.at > 0)
      /\ AnthropicStreams(an, plan, pos.item, pos.at)
  BY DEF AnthropicInv, StreamAt
<1>2. CASE k = 0
  <2>1. k = 0 /\ pos.item = 0 /\ i = 1
    BY <1>1, <1>2, PlanTyped DEF IsNext
  <2>2. Script(plan, 0)[1].type = "created"
    BY DEF Script, Optional
  <2>3. an' = EnsureStart(an)
    BY <2>1, <2>2 DEF Tell, ProcessItem
  <2> QED BY <1>1, <2>1, <2>3, AnthropicCreated
<1>3. CASE k # 0
  <2>1. /\ k \in 1 .. Len(plan.items) /\ plan.mode # "last"
        /\ \/ k = pos.item /\ i \in After(Script(plan, k), pos.at)
           \/ k = pos.item + 1 /\ Complete(Script(plan, pos.item), pos.at) /\ i \in After(Script(plan, k), 0)
    BY <1>3 DEF IsNext, ItemTold
  <2>2. an' = ProcessItem(an, Script(plan, k)[i], plan.items[k], Signed(Script(plan, k)[i]))
    BY <1>3 DEF Tell
  <2> QED BY <1>1, <2>1, <2>2, AnthropicStreamsEvent
<1> QED BY <1>2, <1>3

\* response.completed, with the output or without it.
LEMMA AnthropicCompletes ==
  ASSUME AnthropicInv, state = "open", AllTold, NEW output \in BOOLEAN, plan.mode = "last" => output, NEW signed
  PROVE  AnthropicEnded(ProcessCompleted(an, plan.items, output, signed, FALSE), plan, "completed")
<1> DEFINE n == Len(plan.items)
           u == IF output THEN EmitFinalOutput(EnsureStart(an), plan.items, signed) ELSE EnsureStart(an)
           reason == IF HasToolUse(u) THEN "tool_use" ELSE "end_turn"
<1>1. /\ plan \in Plans /\ pos.item \in 0 .. Len(plan.items) /\ (plan.mode = "last" => pos.item = 0)
      /\ pos.at \in Nat /\ pos.at <= Len(Script(plan, pos.item)) /\ (pos.item > 0 => pos.at > 0)
      /\ AnthropicStreams(an, plan, pos.item, pos.at)
  BY DEF AnthropicInv, StreamAt
<1>2. /\ Stoppable(EnsureStart(an), plan.items, pos.item) /\ EnsureStart(an).started
      /\ EnsureStart(an).out = an.out /\ EnsureStart(an).display = an.display
  BY AnthropicSoFar, StartStoppable
<1>3. \E m : Stoppable(u, plan.items, m) /\ AnthropicDelivered(u, plan, "completed")
  <2>1. CASE ~output
    <3>1. u = EnsureStart(an) /\ plan.mode # "last"
      BY <2>1
    <3>2. AnthropicDelivered(an, plan, "completed")
      BY <3>1, AnthropicSoFar
    <3>3. AnthropicDelivered(EnsureStart(an), plan, "completed")
      BY <1>2, <3>2 DEF AnthropicDelivered, Got
    <3> QED BY <1>2, <3>1, <3>3
  <2>2. CASE output /\ plan.mode # "last"
    <3>1. Complete(Script(plan, pos.item), pos.at) /\ pos.item = n /\ n > 0
      BY <1>1, <2>2 DEF AllTold, ItemTold, Plans
    <3>2. /\ Between(an, plan.items, n) /\ an.started
          /\ \A k \in 1 .. n : Told(an, plan.items[k], k)
      BY <1>1, <2>2, <3>1, AnthropicStreamsDone
    <3>3. an \in Translators /\ an.ended = "no"
      BY <1>1, <3>2 DEF AnthropicStreams, Between, Formed
    <3>4. EnsureStart(an) = an
      BY <3>2, <3>3, StartedAlready
    <3>5. AllGot(EmitFinalOutput(an, plan.items, signed), plan.items, FALSE)
      BY <1>1, <3>2, <3>3, OutputAgain
    <3>6. u = EmitFinalOutput(an, plan.items, signed)
      BY <2>2, <3>4
    <3> HIDE DEF u
    <3>7. AllGot(u, plan.items, FALSE)
      BY <3>5, <3>6
    <3>8. AnthropicDelivered(u, plan, "completed") /\ Stoppable(u, plan.items, n)
      BY <1>1, <3>7, AllGotDelivered, AllGotStoppable
    <3> QED BY <3>8
  <2>3. CASE output /\ plan.mode = "last"
    <3>1. pos.item = 0 /\ Between(an, plan.items, 0) /\ an.ended = "no"
      BY <1>1, <2>3 DEF AnthropicStreams, Between
    <3>2. Between(EnsureStart(an), plan.items, 0) /\ EnsureStart(an).ended = "no"
      <4>1. AnthropicStreams(EnsureStart(an), plan, 0, 0)
        BY <1>1, <3>1, AnthropicCreated
      <4> QED BY <4>1 DEF AnthropicStreams, Between
    <3>3. AllGot(EmitFinalOutput(EnsureStart(an), plan.items, signed), plan.items, TRUE)
      BY <1>1, <1>2, <3>2, OutputLast
    <3>4. u = EmitFinalOutput(EnsureStart(an), plan.items, signed)
      BY <2>3
    <3> HIDE DEF u
    <3>5. AllGot(u, plan.items, TRUE)
      BY <3>3, <3>4
    <3>6. AnthropicDelivered(u, plan, "completed") /\ Stoppable(u, plan.items, n)
      BY <1>1, <2>3, <3>5, AllGotDelivered, AllGotStoppable
    <3> QED BY <3>6
  <2> QED BY <2>1, <2>2, <2>3
<1>4. ProcessCompleted(an, plan.items, output, signed, FALSE) = Finish(u, reason)
  BY DEF ProcessCompleted
<1>5. reason \in {"", "tool_use", "max_tokens", "end_turn"} /\ (reason = "tool_use" <=> HasToolUse(u))
  OBVIOUS
<1> HIDE DEF u, reason
<1>6. AnthropicEnded(Finish(u, reason), plan, "completed")
  BY <1>3, <1>5, AnthropicFinishes
<1> QED BY <1>4, <1>6

\* [DONE] in place of response.completed.
LEMMA AnthropicDone ==
  ASSUME AnthropicInv, state = "open", AllTold, plan.mode # "last"
  PROVE  AnthropicEnded(ProcessDone(an), plan, "done")
<1>1. /\ plan \in Plans /\ pos.item \in 0 .. Len(plan.items)
      /\ pos.at \in Nat /\ pos.at <= Len(Script(plan, pos.item)) /\ (pos.item > 0 => pos.at > 0)
      /\ AnthropicStreams(an, plan, pos.item, pos.at)
  BY DEF AnthropicInv, StreamAt
<1>2. Complete(Script(plan, pos.item), pos.at) /\ pos.item = Len(plan.items) /\ Len(plan.items) > 0
  BY <1>1 DEF AllTold, ItemTold, Plans
<1>3. an.started
  BY <1>1, <1>2, AnthropicStreamsDone
<1>4. Stoppable(an, plan.items, pos.item) /\ AnthropicDelivered(an, plan, "done")
  BY AnthropicSoFar
<1>5. AnthropicEnded(Finish(an, ""), plan, "done")
  BY <1>4, AnthropicFinishes
<1> QED BY <1>3, <1>5 DEF ProcessDone

\* response.incomplete.
LEMMA AnthropicIncomplete ==
  ASSUME AnthropicInv, state = "open"
  PROVE  AnthropicEnded(ProcessCompleted(an, plan.items, FALSE, FALSE, TRUE), plan, "incomplete")
<1> DEFINE u == EnsureStart(an)
           reason == IF HasToolUse(u) THEN "tool_use" ELSE "max_tokens"
<1>1. ProcessCompleted(an, plan.items, FALSE, FALSE, TRUE) = Finish(u, reason)
  BY DEF ProcessCompleted
<1>2. Stoppable(an, plan.items, pos.item) /\ AnthropicDelivered(an, plan, "incomplete")
  BY AnthropicSoFar
<1>3. Stoppable(u, plan.items, pos.item) /\ u.out = an.out /\ u.display = an.display
  BY <1>2, StartStoppable
<1>4. AnthropicDelivered(u, plan, "incomplete")
  BY <1>2, <1>3 DEF AnthropicDelivered, Got
<1>5. reason \in {"", "tool_use", "max_tokens", "end_turn"} /\ (reason = "tool_use" <=> HasToolUse(u))
  OBVIOUS
<1> HIDE DEF u, reason
<1>6. AnthropicEnded(Finish(u, reason), plan, "incomplete")
  BY <1>3, <1>4, <1>5, AnthropicFinishes
<1> QED BY <1>1, <1>6

\* Every step of the stream keeps it.
LEMMA AnthropicInvKept ==
  ASSUME AnthropicInv, [StreamNext]_streamVars
  PROVE  AnthropicInv'
<1>1. StreamAt /\ StreamAt'
  BY StreamAtKept DEF AnthropicInv
<1>2. CASE UNCHANGED streamVars
  BY <1>1, <1>2 DEF AnthropicInv, streamVars
<1>3. CASE ItemEvent
  <2>1. PICK k, i : Tell(k, i) /\ IsNext(k, i) /\ plan' = plan /\ state' = state /\ by' = by /\ state = "open"
    BY <1>1, <1>3, EventIs
  <2>2. pos'.item = k /\ pos'.at = i
    BY <1>1, <2>1, StreamAtTell
  <2>3. AnthropicStreams(an', plan, k, i)
    BY <2>1, AnthropicInvTell
  <2> QED BY <1>1, <2>1, <2>2, <2>3 DEF AnthropicInv
<1>4. CASE Completed
  <2>1. state = "open" /\ AllTold /\ by' = "completed" /\ plan' = plan /\ state' = "ended"
    BY <1>4 DEF Completed
  <2>2. PICK output \in BOOLEAN :
          /\ plan.mode = "last" => output
          /\ an' = ProcessCompleted(an, plan.items, output, plan.signs # "never", FALSE)
    BY <1>4 DEF Completed
  <2>3. AnthropicEnded(an', plan', by')
    BY <2>1, <2>2, AnthropicCompletes
  <2> QED BY <1>1, <2>1, <2>3 DEF AnthropicInv
<1>5. CASE Incomplete
  <2>1. state = "open" /\ an' = ProcessCompleted(an, plan.items, FALSE, FALSE, TRUE) /\ by' = "incomplete"
        /\ plan' = plan /\ state' = "ended"
    BY <1>5 DEF Incomplete
  <2>2. AnthropicEnded(an', plan', by')
    BY <2>1, AnthropicIncomplete
  <2> QED BY <1>1, <2>1, <2>2 DEF AnthropicInv
<1>6. CASE Failed
  <2>1. state = "open" /\ an' = Fail(an) /\ by' = "failed" /\ plan' = plan /\ state' = "ended"
    BY <1>6 DEF Failed
  <2>2. Stoppable(an, plan.items, pos.item) /\ AnthropicDelivered(an, plan, "failed")
    BY <2>1, AnthropicSoFar
  <2>3. AnthropicEnded(an', plan', by')
    BY <2>1, <2>2, AnthropicFails
  <2> QED BY <1>1, <2>1, <2>3 DEF AnthropicInv
<1>7. CASE Done /\ state = "ended"
  <2>1. an' = ProcessDone(an) /\ by' = by /\ plan' = plan /\ state' = "ended"
    BY <1>7 DEF Done
  <2>2. AnthropicEnded(an, plan, by)
    BY <1>7 DEF AnthropicInv
  <2>3. an' = an
    BY <2>1, <2>2, AnthropicStays
  <2> QED BY <1>1, <2>1, <2>2, <2>3 DEF AnthropicInv
<1>8. CASE Done /\ state = "open"
  <2>1. AllTold /\ plan.mode # "last" /\ an' = ProcessDone(an) /\ by' = "done" /\ plan' = plan /\ state' = "ended"
    BY <1>8 DEF Done
  <2>2. AnthropicEnded(an', plan', by')
    BY <1>8, <2>1, AnthropicDone
  <2> QED BY <1>1, <2>1, <2>2 DEF AnthropicInv
<1>9. CASE BodyEnds
  <2>1. an' = PipeEnds(an) /\ plan' = plan /\ state' = "closed" /\ by' = IF state = "open" THEN "cut" ELSE by
    BY <1>9 DEF BodyEnds
  <2>2. CASE state = "open"
    <3>1. Stoppable(an, plan.items, pos.item) /\ AnthropicDelivered(an, plan, "cut")
      BY <2>2, AnthropicSoFar
    <3>2. AnthropicEnded(an', plan', by')
      BY <2>1, <2>2, <3>1, AnthropicRefuses
    <3> QED BY <1>1, <2>1, <3>2 DEF AnthropicInv
  <2>3. CASE state # "open"
    <3>1. AnthropicEnded(an, plan, by)
      BY <2>3 DEF AnthropicInv
    <3>2. an' = an /\ by' = by
      BY <2>1, <2>3, <3>1, AnthropicStays
    <3> QED BY <1>1, <2>1, <3>1, <3>2 DEF AnthropicInv
  <2> QED BY <2>2, <2>3
<1> QED BY <1>1, <1>2, <1>3, <1>4, <1>5, <1>6, <1>7, <1>8, <1>9 DEF StreamNext, Done

\* What was delivered, in the words of the property.
LEMMA AnthropicDeliveredIs ==
  ASSUME AnthropicDelivered(an, plan, by)
  PROVE  AnthropicDelivers
<1> SUFFICES ASSUME NEW k \in DOMAIN plan.items
             PROVE  LET kind == plan.items[k]
                        got == Read(an.out, k)
                    IN  /\ by \in {"completed", "done"} =>
                             \/ got = IF kind # "reasoning" \/ an.display = "summarized" THEN Whole ELSE <<>>
                             \/ /\ plan.mode = "last" /\ kind = "message" /\ got = <<>>
                                /\ \E j \in 1 .. k - 1 : plan.items[j] = "message"
                        /\ \E n \in 0 .. Len(Whole) : got = SubSeq(Whole, 1, n)
  BY DEF AnthropicDelivers
<1>1. PartOf(Read(an.out, k), Whole) /\ (by \in {"completed", "done"} => Got(an, plan.items, k, plan.mode = "last"))
  BY DEF AnthropicDelivered
<1> QED BY <1>1 DEF PartOf, Got, Due

\* It implies what an Anthropic client may rely on.
LEMMA AnthropicInvFaithful ==
  ASSUME AnthropicInv
  PROVE  AnthropicFrames /\ AnthropicDelivers /\ AnthropicEndsTruthful
<1>1. state \in {"open", "ended", "closed"} /\ (state = "open" <=> by = "none")
  BY DEF AnthropicInv, StreamAt
<1>2. CASE state = "open"
  <2>1. Formed(an, plan.items, pos.item) /\ an.ended = "no" /\ by = "none"
    BY <1>1, <1>2 DEF AnthropicInv, AnthropicStreams
  <2>2. AnthropicFrames
    BY <2>1 DEF AnthropicFrames, Formed
  <2>3. AnthropicDelivered(an, plan, by)
    BY <1>2, <2>1, AnthropicSoFar
  <2> QED BY <1>2, <2>2, <2>3, AnthropicDeliveredIs DEF AnthropicEndsTruthful
<1>3. CASE state # "open"
  <2>1. AnthropicEnded(an, plan, by)
    BY <1>3 DEF AnthropicInv
  <2>2. AnthropicFrames /\ AnthropicEndsTruthful
    BY <2>1 DEF AnthropicEnded, AnthropicFrames, AnthropicEndsTruthful
  <2>3. AnthropicDelivered(an, plan, by)
    BY <2>1 DEF AnthropicEnded
  <2> QED BY <2>2, <2>3, AnthropicDeliveredIs
<1> QED BY <1>2, <1>3

-------------------------------------------------------------------------------
(* A client request.                                                       *)

\* The executor's half of a client request is the executor alone, so that what is
\* proved of one is proved of the other.
THEOREM RequestRunsExecutor == RequestSpec => Spec
<1>1. RequestInit => Init
  BY DEF RequestInit
<1>2. [RequestNext]_requestVars => [Next]_vars
  BY DEF RequestNext, requestVars
<1> QED BY <1>1, <1>2, PTL DEF RequestSpec, Spec

Translated == part = "stream" => ChatInv /\ AnthropicInv

\* Both translators keep their invariants in a client request.
LEMMA TranslatedAlways == RequestSpec => []Translated
<1>1. RequestInit => Translated
  BY ChatInvInit, AnthropicInvInit DEF RequestInit, Translated
<1>2. Translated /\ [RequestNext]_requestVars => Translated'
  <2> SUFFICES ASSUME Translated, [RequestNext]_requestVars, part' = "stream"
               PROVE  ChatInv' /\ AnthropicInv'
    BY DEF Translated
  <2>1. part = "stream" /\ [StreamNext]_streamVars
    BY DEF RequestNext, requestVars
  <2>2. ChatInv /\ AnthropicInv
    BY <2>1 DEF Translated
  <2> QED BY <2>1, <2>2, ChatInvKept, AnthropicInvKept
<1> QED BY <1>1, <1>2, PTL DEF RequestSpec

\* A chat client gets chunks in the order of the protocol, in them each piece of
\* what upstream streamed once, and an end that is what became of the stream,
\* for any number of items in a response.
THEOREM ChatAlwaysFaithful == RequestSpec => []ChatFaithful
<1>1. Translated => ChatFaithful
  BY ChatInvFaithful DEF Translated, ChatFaithful
<1> QED BY <1>1, TranslatedAlways, PTL

\* An Anthropic client gets blocks in the order of the protocol, each closed and
\* signed by its own item, in them the content of every item once, and an end that
\* is what became of the stream, for any number of items in a response.
THEOREM AnthropicAlwaysFaithful == RequestSpec => []AnthropicFaithful
<1>1. Translated => AnthropicFaithful
  BY AnthropicInvFaithful DEF Translated, AnthropicFaithful
<1> QED BY <1>1, TranslatedAlways, PTL
===============================================================================
