------------------------------- MODULE Executor -------------------------------
(***************************************************************************)
(* The failover loop of a client request: protocol/executor/executor.go    *)
(* over AcquireAttempt and Release of the lease manager, EnsureFresh and   *)
(* ForceRefresh of the refresh service, and the handlers that serve and    *)
(* close the body.                                                         *)
(*                                                                         *)
(* A step of a request is what it does between two waits: for an account,  *)
(* a token, the upstream, or the end of the body.  Which account is        *)
(* eligible is the lease manager's business (module LeasePool): here a     *)
(* draw may return any account the request has not tried, or none.         *)
(***************************************************************************)
EXTENDS Naturals, FiniteSets

CONSTANTS
  Posts,        \* concurrent requests, each through Post
  Accounts,
  NoAccount,
  MaxAttempts,  \* leases a request may draw, by the executor it goes through
  Refreshing    \* the requests whose executor has a Refresher

ASSUME ExecutorAssumption ==
  /\ IsFiniteSet(Posts) /\ IsFiniteSet(Accounts) /\ NoAccount \notin Accounts
  /\ MaxAttempts \in [Posts -> Nat \ {0}]
  /\ Refreshing \subseteq Posts

VARIABLES
  loc,       \* the local variables of each Post
  done,      \* the requests whose context is done
  inflight,  \* the count of leases the index keeps for each account
  reply,     \* what each Post returned last
  seen       \* history of the current Post: what upstream answered

vars == <<loc, done, inflight, reply, seen>>

\* What upstream answers, by what the loop does about it: 2xx, 401, 429, 426,
\* what isRetryableStatus names (402, 403, 5xx), and the rest.
Status == {"ok", "unauthorized", "limited", "upgrade", "failing", "rejected"}
None == "none"
Retryable(p, s) == s \in {"limited", "failing"} \/ (s = "unauthorized" /\ p \notin Refreshing)

MaxRateLimitFailovers == 1

Idle == [pc |-> "idle", attempt |-> 1, tried |-> {}, acct |-> NoAccount, resp |-> None,
         again |-> FALSE, limits |-> 0, lastResp |-> None, lastErr |-> FALSE]
Unseen == [latest |-> None, limited |-> 0, calls |-> 0]

TypeOK ==
  /\ loc \in [Posts -> [pc : {"idle", "head", "draw", "lease", "post", "answer", "refresh", "serve"},
                        attempt : Nat \ {0}, tried : SUBSET Accounts,
                        acct : Accounts \cup {NoAccount}, resp : Status \cup {None},
                        again : BOOLEAN, limits : 0 .. MaxRateLimitFailovers + 1,
                        lastResp : Status \cup {None}, lastErr : BOOLEAN]]
  /\ done \in SUBSET Posts
  /\ inflight \in [Accounts -> 0 .. Cardinality(Posts)]
  /\ reply \in [Posts -> Status \cup {None, "error", "no_credential", "canceled"}]
  /\ seen \in [Posts -> [latest : Status \cup {None}, limited : Nat, calls : Nat]]

Init ==
  /\ loc = [p \in Posts |-> Idle]
  /\ done = {}
  /\ inflight = [a \in Accounts |-> 0]
  /\ reply = [p \in Posts |-> None]
  /\ seen = [p \in Posts |-> Unseen]

At(p, pc) == loc[p].pc = pc

-------------------------------------------------------------------------------
(* Leases.                                                                 *)

AddInflight(a) == inflight' = [inflight EXCEPT ![a] = @ + 1]

\* Release: the count falls before anything else, whatever the context and result.
Release(p) ==
  inflight' = [inflight EXCEPT ![loc[p].acct] = IF @ = 0 THEN 0 ELSE @ - 1]

\* The loop's continue, with what this attempt leaves in the local variables.
NextAttempt(p, resp, limits) ==
  loc' = [loc EXCEPT ![p] =
    [loc[p] EXCEPT !.pc = "head", !.attempt = @ + 1, !.acct = NoAccount, !.resp = None,
              !.again = FALSE, !.lastResp = resp, !.lastErr = TRUE, !.limits = limits]]

\* The loop's return.  What the request counted and its context end with it.
Return(p, answer) ==
  /\ loc' = [loc EXCEPT ![p] = Idle]
  /\ reply' = [reply EXCEPT ![p] = answer]
  /\ done' = done \ {p}
  /\ seen' = [seen EXCEPT ![p] = [Unseen EXCEPT !.latest = seen[p].latest]]

\* What Post returns when no attempt is left: the last answer before the last error.
LastAnswer(p) ==
  IF loc[p].lastResp # None THEN loc[p].lastResp
  ELSE IF loc[p].lastErr THEN "error" ELSE "no_credential"

-------------------------------------------------------------------------------
(* The loop.                                                               *)

Call(p) ==
  /\ At(p, "idle")
  /\ loc' = [loc EXCEPT ![p] = [Idle EXCEPT !.pc = "head"]]
  /\ reply' = [reply EXCEPT ![p] = None]
  /\ seen' = [seen EXCEPT ![p] = Unseen]
  /\ UNCHANGED <<done, inflight>>

\* The client goes away, or the request's deadline passes.
Cancel(p) ==
  /\ ~At(p, "idle") /\ p \notin done
  /\ done' = done \cup {p}
  /\ UNCHANGED <<loc, inflight, reply, seen>>

LoopHead(p) ==
  /\ At(p, "head")
  /\ \/ loc[p].attempt > MaxAttempts[p] /\ Return(p, LastAnswer(p))
     \/ loc[p].attempt <= MaxAttempts[p] /\ p \in done /\ Return(p, "canceled")
     \/ /\ loc[p].attempt <= MaxAttempts[p] /\ p \notin done
        /\ loc' = [loc EXCEPT ![p].pc = "draw"]
        /\ UNCHANGED <<done, reply, seen>>
  /\ UNCHANGED inflight

\* AcquireAttempt fails without an account: none is eligible.
DrawNone(p) ==
  /\ At(p, "draw") /\ p \notin done
  /\ Return(p, LastAnswer(p))
  /\ UNCHANGED inflight

\* AcquireAttempt sees the context done, or misses the account it picked.
DrawMiss(p) ==
  /\ At(p, "draw")
  /\ \/ /\ p \in done
        /\ NextAttempt(p, loc[p].lastResp, loc[p].limits)
     \/ /\ p \notin done
        /\ \E a \in Accounts \ loc[p].tried :
             loc' = [loc EXCEPT ![p] = [loc[p] EXCEPT !.pc = "head", !.attempt = @ + 1,
                                          !.tried = @ \cup {a}, !.lastErr = TRUE]]
  /\ UNCHANGED <<done, inflight, reply, seen>>

\* Mutant: the accounts tried so far are not excluded.
DrawLease_Retries(p) ==
  /\ At(p, "draw") /\ p \notin done
  /\ \E a \in Accounts :
       /\ loc' = [loc EXCEPT ![p] = [loc[p] EXCEPT !.pc = "lease", !.tried = @ \cup {a}, !.acct = a]]
       /\ AddInflight(a)
  /\ seen' = [seen EXCEPT ![p].calls = 0]
  /\ UNCHANGED <<done, reply>>


DrawLease(p) ==
  /\ At(p, "draw") /\ p \notin done
  /\ \E a \in Accounts \ loc[p].tried :
       /\ loc' = [loc EXCEPT ![p] = [loc[p] EXCEPT !.pc = "lease", !.tried = @ \cup {a}, !.acct = a]]
       /\ AddInflight(a)
  /\ seen' = [seen EXCEPT ![p].calls = 0]
  /\ UNCHANGED <<done, reply>>

\* upstreamFor, and EnsureFresh when there is a Refresher: either may fail.
Prepare(p) ==
  /\ At(p, "lease")
  /\ \/ loc' = [loc EXCEPT ![p].pc = "post"] /\ UNCHANGED inflight
     \/ NextAttempt(p, loc[p].lastResp, loc[p].limits) /\ Release(p)
  /\ UNCHANGED <<done, reply, seen>>

\* PostResponses brings an answer.
PostAnswered(p) ==
  /\ At(p, "post")
  /\ \E s \in Status :
       /\ loc' = [loc EXCEPT ![p] = [loc[p] EXCEPT !.pc = "answer", !.resp = s]]
       /\ seen' = [seen EXCEPT ![p] = [latest |-> s, calls |-> @.calls + 1,
                      limited |-> IF s = "limited" THEN @.limited + 1 ELSE @.limited]]
  /\ UNCHANGED <<done, inflight, reply>>

\* Mutant: the path of a failed call forgets the lease.
PostFailed_KeepsLease(p) ==
  /\ At(p, "post")
  /\ NextAttempt(p, IF loc[p].again THEN "unauthorized" ELSE loc[p].lastResp, loc[p].limits)
  /\ seen' = [seen EXCEPT ![p].calls = @ + 1]
  /\ UNCHANGED <<done, inflight, reply>>

\* PostResponses fails: on the retry after a refresh, the 401 is what is left to answer.
PostFailed(p) ==
  /\ At(p, "post")
  /\ NextAttempt(p, IF loc[p].again THEN "unauthorized" ELSE loc[p].lastResp, loc[p].limits)
  /\ Release(p)
  /\ seen' = [seen EXCEPT ![p].calls = @ + 1]
  /\ UNCHANGED <<done, reply>>

\* 426, or a status no other account would cure.  After a refresh every other
\* status goes on to the next account instead.
AnswerFinal(p) ==
  /\ At(p, "answer")
  /\ \/ loc[p].resp = "upgrade"
     \/ loc[p].resp = "rejected" /\ ~loc[p].again
  /\ Return(p, loc[p].resp)
  /\ Release(p)

\* 2xx: the body goes to the caller, the lease with it.
AnswerServe(p) ==
  /\ At(p, "answer") /\ loc[p].resp = "ok"
  /\ loc' = [loc EXCEPT ![p].pc = "serve"]
  /\ reply' = [reply EXCEPT ![p] = "ok"]
  /\ UNCHANGED <<done, inflight, seen>>

\* 401 with a Refresher: the same lease gets one forced refresh.
AnswerRefresh(p) ==
  /\ At(p, "answer") /\ loc[p].resp = "unauthorized"
  /\ p \in Refreshing /\ ~loc[p].again
  /\ loc' = [loc EXCEPT ![p].pc = "refresh"]
  /\ UNCHANGED <<done, inflight, reply, seen>>

\* A retryable status, or any failure after a refresh: the lease goes back, then
\* either the breaker of 429s returns the answer or the next account is tried.
AnswerFailover(p) ==
  LET s == loc[p].resp
      limits == loc[p].limits + (IF s = "limited" THEN 1 ELSE 0)
  IN
  /\ At(p, "answer")
  /\ \/ ~loc[p].again /\ Retryable(p, s)
     \/ loc[p].again /\ s \notin {"ok", "upgrade"}
  /\ Release(p)
  /\ \/ limits > MaxRateLimitFailovers /\ s = "limited" /\ Return(p, s)
     \/ /\ ~(limits > MaxRateLimitFailovers /\ s = "limited")
        /\ NextAttempt(p, s, limits)
        /\ UNCHANGED <<done, reply, seen>>

\* Mutant: a failed refresh does not keep the 401 as the last answer.
Refresh_ForgetsAnswer(p) ==
  /\ At(p, "refresh")
  /\ \/ /\ loc' = [loc EXCEPT ![p] = [loc[p] EXCEPT !.pc = "post", !.resp = None, !.again = TRUE]]
        /\ UNCHANGED inflight
     \/ NextAttempt(p, loc[p].lastResp, loc[p].limits) /\ Release(p)
  /\ UNCHANGED <<done, reply, seen>>

\* ForceRefresh, then the retry with the same lease.
Refresh(p) ==
  /\ At(p, "refresh")
  /\ \/ /\ loc' = [loc EXCEPT ![p] = [loc[p] EXCEPT !.pc = "post", !.resp = None, !.again = TRUE]]
        /\ UNCHANGED inflight
     \/ NextAttempt(p, "unauthorized", loc[p].limits) /\ Release(p)
  /\ UNCHANGED <<done, reply, seen>>

\* Mutant: the body of a client that went away is not closed.
Close_OnlyForClient(p) ==
  /\ At(p, "serve") /\ p \notin done
  /\ Return(p, reply[p])
  /\ Release(p)

\* The handler has copied the body, to its end or to the first error, and its
\* deferred Close runs releaseOnClose.
Close(p) ==
  /\ At(p, "serve")
  /\ Return(p, reply[p])
  /\ Release(p)

Step(p) ==
  \/ LoopHead(p) \/ DrawNone(p) \/ DrawMiss(p) \/ DrawLease(p) \/ Prepare(p)
  \/ PostAnswered(p) \/ PostFailed(p) \/ AnswerFinal(p) \/ AnswerServe(p)
  \/ AnswerRefresh(p) \/ AnswerFailover(p) \/ Refresh(p) \/ Close(p)

Next == \E p \in Posts : Call(p) \/ Cancel(p) \/ Step(p)

\* A request in Post waits for locks held briefly and for HTTP calls with
\* timeouts; a body ends, or its client leaves and the next write fails.
Fairness == \A p \in Posts : WF_vars(Step(p))

Spec == Init /\ [][Next]_vars /\ Fairness

-------------------------------------------------------------------------------
(* Properties.                                                             *)

\* Every path out of an attempt returns its lease exactly once: the count of an
\* account is the number of requests that hold it.
LedgerExact ==
  \A a \in Accounts : inflight[a] = Cardinality({p \in Posts : loc[p].acct = a})

\* A client gets the newest answer upstream gave it, never an older one, and an
\* error only if upstream never answered or the client's own context ended.
AnswersLatest ==
  \A p \in Posts :
    /\ reply[p] \in Status => reply[p] = seen[p].latest
    /\ reply[p] \in {"error", "no_credential"} => seen[p].latest = None

\* One client request costs the pool at most two 429s and, on one account, at most
\* a first call and the retry after a refresh.
UpstreamSpared ==
  \A p \in Posts :
    /\ seen[p].limited <= MaxRateLimitFailovers + 1
    /\ seen[p].calls <= IF p \in Refreshing THEN 2 ELSE 1

\* The failover finds the newest answer and its cost is bounded.
AnswersWell == AnswersLatest /\ UpstreamSpared

\* The loop and the handlers keep the discipline of leases.
Discipline == INSTANCE LeaseDiscipline WITH
  Requests <- Posts,
  phase <- [p \in Posts |-> IF At(p, "idle") THEN "idle"
                            ELSE IF At(p, "serve") THEN "serving" ELSE "working"],
  used <- [p \in Posts |-> loc[p].tried],
  held <- [p \in Posts |-> loc[p].acct]
KeepsDiscipline == Discipline!Spec

\* Every request is answered and leaves its lease behind.
RequestsEnd == \A p \in Posts : ~At(p, "idle") ~> At(p, "idle")
==============================================================================
