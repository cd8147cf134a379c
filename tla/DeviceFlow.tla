------------------------------- MODULE DeviceFlow -------------------------------
(***************************************************************************)
(* The converter of SSO cookies built into the process                     *)
(* (internal/ssoimport/device.go).  A Convert call feeds its values, one   *)
(* at a time over a channel without buffer, to workers of its own; a       *)
(* worker runs the device flow of a value, again when the failure looks    *)
(* transient.  The calls of concurrent import files share the converter    *)
(* and its permits: from the approval to the last poll a flow holds one.   *)
(*                                                                         *)
(* Times are not counted: a wait ends when it ends, and the deadline of a  *)
(* poll passes after MaxPolls answers at the latest.                       *)
(***************************************************************************)
EXTENDS Naturals, FiniteSets

CONSTANTS
  Calls,       \* Convert calls
  Flows,       \* workers, of all calls
  CallOf,      \* worker -> its call
  Values,      \* number of values of a call, 1..Values
  MaxRetries,
  MaxPermits,  \* FlowConcurrency
  MaxPolls,    \* polls before the deadline
  NoJob

VARIABLES
  feed,     \* call -> its feeder: [pc, next]
  flow,     \* worker -> [pc, job, attempt, polls]
  out,      \* call -> value -> its result
  permits,  \* len(flowSem)
  recent,   \* the last flow ended less than FlowGap ago
  cancelled \* calls whose context is done

flowVars == <<feed, flow, out, permits, recent, cancelled>>

Idle == [pc |-> "idle", job |-> NoJob, attempt |-> 1, polls |-> 0]

Init ==
  /\ feed = [c \in Calls |-> [pc |-> "feed", next |-> 1]]
  /\ flow = [w \in Flows |-> Idle]
  /\ out = [c \in Calls |-> [i \in 1..Values |-> "none"]]
  /\ permits = 0
  /\ recent = FALSE
  /\ cancelled = {}

Team(c) == {w \in Flows : CallOf[w] = c}

At(w, pc) == flow[w].pc = pc
To(w, pc) == [flow EXCEPT ![w].pc = pc]
Done(w) == CallOf[w] \in cancelled

\* The channel of the call is closed.
Closed(c) == feed[c].pc # "feed"

-----------------------------------------------------------------------------
(* Convert.                                                                *)

\* A value passes to a worker that waits for one.
Feed(c, w) ==
  /\ feed[c].pc = "feed"
  /\ CallOf[w] = c
  /\ At(w, "idle")
  /\ feed' = [feed EXCEPT ![c].next = @ + 1,
                          ![c].pc = IF feed[c].next = Values THEN "wait" ELSE @]
  /\ flow' = [flow EXCEPT ![w] = [Idle EXCEPT !.pc = "begin", !.job = feed[c].next]]
  /\ UNCHANGED <<out, permits, recent, cancelled>>

\* ctx.Done in the feeder: the rest is not sent.
StopFeeding(c) ==
  /\ feed[c].pc = "feed"
  /\ c \in cancelled
  /\ feed' = [feed EXCEPT ![c].pc = "drain"]
  /\ UNCHANGED <<flow, out, permits, recent, cancelled>>

Exit(w) ==
  /\ At(w, "idle")
  /\ Closed(CallOf[w])
  /\ flow' = To(w, "exit")
  /\ UNCHANGED <<feed, out, permits, recent, cancelled>>

\* wg.Wait
MayAnswer(c) == \A w \in Team(c) : At(w, "exit")

Answer(c) ==
  /\ feed[c].pc \in {"wait", "drain"}
  /\ MayAnswer(c)
  /\ feed' = [feed EXCEPT ![c].pc = IF @ = "wait" THEN "ok" ELSE "error"]
  /\ UNCHANGED <<flow, out, permits, recent, cancelled>>

-----------------------------------------------------------------------------
(* A worker.                                                               *)

\* The worker has the result of its value and takes the next.
Finish(w, result) ==
  /\ out' = [out EXCEPT ![CallOf[w]][flow[w].job] = result]
  /\ flow' = [flow EXCEPT ![w] = Idle]

\* convertOnce failed: again after a wait if the error is transient and a
\* retry is left, else the error is the result.
Failed(w, retriable) ==
  IF retriable /\ flow[w].attempt < MaxRetries
    THEN flow' = To(w, "backoff") /\ UNCHANGED out
    ELSE Finish(w, "error")

\* The loop looks at the context, then the cookie is tried and a device code
\* asked for: an invalid cookie is final, a busy or broken connection is not,
\* and any failure to get the code carries "device code" and is tried again.
RequestDeviceCode(w) ==
  /\ At(w, "begin")
  /\ \/ Done(w) /\ Finish(w, "error")
     \/ ~Done(w) /\ flow' = To(w, "acquire") /\ UNCHANGED out
     \/ \E retriable \in BOOLEAN : Failed(w, retriable)
  /\ UNCHANGED <<feed, permits, recent, cancelled>>

AcquireFlow(w) ==
  /\ At(w, "acquire")
  /\ \/ /\ permits < MaxPermits
        /\ permits' = permits + 1
        /\ flow' = To(w, IF recent THEN "gap" ELSE "approve")
        /\ UNCHANGED out
     \/ /\ Done(w)
        /\ Failed(w, FALSE)
        /\ UNCHANGED permits
  /\ UNCHANGED <<feed, recent, cancelled>>

\* Mutant: the call gives up in the gap and keeps the permit.
GiveUpGap_KeepsPermit(w) == Failed(w, FALSE) /\ UNCHANGED permits

GiveUpGap(w) == Failed(w, FALSE) /\ permits' = permits - 1

WaitGap(w) ==
  /\ At(w, "gap")
  /\ \/ flow' = To(w, "approve") /\ UNCHANGED <<out, permits>>
     \/ Done(w) /\ GiveUpGap(w)
  /\ UNCHANGED <<feed, recent, cancelled>>

\* Mutant: only a flow that came to its token gives the permit back.
ReleaseFlow_OnSuccess(w) ==
  /\ permits' = IF flow'[w].pc = "idle" THEN permits - 1 ELSE permits
  /\ recent' = TRUE

\* Deferred: whatever the flow came to.
ReleaseFlow(w) ==
  /\ permits' = permits - 1
  /\ recent' = TRUE

\* The pages of the flow, then its approval; a refusal is final, a 429 not.
Approve(w) ==
  /\ At(w, "approve")
  /\ \/ ~Done(w) /\ flow' = To(w, "poll") /\ UNCHANGED <<out, permits, recent>>
     \/ /\ \E retriable \in BOOLEAN : Failed(w, retriable)
        /\ ReleaseFlow(w)
  /\ UNCHANGED <<feed, cancelled>>

\* An answer to a poll: the token, "pending", or an end; every end carries
\* "token poll" in its text and is tried again, a refusal too.
PollToken(w) ==
  /\ At(w, "poll")
  /\ \/ ~Done(w) /\ Finish(w, "cred") /\ ReleaseFlow(w)
     \/ /\ ~Done(w) /\ flow[w].polls < MaxPolls
        /\ flow' = [flow EXCEPT ![w].polls = @ + 1]
        /\ UNCHANGED <<out, permits, recent>>
     \/ Failed(w, TRUE) /\ ReleaseFlow(w)
  /\ UNCHANGED <<feed, cancelled>>

Backoff(w) ==
  /\ At(w, "backoff")
  /\ IF Done(w)
       THEN Finish(w, "error")
       ELSE /\ flow' = [flow EXCEPT ![w] = [Idle EXCEPT !.pc = "begin", !.job = flow[w].job,
                                                        !.attempt = flow[w].attempt + 1]]
            /\ UNCHANGED out
  /\ UNCHANGED <<feed, permits, recent, cancelled>>

-----------------------------------------------------------------------------

Cancel(c) ==
  /\ c \notin cancelled
  /\ feed[c].pc \notin {"ok", "error"}
  /\ cancelled' = cancelled \cup {c}
  /\ UNCHANGED <<feed, flow, out, permits, recent>>

GapPasses ==
  /\ recent
  /\ recent' = FALSE
  /\ UNCHANGED <<feed, flow, out, permits, cancelled>>

Work(w) ==
  \/ RequestDeviceCode(w) \/ AcquireFlow(w) \/ WaitGap(w)
  \/ Approve(w) \/ PollToken(w) \/ Backoff(w) \/ Exit(w)

Lead(c) == (\E w \in Team(c) : Feed(c, w)) \/ StopFeeding(c) \/ Answer(c)

FlowNext ==
  \/ \E w \in Flows : Work(w)
  \/ \E c \in Calls : Lead(c) \/ Cancel(c)
  \/ GapPasses

-----------------------------------------------------------------------------
(* Properties.                                                             *)

Holders == {w \in Flows : flow[w].pc \in {"gap", "approve", "poll"}}

\* The permits taken are those of the flows under way, over all calls and
\* whatever way a flow ends: no more than FlowConcurrency flows run and none
\* is lost to a failure or to a cancelled call.
PermitsExact == permits = Cardinality(Holders) /\ permits <= MaxPermits

\* A Convert that has answered has no worker left that could write into the
\* slice the caller now reads, and one that succeeded has a result for every
\* value.
ConvertWhole ==
  \A c \in Calls : feed[c].pc \in {"ok", "error"} =>
    /\ \A w \in Team(c) : flow[w].pc = "exit"
    /\ feed[c].pc = "ok" => \A i \in 1..Values : out[c][i] # "none"

\* Every Convert call answers, cancelled or not.
ConvertEnds == \A c \in Calls : <>(feed[c].pc \in {"ok", "error"})
================================================================================
