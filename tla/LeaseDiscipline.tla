--------------------------- MODULE LeaseDiscipline ---------------------------
(***************************************************************************)
(* What a request may do with leases of accounts, whatever the failover    *)
(* loop looks like: it holds one at a time, never draws an account twice,  *)
(* and keeps a lease after its answer only while the answer is served.     *)
(***************************************************************************)
CONSTANTS Requests, Accounts, NoAccount

VARIABLES
  phase,  \* "idle", "working", or "serving" the body of an answer
  used,   \* the accounts drawn since the request began
  held    \* the account it holds a lease on

vars == <<phase, used, held>>

TypeOK ==
  /\ phase \in [Requests -> {"idle", "working", "serving"}]
  /\ used \in [Requests -> SUBSET Accounts]
  /\ held \in [Requests -> Accounts \cup {NoAccount}]

Init ==
  /\ phase = [r \in Requests |-> "idle"]
  /\ used = [r \in Requests |-> {}]
  /\ held = [r \in Requests |-> NoAccount]

Begin(r) ==
  /\ phase[r] = "idle"
  /\ phase' = [phase EXCEPT ![r] = "working"]
  /\ UNCHANGED <<used, held>>

\* Draws an account, and leases it unless it turns out not to be usable.
Draw(r, a) ==
  /\ phase[r] = "working" /\ held[r] = NoAccount /\ a \notin used[r]
  /\ used' = [used EXCEPT ![r] = @ \cup {a}]
  /\ held' \in {held, [held EXCEPT ![r] = a]}
  /\ UNCHANGED phase

GiveBack(r) ==
  /\ phase[r] = "working" /\ held[r] # NoAccount
  /\ held' = [held EXCEPT ![r] = NoAccount]
  /\ UNCHANGED <<phase, used>>

\* Answers, with the lease returned.
Reply(r) ==
  /\ phase[r] = "working"
  /\ phase' = [phase EXCEPT ![r] = "idle"]
  /\ used' = [used EXCEPT ![r] = {}]
  /\ held' = [held EXCEPT ![r] = NoAccount]

Serve(r) ==
  /\ phase[r] = "working" /\ held[r] # NoAccount
  /\ phase' = [phase EXCEPT ![r] = "serving"]
  /\ UNCHANGED <<used, held>>

Close(r) ==
  /\ phase[r] = "serving"
  /\ phase' = [phase EXCEPT ![r] = "idle"]
  /\ used' = [used EXCEPT ![r] = {}]
  /\ held' = [held EXCEPT ![r] = NoAccount]

Next ==
  \E r \in Requests :
    \/ Begin(r) \/ GiveBack(r) \/ Reply(r) \/ Serve(r) \/ Close(r)
    \/ \E a \in Accounts : Draw(r, a)

Spec == Init /\ [][Next]_vars
==============================================================================
