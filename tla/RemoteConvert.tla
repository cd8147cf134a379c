------------------------------ MODULE RemoteConvert ------------------------------
(***************************************************************************)
(* The converter of SSO cookies behind a service                           *)
(* (internal/ssoimport/client.go).  The values are cut into batches, sent  *)
(* in parallel; an answer names the value of each result by its place in   *)
(* the batch, in any order, and the results of all batches are put back in *)
(* the order of the values.                                                *)
(***************************************************************************)
EXTENDS Integers, FiniteSets, Sequences

CONSTANTS
  Cookies,   \* number of values, 1..Cookies
  MaxBatch,  \* cfg.MaxBatch, at least 1
  Senders,   \* goroutines that send batches
  Outcomes,  \* what the service says of a value: "cred" or a way to fail
  Unset      \* a result nobody wrote

VARIABLES
  todo,    \* jobs: the batches not yet taken
  sender,  \* goroutine -> the batch it sent, 0 when it has none
  reply,   \* history: batch -> what the service answered
  merged,  \* output
  ended,   \* "", "ok" or "error": the answer of Convert
  failing, \* firstErr is set
  stopped  \* the context is done

remoteVars == <<todo, sender, reply, merged, ended, failing, stopped>>

Batches == 1..((Cookies + MaxBatch - 1) \div MaxBatch)

\* The half-open span of a batch, and how many values it has.
Start(b) == (b - 1) * MaxBatch
Size(b) == IF Start(b) + MaxBatch > Cookies THEN Cookies - Start(b) ELSE MaxBatch

\* Answers of the service to a batch: results that name a place, one past the
\* end included, no fewer than fit the last batch; or nothing one can read.
Results == [index : 0..MaxBatch, is : Outcomes]
Answers == UNION {[1..n -> Results] : n \in 0..MaxBatch}
Broken == <<[index |-> -1, is |-> ""]>>

\* The value of a result that is an error; a credential is the number of its value.
NoCred == 0

\* convertBatch refuses the whole answer for one result too many, out of range
\* or repeated.
Accepted(b, answer) ==
  /\ Len(answer) <= Size(b)
  /\ \A i \in DOMAIN answer :
       /\ answer[i].index \in 0..(Size(b) - 1)
       /\ \A j \in 1..(i - 1) : answer[j].index # answer[i].index

\* What the batch comes to: a credential of the value, or an error, for what
\* the service leaves out as well.
Converted(b, answer) ==
  [k \in 1..Size(b) |->
     IF \E i \in DOMAIN answer : answer[i].index = k - 1 /\ answer[i].is = "cred"
     THEN Start(b) + k ELSE NoCred]

Init ==
  /\ todo = Batches
  /\ sender = [w \in Senders |-> 0]
  /\ reply = [b \in Batches |-> Broken]
  /\ merged = [v \in 1..Cookies |-> Unset]
  /\ ended = ""
  /\ failing = FALSE
  /\ stopped = FALSE

\* Without parallel batches the first error ends the call.
InSequence == Cardinality(Senders) = 1 \/ Cardinality(Batches) = 1

\* A sender takes the next batch; with the context done it comes back at once.
Take(w) ==
  /\ ended = ""
  /\ sender[w] = 0
  /\ ~(InSequence /\ failing)
  /\ \E b \in todo :
       /\ \A d \in todo : b <= d
       /\ todo' = todo \ {b}
       /\ IF stopped
            THEN failing' = TRUE /\ UNCHANGED sender
            ELSE sender' = [sender EXCEPT ![w] = b] /\ UNCHANGED failing
  /\ UNCHANGED <<reply, merged, ended, stopped>>

\* Mutant: the results of the batches are appended as they arrive.
Merged_AsTheyCome(b, data) ==
  LET from == Cardinality({v \in 1..Cookies : merged[v] # Unset})
  IN  [v \in 1..Cookies |-> IF v - from \in DOMAIN data THEN data[v - from] ELSE merged[v]]

Merged(b, data) ==
  [v \in 1..Cookies |-> IF v - Start(b) \in DOMAIN data THEN data[v - Start(b)] ELSE merged[v]]

Receive(w) ==
  LET b == sender[w]
  IN  /\ b # 0
      /\ sender' = [sender EXCEPT ![w] = 0]
      /\ \E answer \in Answers \cup {Broken} :
           /\ reply' = [reply EXCEPT ![b] = answer]
           /\ IF Accepted(b, answer)
                THEN merged' = Merged(b, Converted(b, answer)) /\ UNCHANGED failing
                ELSE failing' = TRUE /\ UNCHANGED merged
      /\ UNCHANGED <<todo, ended, stopped>>

\* All senders are through: one error refuses all.
Conclude ==
  /\ ended = ""
  /\ todo = {} \/ (InSequence /\ failing)
  /\ \A w \in Senders : sender[w] = 0
  /\ ended' = IF failing THEN "error" ELSE "ok"
  /\ UNCHANGED <<todo, sender, reply, merged, failing, stopped>>

Stop ==
  /\ ended = ""
  /\ ~stopped
  /\ stopped' = TRUE
  /\ UNCHANGED <<todo, sender, reply, merged, ended, failing>>

RemoteNext ==
  \/ \E w \in Senders : Take(w) \/ Receive(w)
  \/ Conclude \/ Stop

-----------------------------------------------------------------------------

\* What the service said of a value: the batch and the place it stands for.
SaidGood(v) ==
  \E b \in Batches : \E i \in DOMAIN reply[b] :
    /\ Start(b) + reply[b][i].index + 1 = v
    /\ reply[b][i].index < Size(b)
    /\ reply[b][i].is = "cred"

\* A successful Convert gives each value its own credential exactly if the
\* service converted it, whatever order batches and results arrived in; the
\* answer of a batch that contradicts itself never gets this far.
EachItsOwn ==
  ended = "ok" =>
    /\ \A v \in 1..Cookies : merged[v] = IF SaidGood(v) THEN v ELSE NoCred
    /\ \A b \in Batches : \A i, j \in DOMAIN reply[b] :
         reply[b][i].index = reply[b][j].index => i = j
================================================================================
