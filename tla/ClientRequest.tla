----------------------------- MODULE ClientRequest -----------------------------
(***************************************************************************)
(* What happens to a client request: the executor finds an account whose   *)
(* answer can be served (Executor), and the stream of that answer is       *)
(* translated for the client (StreamTranslation).  The two meet only in    *)
(* the body, which one hands to the other: `part` says which of them a     *)
(* behaviour is about.                                                     *)
(***************************************************************************)
EXTENDS Executor, StreamTranslation

VARIABLE part

requestVars == <<part, vars, streamVars>>

\* The stream rests at one plan while the executor moves.
RequestInit ==
  /\ part \in {"failover", "stream"}
  /\ Init
  /\ IF part = "stream" THEN StreamInit
     ELSE /\ plan = <<>> /\ pos = 0 /\ state = "closed" /\ by = "none"
          /\ an = <<>> /\ ch = <<>>

RequestNext ==
  /\ UNCHANGED part
  /\ \/ part = "failover" /\ Next /\ UNCHANGED streamVars
     \/ part = "stream" /\ StreamNext /\ UNCHANGED vars

RequestSpec == RequestInit /\ [][RequestNext]_requestVars /\ Fairness

\* An Anthropic client gets frames it can parse, in them the content of each item
\* once, and an end that is what became of the stream (StreamTranslation).
AnthropicFaithful ==
  part = "stream" =>
    AnthropicFrames /\ AnthropicDelivers /\ AnthropicEndsTruthful

\* The same of a chat client (StreamTranslation).
ChatFaithful ==
  part = "stream" =>
    ChatFrames /\ ChatDelivers /\ ChatEndsTruthful
================================================================================
