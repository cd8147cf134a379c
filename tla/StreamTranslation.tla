-------------------------- MODULE StreamTranslation --------------------------
(***************************************************************************)
(* One Responses stream read by the two translators: Anthropic messages    *)
(* (module AnthropicStream) and chat completions (module ChatStream).      *)
(***************************************************************************)
EXTENDS AnthropicStream, ChatStream

CONSTANTS
  MaxItems  \* items of a response, at least one

VARIABLES
  plan,  \* the response upstream is about to stream: its items and how they come
  pos,   \* the item that is told, and its events that came or were left out
  state, \* "open", "ended" after a terminal event, "closed" at the end of the body
  by,    \* the terminal event
  an,    \* the Anthropic translator
  ch     \* the chat translator

streamVars == <<plan, pos, state, by, an, ch>>

Plans ==
  [items : UNION {[1 .. n -> Kinds] : n \in 1 .. MaxItems}, mode : Modes, parts : 1 .. 2,
   signs : {"never", "added", "item_done"}]  \* the event that signs reasoning

Signed(e) == e.type = plan.signs

\* What had to come before the response ends has come.
ItemTold == Complete(Script(plan, pos.item), pos.at)
AllTold == ItemTold /\ (plan.mode = "last" \/ pos.item = Len(plan.items))

StreamInit ==
  /\ plan \in Plans
  /\ pos = [item |-> 0, at |-> 0]
  /\ state = "open"
  /\ by = "none"
  /\ an \in {Translator(d) : d \in Displays}
  /\ ch = Chat

\* The i-th event about item k.
Tell(k, i) ==
  LET e == Script(plan, k)[i]
      kind == IF k = 0 THEN "none" ELSE plan.items[k]
  IN  /\ pos' = [item |-> k, at |-> i]
      /\ an' = ProcessItem(an, e, kind, Signed(e))
      /\ ch' = ChatItem(ch, e, kind)

\* The next event about an item, or the first about the next one.
ItemEvent ==
  /\ state = "open"
  /\ \/ \E i \in After(Script(plan, pos.item), pos.at) : Tell(pos.item, i)
     \/ /\ ItemTold /\ pos.item < Len(plan.items)
        /\ \E i \in After(Script(plan, pos.item + 1), 0) : Tell(pos.item + 1, i)
  /\ UNCHANGED <<plan, state, by>>

\* response.completed; only in mode "last" its output is needed.
Completed ==
  /\ state = "open" /\ AllTold
  /\ \E output \in BOOLEAN :
       /\ plan.mode = "last" => output
       /\ an' = ProcessCompleted(an, plan.items, output, plan.signs # "never", FALSE)
  /\ ch' = ChatFinish(ch, "")
  /\ state' = "ended" /\ by' = "completed"
  /\ UNCHANGED <<plan, pos>>

\* response.incomplete: the token limit, anywhere.
Incomplete ==
  /\ state = "open"
  /\ an' = ProcessCompleted(an, plan.items, FALSE, FALSE, TRUE)
  /\ ch' = ChatFinish(ch, "length")
  /\ state' = "ended" /\ by' = "incomplete"
  /\ UNCHANGED <<plan, pos>>

\* response.failed or error, anywhere.
Failed ==
  /\ state = "open"
  /\ an' = Fail(an)
  /\ ch' = ChatFail(ch)
  /\ state' = "ended" /\ by' = "failed"
  /\ UNCHANGED <<plan, pos>>

\* [DONE]: after a terminal event, or in its place when the items are complete.
Done ==
  /\ \/ state = "ended"
     \/ state = "open" /\ plan.mode # "last" /\ AllTold
  /\ an' = ProcessDone(an)
  /\ ch' = ChatFinish(ch, "")
  /\ state' = "ended"
  /\ by' = IF state = "open" THEN "done" ELSE by
  /\ UNCHANGED <<plan, pos>>

\* The body ends, breaks, or brings a line that is not JSON.
BodyEnds ==
  /\ state # "closed"
  /\ an' = PipeEnds(an)
  /\ ch' = ChatEnds(ch)
  /\ state' = "closed"
  /\ by' = IF state = "open" THEN "cut" ELSE by
  /\ UNCHANGED <<plan, pos>>

StreamNext == ItemEvent \/ Completed \/ Incomplete \/ Failed \/ Done \/ BodyEnds

-------------------------------------------------------------------------------
(* Properties.                                                             *)

\* The Anthropic protocol: nothing before message_start, one content block open
\* at a time, none once the message ended, and each thinking block signed by its
\* own reasoning item or not at all.
AnthropicFrames ==
  /\ an.out # <<>> => an.started
  /\ \A i \in DOMAIN an.out :
       /\ an.out[i].open => i = Len(an.out) /\ an.ended = "no"
       /\ an.out[i].signature \in {NoItem, an.out[i].item}

\* What the client reads of item k.
Read(out, k) ==
  FlattenSeq([i \in DOMAIN out |-> IF out[i].item = k THEN out[i].pieces ELSE <<>>])

\* When a message ends well its client has the content of every item once, in
\* deltas or in the events that repeat it.  The one exception: a message that is
\* neither streamed nor finished is taken for a repetition if any text came before.
AnthropicDelivers ==
  \A k \in DOMAIN plan.items :
    LET kind == plan.items[k]
        got == Read(an.out, k)
    IN  /\ by \in {"completed", "done"} =>
             \/ got = IF kind # "reasoning" \/ an.display = "summarized" THEN Whole ELSE <<>>
             \/ /\ plan.mode = "last" /\ kind = "message" /\ got = <<>>
                /\ \E j \in 1 .. k - 1 : plan.items[j] = "message"
        /\ \E n \in 0 .. Len(Whole) : got = SubSeq(Whole, 1, n)

\* The chat protocol: the first chunk with a delta, and no other, has the role; the
\* first chunk of a call, and no other, has its identity; one finish or error, and
\* then only [DONE].
ChatFrames ==
  \A i \in DOMAIN ch.out :
    LET c == ch.out[i]
        earlier == {ch.out[j].what : j \in 1 .. i - 1}
    IN  /\ c.role <=> i = 1 /\ c.what \in {"role", "text", "tool"}
        /\ c.what = "tool" =>
             (c.identity <=> \A j \in 1 .. i - 1 : ~(ch.out[j].what = "tool" /\ ch.out[j].item = c.item))
        /\ {"finish", "error"} \cap earlier # {} => c.what = "done"

\* A chat client has each piece of text and arguments once, if upstream streams
\* it in deltas; arguments also if only the finished item brings them.
ChatDelivers ==
  \A k \in DOMAIN plan.items :
    LET got == Read(ch.out, k)
        due == CASE plan.mode = "deltas" /\ plan.items[k] # "reasoning" -> Whole
                 [] plan.mode = "finished" /\ plan.items[k] = "call" -> Whole
                 [] OTHER -> <<>>
    IN  /\ by \in {"completed", "done"} => got = due
        /\ \E n \in 0 .. Len(due) : got = SubSeq(due, 1, n)

\* A stream that upstream cut or failed never looks complete to an Anthropic
\* client, one it completed never looks failed, and the client is told to run
\* tools if and only if it got a call.
AnthropicEndsTruthful ==
  state = "closed" =>
    /\ by \in {"cut", "failed"} => an.ended # "stop"
    /\ by \in {"completed", "incomplete"} => an.ended = "stop"
    /\ an.ended = "stop" => (an.reason = "tool_use" <=> HasToolUse(an))

\* The same of a chat client.
ChatEndsTruthful ==
  state = "closed" =>
    /\ by \in {"cut", "failed"} => ch.failed
    /\ by \in {"completed", "incomplete"} => ~ch.failed
    /\ \A i \in DOMAIN ch.out :
         ch.out[i].what = "finish" /\ by # "incomplete" => (ch.out[i].reason = "tool_calls" <=> ch.tools # {})
==============================================================================
