--------------------------- MODULE ResponsesStream ---------------------------
(***************************************************************************)
(* The events a Responses stream may consist of, as the translators of     *)
(* protocol/anthropic/stream.go and protocol/openai/chat_stream.go tell    *)
(* them apart.  The upstream itself is external: an item is announced, its *)
(* content comes in deltas, with the events that finish it, or only with   *)
(* the response that ends the stream, and the stream may break anywhere.   *)
(***************************************************************************)
EXTENDS Naturals, Sequences, SequencesExt

Kinds == {"reasoning", "message", "call"}

\* Where upstream puts the content of the items: in deltas (and again in what
\* finishes the item), in what finishes the item, or in the last event alone.
Modes == {"deltas", "finished", "last"}

\* The content of every item: two pieces.  A summary of reasoning may put each in
\* a part of its own.
Whole == <<1, 2>>

Event(type, k, pieces) == [type |-> type, item |-> k, pieces |-> pieces, skip |-> FALSE]
Optional(type, k, pieces) == [type |-> type, item |-> k, pieces |-> pieces, skip |-> TRUE]

\* The events of one item up to the one that finishes it.
ReasoningScript(k, mode, parts) ==
  LET added == Event("added", k, <<>>)
      begin == Optional("summary_added", k, <<>>)
      first == Event("summary_delta", k, <<1>>)
      second == Event("summary_delta", k, <<2>>)
      finished == Event("item_done", k, Whole)
  IN  CASE mode = "finished" -> <<added, finished>>
        [] mode = "deltas" /\ parts = 1 ->
             <<added, begin, first, second, Optional("summary_done", k, <<>>), finished>>
        [] mode = "deltas" /\ parts = 2 ->
             <<added, begin, first, Event("summary_done", k, <<>>),
               Event("summary_added", k, <<>>), second, Event("summary_done", k, <<>>), finished>>

MessageScript(k, mode) ==
  LET added == Optional("added", k, <<>>)
      part == Optional("part_added", k, <<>>)
      partDone == Optional("part_done", k, Whole)
      finished == Event("item_done", k, Whole)
  IN  IF mode = "finished" THEN <<added, part, partDone, finished>>
      ELSE <<added, part, Event("text_delta", k, <<1>>), Event("text_delta", k, <<2>>),
             partDone, finished>>

CallScript(k, mode) ==
  LET added == Event("added", k, <<>>)
      argsDone == Optional("args_done", k, Whole)
      finished == Event("item_done", k, Whole)
  IN  IF mode = "finished" THEN <<added, argsDone, finished>>
      ELSE <<added, Event("args_delta", k, <<1>>), Event("args_delta", k, <<2>>),
             argsDone, finished>>

\* The events about item k of a response; what comes before its items is item 0.
Script(response, k) ==
  CASE k = 0 -> << Optional("created", 0, <<>>) >>
    [] k # 0 /\ response.mode = "last" -> <<>>
    [] k # 0 /\ response.mode # "last" ->
         CASE response.items[k] = "reasoning" -> ReasoningScript(k, response.mode, response.parts)
           [] response.items[k] = "message" -> MessageScript(k, response.mode)
           [] response.items[k] = "call" -> CallScript(k, response.mode)

\* The events that may come after the first i of a script: what is between is optional.
After(script, i) ==
  {j \in i + 1 .. Len(script) : \A m \in i + 1 .. j - 1 : script[m].skip}

\* Everything that must come before the end has come.
Complete(script, i) == \A m \in i + 1 .. Len(script) : script[m].skip
==============================================================================
