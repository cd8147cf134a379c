----------------------------- MODULE ChatStream ------------------------------
(***************************************************************************)
(* protocol/openai/chat_stream.go: the translator of a Responses stream    *)
(* into chat.completion chunks, as operators on its state, and the handler *)
(* that ends the stream.  A chunk is what it tells the client: the role,   *)
(* text, a piece of a tool call, the finish, an error, or [DONE].          *)
(***************************************************************************)
EXTENDS ResponsesStream

Chunk(what, k, pieces) ==
  [what |-> what, item |-> k, pieces |-> pieces, role |-> FALSE, identity |-> FALSE, reason |-> "none"]

Chat ==
  [sentRole |-> FALSE, terminal |-> FALSE, failed |-> FALSE,
   tools |-> {},      \* the calls seen; each was given the next index
   sawArgs |-> {}, finalized |-> {}, identitySent |-> {},
   out |-> <<>>]

\* A chunk with a delta carries the role if none did before.
Say(c, chunk) ==
  [c EXCEPT !.sentRole = TRUE, !.out = Append(@, [chunk EXCEPT !.role = ~c.sentRole])]

\* response.created: the role alone, once.
Greet(c) == IF c.sentRole THEN c ELSE Say(c, Chunk("role", 0, <<>>))

ChatText(c, k, pieces) == IF pieces = <<>> THEN c ELSE Say(c, Chunk("text", k, pieces))

EnsureTool(c, k) == [c EXCEPT !.tools = @ \cup {k}]

\* The first chunk of a call names it.
ToolChunk(c, k, pieces) ==
  [Say(c, [Chunk("tool", k, pieces) EXCEPT !.identity = k \notin c.identitySent])
     EXCEPT !.identitySent = @ \cup {k}]

ToolAdded(c, k) == ToolChunk(EnsureTool(c, k), k, <<>>)

ToolDelta(c, k, pieces) ==
  IF pieces = <<>> THEN EnsureTool(c, k)
  ELSE ToolChunk([EnsureTool(c, k) EXCEPT !.sawArgs = @ \cup {k}], k, pieces)

\* Mutant: the arguments are sent again although deltas brought them.
ToolDone_Repeats(c, k, pieces) ==
  LET d == EnsureTool(c, k) IN
  IF k \in d.finalized THEN d
  ELSE ToolChunk([d EXCEPT !.finalized = @ \cup {k}, !.sawArgs = @ \cup {k}], k, pieces)

\* function_call_arguments.done or output_item.done, whichever comes first.
ToolDone(c, k, pieces) ==
  LET d == EnsureTool(c, k) IN
  IF k \in d.finalized THEN d
  ELSE IF k \in d.sawArgs THEN [d EXCEPT !.finalized = @ \cup {k}]
  ELSE ToolChunk([d EXCEPT !.finalized = @ \cup {k}, !.sawArgs = @ \cup {k}], k, pieces)

\* finish: the closing chunk, once.
ChatFinish(c, reason) ==
  IF c.terminal THEN c
  ELSE [c EXCEPT !.terminal = TRUE, !.out = Append(@, [Chunk("finish", 0, <<>>) EXCEPT !.reason =
          IF reason # "" THEN reason ELSE IF c.tools # {} THEN "tool_calls" ELSE "stop"])]

ChatFail(c) ==
  [c EXCEPT !.terminal = TRUE, !.failed = TRUE, !.out = Append(@, Chunk("error", 0, <<>>))]

\* One event of an item.  Texts that come without deltas are not read.
ChatItem(c, e, kind) ==
  CASE e.type = "created" -> Greet(c)
    [] e.type = "text_delta" -> ChatText(c, e.item, e.pieces)
    [] e.type = "added" -> IF kind = "call" THEN ToolAdded(c, e.item) ELSE c
    [] e.type = "args_delta" -> ToolDelta(c, e.item, e.pieces)
    [] e.type = "args_done" -> ToolDone(c, e.item, e.pieces)
    [] e.type = "item_done" -> IF kind = "call" THEN ToolDone(c, e.item, e.pieces) ELSE c
    [] OTHER -> c

\* handleChatStream after the scan: an error unless the stream had an end, and [DONE].
ChatEnds(c) ==
  LET d == IF c.terminal THEN c ELSE ChatFail(c)
  IN  [d EXCEPT !.out = Append(@, Chunk("done", 0, <<>>))]
==============================================================================
