--------------------------- MODULE AnthropicStream ---------------------------
(***************************************************************************)
(* protocol/anthropic/stream.go and thinking_stream.go: the translator of  *)
(* a Responses stream into Anthropic SSE, as operators on its state.  The  *)
(* frames it wrote are kept by content block: a block is open between its  *)
(* start and its stop, and its content is the pieces its deltas carried.   *)
(***************************************************************************)
EXTENDS ResponsesStream

\* What the request asked for: no thinking blocks, or with summaries, or without.
Displays == {"off", "summarized", "omitted"}

NoItem == 0

Translator(display) ==
  [display |-> display,
   started |-> FALSE,     \* message_start was written
   ended |-> "no",        \* "stop" once message_stop was written, "error" after an error
   reason |-> "none",     \* the stop_reason it gave
   out |-> <<>>,          \* content blocks by index
   thinking |-> 0,        \* the thinking block that is open
   signature |-> NoItem,  \* the item whose signature waits for a thinking block
   pending |-> FALSE,     \* its summary part is done
   current |-> NoItem,    \* the reasoning item being translated
   completed |-> {}]      \* reasoning items that were written

Block(kind, k) == [kind |-> kind, item |-> k, pieces |-> <<>>, signature |-> NoItem, open |-> TRUE]

\* blocks[key]: text and tool blocks are found by kind and item.
Find(t, kind, k) ==
  LET S == {i \in DOMAIN t.out : t.out[i].kind = kind /\ t.out[i].item = k}
  IN  IF S = {} THEN 0 ELSE CHOOSE i \in S : TRUE
Emitted(t, kind, k) == Find(t, kind, k) # 0 /\ t.out[Find(t, kind, k)].pieces # <<>>
HasEmittedKind(t, kind) == \E i \in DOMAIN t.out : t.out[i].kind = kind /\ t.out[i].pieces # <<>>
HasToolUse(t) == \E i \in DOMAIN t.out : t.out[i].kind = "tool"

EnsureStart(t) == [t EXCEPT !.started = TRUE]

-------------------------------------------------------------------------------
(* Thinking blocks.                                                        *)

FinalizeThinking(t, clear) ==
  IF t.display = "off" THEN t
  ELSE IF t.thinking = 0 THEN [t EXCEPT !.signature = IF clear THEN NoItem ELSE @]
  ELSE [t EXCEPT !.out[t.thinking].signature = t.signature, !.out[t.thinking].open = FALSE,
                 !.completed = IF t.current = NoItem THEN @ ELSE @ \cup {t.current},
                 !.thinking = 0, !.pending = FALSE,
                 !.signature = IF clear THEN NoItem ELSE @,
                 !.current = IF clear THEN NoItem ELSE @]

FinishThinkingBeforeContent(t) == IF t.thinking = 0 THEN t ELSE FinalizeThinking(t, TRUE)

\* k names the item the block is for; the code keeps it in currentReasoningKey.
EnsureThinkingBlock(t, k) ==
  IF t.display = "off" \/ t.thinking # 0 THEN t
  ELSE [EnsureStart(t) EXCEPT !.out = Append(@, Block("thinking", k)),
                              !.thinking = Len(t.out) + 1, !.pending = FALSE]

StartThinkingPart(t, k) ==
  IF t.display = "off" THEN t
  ELSE LET u == IF t.thinking # 0 /\ t.pending THEN FinalizeThinking(t, FALSE) ELSE t
       IN  EnsureThinkingBlock([u EXCEPT !.current = k], k)

ThinkingDelta(t, k, pieces) ==
  IF t.display # "summarized" \/ pieces = <<>> THEN t
  ELSE LET u == EnsureThinkingBlock(t, k) IN [u EXCEPT !.out[u.thinking].pieces = @ \o pieces]

CaptureThinkingSignature(t, k, signed) ==
  IF t.display = "off" \/ ~signed THEN t
  ELSE [t EXCEPT !.current = k, !.signature = k]

EmitFinalReasoningItem(t, k, pieces, signed) ==
  LET summary == IF t.display = "omitted" THEN <<>> ELSE pieces
      signature == IF signed THEN k ELSE t.signature
  IN  IF t.display = "off" \/ k \in t.completed \/ (summary = <<>> /\ signature = NoItem) THEN t
      ELSE FinalizeThinking(
             ThinkingDelta(
               EnsureThinkingBlock([t EXCEPT !.current = k, !.signature = signature], k),
               k, summary), TRUE)

-------------------------------------------------------------------------------
(* Text and tool blocks.                                                   *)

EnsureBlock(t, kind, k) ==
  LET u == FinishThinkingBeforeContent(t)
  IN  IF Find(u, kind, k) # 0 THEN u ELSE [u EXCEPT !.out = Append(@, Block(kind, k))]

StopBlock(t, kind, k) ==
  IF Find(t, kind, k) = 0 THEN t ELSE [t EXCEPT !.out[Find(t, kind, k)].open = FALSE]

StopAllBlocks(t) ==
  [t EXCEPT !.out = [i \in DOMAIN @ |->
     IF @[i].kind = "thinking" THEN @[i] ELSE [@[i] EXCEPT !.open = FALSE]]]

\* A delta for a stopped block is dropped.
Delta(t, kind, k, pieces) ==
  IF pieces = <<>> THEN t
  ELSE LET u == EnsureBlock(t, kind, k)
           i == Find(u, kind, k)
       IN  IF u.out[i].open THEN [u EXCEPT !.out[i].pieces = @ \o pieces] ELSE u

\* Mutant: the content is written although deltas brought it.
DeltaOnce_Always(t, kind, k, pieces) == Delta(t, kind, k, pieces)

\* The content of an event that finishes a block, unless deltas brought it.
DeltaOnce(t, kind, k, pieces) ==
  IF Emitted(t, kind, k) THEN t ELSE Delta(t, kind, k, pieces)

-------------------------------------------------------------------------------
(* The end of the stream.                                                  *)

Finish(t, reason) ==
  IF t.ended # "no" THEN t
  ELSE [StopAllBlocks(FinalizeThinking(EnsureStart(t), TRUE)) EXCEPT !.ended = "stop",
          !.reason = IF reason # "" THEN reason
                     ELSE IF HasToolUse(t) THEN "tool_use" ELSE "end_turn"]

Fail(t) ==
  IF t.ended # "no" THEN t
  ELSE [StopAllBlocks(FinalizeThinking(t, TRUE)) EXCEPT !.ended = "error"]

\* A message of the last event: skipped when its text was streamed under another key.
FinalMessage(t, k) ==
  IF Find(t, "text", k) = 0 /\ HasEmittedKind(t, "text") THEN t
  ELSE StopBlock(DeltaOnce(t, "text", k, Whole), "text", k)

FinalCall(t, k) == StopBlock(DeltaOnce(EnsureBlock(t, "tool", k), "tool", k, Whole), "tool", k)

\* The items of the last event, each written unless the stream brought it.
FinalItem(t, k, kind, signed) ==
  CASE kind = "reasoning" -> EmitFinalReasoningItem(t, k, Whole, signed)
    [] kind = "message" -> FinalMessage(t, k)
    [] kind = "call" -> FinalCall(t, k)

EmitFinalOutput(t, items, signed) ==
  LET emit[k \in 0 .. Len(items)] ==
        IF k = 0 THEN t ELSE FinalItem(emit[k - 1], k, items[k], signed)
  IN  emit[Len(items)]

-------------------------------------------------------------------------------
(* ProcessData: one event of an item; signed says whether it carries the   *)
(* signature of its reasoning.                                             *)

ItemAdded(t, k, kind, signed) ==
  LET u == EnsureStart(t) IN
  CASE kind = "reasoning" -> CaptureThinkingSignature([u EXCEPT !.current = k], k, signed)
    [] kind = "call" -> EnsureBlock(u, "tool", k)
    [] kind = "message" -> u

ItemDone(t, k, kind, signed) ==
  CASE kind = "reasoning" ->
         LET u == CaptureThinkingSignature([t EXCEPT !.current = k], k, signed)
         IN  IF u.thinking = 0 THEN EmitFinalReasoningItem(u, k, Whole, signed)
             ELSE FinalizeThinking(u, TRUE)
    [] kind = "call" ->
         StopBlock(DeltaOnce(EnsureBlock(EnsureStart(t), "tool", k), "tool", k, Whole), "tool", k)
    [] kind = "message" ->
         IF Emitted(t, "text", k) THEN StopBlock(t, "text", k)
         ELSE StopBlock(Delta(EnsureStart(t), "text", k, Whole), "text", k)

MessageEvent(t, e) ==
  LET u == EnsureStart(t) IN
  CASE e.type = "text_delta" -> Delta(u, "text", e.item, e.pieces)
    [] e.type = "part_added" -> EnsureBlock(u, "text", e.item)
    [] e.type = "part_done" ->
         StopBlock(IF Emitted(t, "text", e.item) THEN t ELSE Delta(u, "text", e.item, e.pieces),
                   "text", e.item)

ReasoningEvent(t, e) ==
  LET u == EnsureStart(t) IN
  CASE e.type = "summary_added" -> StartThinkingPart(u, e.item)
    [] e.type = "summary_delta" ->
         ThinkingDelta(IF u.thinking = 0 THEN StartThinkingPart(u, e.item) ELSE u, e.item, e.pieces)
    [] e.type = "summary_done" -> [t EXCEPT !.pending = TRUE]

CallEvent(t, e) ==
  LET u == EnsureStart(t) IN
  CASE e.type = "args_delta" -> Delta(u, "tool", e.item, e.pieces)
    [] e.type = "args_done" ->
         StopBlock(DeltaOnce(EnsureBlock(u, "tool", e.item), "tool", e.item, e.pieces),
                   "tool", e.item)

ProcessItem(t, e, kind, signed) ==
  CASE e.type = "created" -> EnsureStart(t)
    [] e.type = "added" -> ItemAdded(t, e.item, kind, signed)
    [] e.type = "item_done" -> ItemDone(t, e.item, kind, signed)
    [] e.type \in {"text_delta", "part_added", "part_done"} -> MessageEvent(t, e)
    [] e.type \in {"summary_added", "summary_delta", "summary_done"} -> ReasoningEvent(t, e)
    [] e.type \in {"args_delta", "args_done"} -> CallEvent(t, e)

\* response.completed and response.incomplete, with or without the output.
ProcessCompleted(t, items, output, signed, incomplete) ==
  LET u == IF output THEN EmitFinalOutput(EnsureStart(t), items, signed) ELSE EnsureStart(t)
  IN  Finish(u, IF HasToolUse(u) THEN "tool_use"
                ELSE IF incomplete THEN "max_tokens" ELSE "end_turn")

\* The line [DONE].
ProcessDone(t) == IF t.started THEN Finish(t, "") ELSE t

\* PipeResponsesSSE returned an error, or the stream ended too early: the handler
\* writes an error frame, or an error response if nothing was written yet.
PipeEnds(t) ==
  IF t.ended # "no" THEN t
  ELSE IF t.started THEN Fail(t) ELSE [t EXCEPT !.ended = "refused"]
==============================================================================
