---------------------------- MODULE OpenAIStreams ----------------------------
(* internal/server: what the streaming handlers of the OpenAI endpoints write
   for each upstream event: Chat Completions (stream_chat_tools.go,
   stream_chat_images.go, streamChatCompletion), legacy Completions
   (completions.go) and Responses (stream_responses.go, responsesStreamEvents).

   "tuple" says that the request has a tuple schema: its text is held back, then
   converted whole. *)
EXTENDS Turn

At(f, x, default) == IF x \in DOMAIN f THEN f[x] ELSE default
With(f, x, value) == [y \in DOMAIN f \union {x} |-> IF y = x THEN value ELSE f[y]]

\* Objects of a tuple schema are made arrays again; text that is no JSON stays.
ReconvertJSONText(text) == Converted(text)

\* What the one-shot endpoints answer when there is a tuple schema.
PatchChatCompletionObject(object, tuple) ==
  IF tuple THEN [object EXCEPT !.text = ReconvertJSONText(@)] ELSE object

PatchedOutput(output, tuple) ==
  [i \in DOMAIN output |->
     IF tuple /\ output[i].kind = "message"
       THEN [output[i] EXCEPT !.body = ReconvertJSONText(@)] ELSE output[i]]
-----------------------------------------------------------------------------
(* Chat Completions *)

\* The header of a call has the shape of a function whatever its tool is.
Chunk(type, index, call, name, body) ==
  [type |-> type, index |-> index, call |-> call, name |-> name, body |-> body,
   tool |-> IF type = "tool" THEN "function_call" ELSE ""]

Write(chat, chunk) == [chat EXCEPT !.out = Append(@, chunk)]

NewChatStream ==
  Write([indexByCallID |-> <<>>, initialized |-> {}, argumentsSent |-> <<>>, nextIndex |-> 0,
         imageIndex |-> <<>>, lastImage |-> <<>>, nextImage |-> 0,
         tupleText |-> <<>>, textSent |-> FALSE, out |-> <<>>],
        Chunk("role", -1, "", "", <<>>))

(* A call gets its index under the id it has at that moment, its header once its
   name is known, and then the arguments that were not sent yet. *)
WriteToolChunk(chat, acc, at) ==
  LET call == acc.calls[at]
      id == call.call
      index == At(chat.indexByCallID, id, chat.nextIndex)
      placed == [chat EXCEPT !.indexByCallID = With(@, id, index),
                             !.nextIndex = IF id \in DOMAIN chat.indexByCallID THEN @ ELSE @ + 1]
      headed == IF id \in chat.initialized \/ call.name = "" THEN placed
                ELSE [Write(placed, Chunk("tool", index, id, call.name, <<>>))
                        EXCEPT !.initialized = @ \union {id}]
      sent == At(chat.argumentsSent, id, 0)
  IN  IF id \notin headed.initialized \/ sent >= Len(call.body) THEN headed
      ELSE [Write(headed, Chunk("arguments", index, "", "",
                                SubSeq(call.body, sent + 1, Len(call.body))))
              EXCEPT !.argumentsSent = With(@, id, Len(call.body))]

\* An image is sent again only when it has changed, under its first index.
WriteImage(chat, id, image) ==
  LET index == At(chat.imageIndex, id, chat.nextImage)
  IN  IF image = <<>> \/ At(chat.lastImage, id, <<>>) = image THEN chat
      ELSE [Write(chat, Chunk("image", index, id, "", image))
              EXCEPT !.lastImage = With(@, id, image), !.imageIndex = With(@, id, index),
                     !.nextImage = IF id \in DOMAIN chat.imageIndex THEN @ ELSE @ + 1]

WriteImages(chat, event) ==
  LET Drawn(c, item) == IF item.kind = "image_generation_call"
                          THEN WriteImage(c, item.id, item.body) ELSE c
  IN  CASE event.type = "partial_image" -> WriteImage(chat, event.id, event.body)
        [] event.type = "output_item.done" -> Drawn(chat, event.item)
        [] event.type = "completed" -> FoldLeft(Drawn, chat, event.output)
        [] OTHER -> chat

WriteContent(chat, body) ==
  [Write(chat, Chunk("content", -1, "", "", body)) EXCEPT !.textSent = TRUE]

WriteText(chat, event, acc, tuple) ==
  LET whole == FirstBody(chat.tupleText, Text(acc))
  IN  CASE event.type = "reasoning_summary_text.delta" ->
             Write(chat, Chunk("reasoning", -1, "", "", event.body))
        [] event.type = "output_text.delta" /\ tuple ->
             [chat EXCEPT !.tupleText = @ \o event.body]
        [] event.type = "output_text.delta" /\ ~tuple -> WriteContent(chat, event.body)
        [] event.type = "output_text.done" /\ tuple ->
             [chat EXCEPT !.tupleText = FirstBody(event.body, @)]
        [] IsTerminal(event) /\ tuple /\ whole # <<>> ->
             WriteContent(chat, ReconvertJSONText(whole))
        [] OTHER -> chat

FinishChat(chat, acc) ==
  LET text == IF chat.textSent THEN <<>> ELSE Text(acc)
      final == Write(chat, Chunk("final", -1, "", ChatFinishReason(acc), text))
  IN  Write(final, Chunk("[DONE]", -1, "", "", <<>>))

(* One turn of streamChatCompletion's loop: an event that wrote a tool chunk
   writes nothing else. *)
ChatEvents(chat, event, acc, tuple) ==
  LET at == ToolCallStateForEvent(acc, event)
      tooled == IF at = 0 THEN chat ELSE WriteToolChunk(chat, acc, at)
      told == WriteText(WriteImages(tooled, event), event, acc, tuple)
  IN  IF tooled.out # chat.out THEN tooled
      ELSE IF IsTerminal(event) THEN FinishChat(told, acc)
      ELSE told
-----------------------------------------------------------------------------
(* Legacy Completions *)

NewCompletionStream == [textSent |-> FALSE, out |-> <<>>]

CompletionEvents(completion, event, acc) ==
  LET text == IF completion.textSent THEN <<>> ELSE Text(acc)
      final == Write(completion, Chunk("final", -1, "", ChatFinishReason(acc), text))
  IN  CASE event.type = "output_text.delta" -> WriteContent(completion, event.body)
        [] IsTerminal(event) -> Write(final, Chunk("[DONE]", -1, "", "", <<>>))
        [] OTHER -> completion
-----------------------------------------------------------------------------
(* Responses: tool events are rebuilt, the terminal response gets its output,
   its text and its usage, every other event passes through. *)

NewResponsesStream == [tupleText |-> <<>>, out |-> <<>>]

PassedOn(event) ==
  [Frame(event.type, event.index, event.item, event.body) EXCEPT !.item.id = FirstNonEmpty(@, event.id)]

\* A variant with a plausible bug, which no specification uses.
ResponseStreamPayloadAsSentBug(event, acc, tuple) ==
  [type |-> event.type, output |-> PatchedOutput(event.output, tuple),
   text |-> IF tuple THEN ReconvertJSONText(Text(acc)) ELSE Text(acc), usage |-> acc.usage]

\* With a tuple schema the texts of the terminal response are converted too.
ResponseStreamPayload(event, acc, tuple) ==
  [type |-> event.type, output |-> PatchedOutput(ResponsesOutput(acc), tuple),
   text |-> IF tuple THEN ReconvertJSONText(Text(acc)) ELSE Text(acc), usage |-> acc.usage]

(* The accumulator keeps what was announced: it is returned with the stream. *)
ResponsesEvents(stream, event, acc, tuple) ==
  LET at == ToolCallStateForEvent(acc, event)
      tool == ResponsesStreamEventsForEvent(acc, event, at)
      pending == PendingToolCallCompletionEvents(acc)
      converted == IF tuple /\ stream.tupleText # <<>>
                     THEN << Frame("output_text.delta", -1, NoItem,
                                   ReconvertJSONText(stream.tupleText)) >>
                     ELSE <<>>
      ending == << ResponseStreamPayload(event, pending.acc, tuple) >>
  IN  CASE tuple /\ event.type = "output_text.delta" ->
             [acc |-> acc, stream |-> [stream EXCEPT !.tupleText = @ \o event.body]]
        [] tuple /\ event.type = "output_text.done" ->
             [acc |-> acc, stream |-> [stream EXCEPT !.tupleText = FirstBody(event.body, @)]]
        [] at # 0 -> [acc |-> tool.acc, stream |-> [stream EXCEPT !.out = @ \o tool.events]]
        [] IsTerminal(event) ->
             [acc |-> pending.acc,
              stream |-> [stream EXCEPT !.out = @ \o converted \o pending.events \o ending]]
        [] OTHER -> [acc |-> acc, stream |-> [stream EXCEPT !.out = Append(@, PassedOn(event))]]
=============================================================================
