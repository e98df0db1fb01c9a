--------------------------- MODULE AnthropicStream ---------------------------
(* internal/anthropic: the blocks of a finished message (response.go) and the
   encoder that turns the events of one response into Anthropic's server-sent
   events (stream.go).

   The encoder collects what it writes in "out".  Its maps by call id are
   functions; toolStates holds the place of a call in the accumulator, the
   pointer of the code, so that a call is always read as it is now. *)
EXTENDS Turn

NoBlock == [index |-> -1, kind |-> "", call |-> ""]

NewStreamEncoder ==
  [started |-> FALSE, next |-> 0, open |-> NoBlock, textEmitted |-> FALSE,
   thinkEmitted |-> FALSE, thinkDeltas |-> <<>>, toolSent |-> <<>>, toolDone |-> {},
   toolStates |-> <<>>, toolDeltas |-> <<>>, toolOrder |-> <<>>, webDone |-> {},
   out |-> <<>>]

Get(f, x, default) == IF x \in DOMAIN f THEN f[x] ELSE default
Put(f, x, value) == [y \in DOMAIN f \union {x} |-> IF y = x THEN value ELSE f[y]]
Without(f, x) == [y \in DOMAIN f \ {x} |-> f[y]]
-----------------------------------------------------------------------------
(* The finished message *)

Usable(status) == status \notin {"incomplete", "failed", "cancelled"}

ExecutableToolState(call, respStatus) ==
  call.status = "completed" \/ (Usable(call.status) /\ Usable(respStatus))

\* The first call known by the item's id decides; an unknown one by its own status.
ExecutableToolCall(acc, item, respStatus) ==
  LET id == FirstNonEmpty(item.call, item.id)
      known == {i \in DOMAIN acc.calls : id \in {acc.calls[i].call, acc.calls[i].item}}
  IN  IF known # {} THEN ExecutableToolState(acc.calls[Min(known)], respStatus)
      ELSE IF item.status # "" THEN item.status = "completed"
      ELSE Usable(respStatus)

Block(kind, call, body, sig) == [kind |-> kind, call |-> call, body |-> body, sig |-> sig]

WebSearchBlocks(item, fallback) ==
  LET id == FirstNonEmpty(item.id, fallback)
  IN  IF item.status \notin {"", "completed"} \/ id = "" THEN <<>>
      ELSE << Block("server_tool_use", id, item.body, ""),
              Block("web_search_tool_result", id, <<>>, "") >>

WebSearchFallback(index) ==
  CASE index = 0 -> "web_search_0" [] index = 1 -> "web_search_1"
    [] index = 2 -> "web_search_2" [] OTHER -> ""

\* The JSON of a schema's output is cleaned of the nulls the strict schema added.
NormalizedOutputText(structured, text) == IF structured THEN Converted(text) ELSE text

(* The blocks of the items of an output; a search counts once.  Thinking is shown
   when the request asked for it, and only when it is signed. *)
OutputBlocks(acc, output, expose, structured) ==
  LET Searched(i) == WebSearchBlocks(output[i], WebSearchFallback(i - 1))
      SearchedBefore(i) == \E j \in 1..(i - 1) :
        /\ output[j].kind = "web_search_call" /\ Searched(j) # <<>>
        /\ FirstNonEmpty(output[j].id, WebSearchFallback(j - 1))
             = FirstNonEmpty(output[i].id, WebSearchFallback(i - 1))
      Blocks(i, item) ==
        CASE item.kind = "reasoning" /\ expose /\ item.sig # "" ->
               << Block("thinking", "", item.body, item.sig) >>
          [] item.kind = "message" /\ item.body # <<>> ->
               << Block("text", "", NormalizedOutputText(structured, item.body), "") >>
          [] item.kind = "web_search_call" /\ ~SearchedBefore(i) -> Searched(i)
          [] item.kind \in ToolKinds
             /\ ExecutableToolCall(acc, item, acc.final.respStatus) ->
               << Block("tool_use", FirstNonEmpty(item.call, item.id), item.body, "") >>
          [] OTHER -> <<>>
  IN  FoldLeftDomain(LAMBDA seen, i : seen \o Blocks(i, output[i]), <<>>, output)

WithText(blocks, text) ==
  IF text = <<>> \/ \E i \in DOMAIN blocks : blocks[i].kind = "text" THEN blocks
  ELSE Append(blocks, Block("text", "", text, ""))

ResponseBlocks(acc, expose, structured) ==
  WithText(OutputBlocks(acc, ResponsesOutput(acc), expose, structured),
           NormalizedOutputText(structured, Text(acc)))

StopFromAccumulator(acc) ==
  CASE acc.final.reason = "max_output_tokens" -> "max_tokens"
    [] acc.final.reason = "content_filter" -> "refusal"
    [] acc.final.reason = "" /\ FirstNonEmpty(acc.status, acc.final.respStatus) = "incomplete" ->
         "max_tokens"
    [] acc.final.reason = "" /\ FirstNonEmpty(acc.status, acc.final.respStatus) # "incomplete"
       /\ acc.calls # <<>> -> "tool_use"
    [] OTHER -> "end_turn"

\* Cached input tokens are reported apart from the others.
UsageFromAccumulator(acc) ==
  LET cached == Min({acc.usage.cached, acc.usage.input})
  IN  [input |-> acc.usage.input - cached, output |-> acc.usage.output, cached |-> cached]

BuildMessage(acc, expose, structured) ==
  [id |-> acc.id, content |-> ResponseBlocks(acc, expose, structured),
   stop |-> StopFromAccumulator(acc), usage |-> UsageFromAccumulator(acc)]
-----------------------------------------------------------------------------
(* Writing blocks *)

Event(type, index, kind, call, body) ==
  [type |-> type, index |-> index, kind |-> kind, call |-> call, body |-> body]

Emit(enc, event) == [enc EXCEPT !.out = Append(@, event)]

EnsureStarted(enc, acc) ==
  IF enc.started THEN enc
  ELSE [Emit(enc, Event("message_start", -1, "", acc.id, <<>>)) EXCEPT !.started = TRUE]

\* The ...Bug operators each put one plausible mistake into the definition that
\* follows them; no specification uses them.
CloseBlockKeptBug(enc) ==
  IF enc.open = NoBlock THEN enc
  ELSE Emit(enc, Event("content_block_stop", enc.open.index, "", "", <<>>))

CloseBlock(enc) ==
  IF enc.open = NoBlock THEN enc
  ELSE [Emit(enc, Event("content_block_stop", enc.open.index, "", "", <<>>))
          EXCEPT !.open = NoBlock]

OpenBlock(enc, kind, call) ==
  [Emit(enc, Event("content_block_start", enc.next, kind, call, <<>>))
     EXCEPT !.open = [index |-> enc.next, kind |-> kind, call |-> call], !.next = @ + 1]

OpenText(enc) ==
  IF enc.open.kind = "text" THEN enc ELSE OpenBlock(CloseBlock(enc), "text", "")

Delta(enc, kind, body) ==
  Emit(enc, Event("content_block_delta", enc.open.index, kind, "", body))

EmitText(enc, body) ==
  [Delta(OpenText(enc), "text_delta", body) EXCEPT !.textEmitted = TRUE]

\* One block, the collected deltas or else the whole text, and its signature.
CompleteThinking(enc, thinking, signature) ==
  LET parts == CASE enc.thinkDeltas # <<>> -> enc.thinkDeltas
                 [] enc.thinkDeltas = <<>> /\ thinking # <<>> -> <<thinking>>
                 [] OTHER -> <<>>
      told == FoldLeft(LAMBDA e, part : Delta(e, "thinking_delta", part),
                       OpenBlock(CloseBlock(enc), "thinking", ""), parts)
  IN  IF enc.thinkEmitted \/ signature = "" THEN enc
      ELSE [CloseBlock(Delta(told, "signature_delta", <<signature>>))
              EXCEPT !.thinkDeltas = <<>>, !.thinkEmitted = TRUE]

\* A search is written as two blocks of its own, whole, once.
CompleteWebSearch(enc, item, fallback) ==
  LET blocks == WebSearchBlocks(item, fallback)
      use == OpenBlock(CloseBlock(enc), "server_tool_use", blocks[1].call)
      asked == IF blocks[1].body = <<>> THEN use
               ELSE Delta(use, "input_json_delta", blocks[1].body)
      result == OpenBlock(CloseBlock(asked), "web_search_tool_result", blocks[2].call)
  IN  IF blocks = <<>> \/ blocks[1].call \in enc.webDone THEN enc
      ELSE [CloseBlock(result) EXCEPT !.webDone = @ \union {blocks[1].call}]
-----------------------------------------------------------------------------
(* Tools: kept back until complete, written in the order they were first seen *)

RegisterTool(enc, call, at) ==
  [enc EXCEPT !.toolOrder = IF call.call \in DOMAIN enc.toolStates THEN @
                                                           ELSE Append(@, call.call),
              !.toolStates = Put(@, call.call, at)]

ToolRemainderAgainBug(enc, call) ==
  IF call.body = <<>> THEN enc
  ELSE [Delta(enc, "input_json_delta", call.body)
          EXCEPT !.toolSent = Put(@, call.call, Len(call.body))]

ToolRemainder(enc, call) ==
  LET sent == Get(enc.toolSent, call.call, 0)
  IN  IF sent >= Len(call.body) THEN enc
      ELSE [Delta(enc, "input_json_delta", SubSeq(call.body, sent + 1, Len(call.body)))
              EXCEPT !.toolSent = Put(@, call.call, Len(call.body))]

(* The block of the call registered under "id".  Its deltas count as sent under
   that id, its remainder under the id the call has now. *)
SendTool(enc, calls, id) ==
  LET call == calls[enc.toolStates[id]]
      opened == [OpenBlock(enc, "tool_use", call.call)
                   EXCEPT !.toolSent = Put(@, call.call, 0)]
      Sent(e, part) == [Delta(e, "input_json_delta", part)
                          EXCEPT !.toolSent = Put(@, id, Get(@, id, 0) + Len(part))]
      told == FoldLeft(Sent, opened, Get(enc.toolDeltas, id, <<>>))
  IN  CloseBlock(ToolRemainder([told EXCEPT !.toolDeltas = Without(@, id)], call))

(* Nothing is written while a block is open; a tool that is not done keeps back
   those behind it. *)
FlushTools(enc, calls) ==
  LET Waiting(e, id) == id \notin DOMAIN e.toolSent /\ id \in DOMAIN e.toolStates
      Step(step, id) ==
        CASE step.stuck \/ ~Waiting(step.enc, id) -> step
          [] ~step.stuck /\ Waiting(step.enc, id) /\ id \notin step.enc.toolDone ->
               [step EXCEPT !.stuck = TRUE]
          [] OTHER -> [step EXCEPT !.enc = SendTool(@, calls, id)]
  IN  IF enc.open # NoBlock THEN enc
      ELSE FoldLeft(Step, [enc |-> enc, stuck |-> FALSE], enc.toolOrder).enc

CompleteTool(enc, calls, at) ==
  FlushTools([RegisterTool(enc, calls[at], at) EXCEPT !.toolDone = @ \union {calls[at].call}],
             calls)
-----------------------------------------------------------------------------
(* What the terminal response adds, one step after the other *)

\* The calls that are complete may be written now, the others never will be.
SettleTools(enc, acc) ==
  LET Settle(e, at) ==
        LET call == acc.calls[at]
        IN  IF ExecutableToolState(call, acc.final.respStatus)
              THEN [RegisterTool(e, call, at) EXCEPT !.toolDone = @ \union {call.call}]
              ELSE [e EXCEPT !.toolStates = Without(@, call.call)]
  IN  FoldLeftDomain(Settle, enc, acc.calls)

HydrateThinking(enc, blocks) ==
  LET thoughts == SelectSeq(blocks, LAMBDA b : b.kind = "thinking")
  IN  IF thoughts = <<>> THEN enc
      ELSE CompleteThinking(enc, thoughts[1].body, thoughts[1].sig)

HydrateSearches(enc, output) ==
  LET Search(e, i) == IF output[i].kind = "web_search_call"
                        THEN CompleteWebSearch(e, output[i], WebSearchFallback(i - 1))
                        ELSE e
  IN  FoldLeftDomain(Search, enc, output)

HydrateText(enc, blocks) ==
  LET texts == SelectSeq(blocks, LAMBDA b : b.kind = "text" /\ b.body # <<>>)
  IN  IF enc.textEmitted \/ texts = <<>> THEN enc
      ELSE CloseBlock(EmitText(enc, texts[1].body))

\* Tools of which no fragment has come are written last.
HydrateTerminal(enc, acc, expose, structured) ==
  LET started == DOMAIN enc.toolSent # {} \/ DOMAIN enc.toolDeltas # {}
      Flushed(e, now) == IF now THEN FlushTools(e, acc.calls) ELSE e
      Hydrated(e, blocks) ==
        HydrateText(HydrateSearches(HydrateThinking(e, blocks), ResponsesOutput(acc)), blocks)
  IN  Flushed(Hydrated(Flushed(SettleTools(enc, acc), started),
                       ResponseBlocks(acc, expose, structured)), ~started)

ReasoningDone(enc, event, expose) ==
  CASE ~expose -> enc
    [] expose /\ event.item.sig # "" -> CompleteThinking(enc, event.item.body, event.item.sig)
    [] OTHER -> [enc EXCEPT !.thinkDeltas = <<>>]

\* With a schema the text is held back until it is whole and can be cleaned.
TextDone(enc, event, acc, structured) ==
  LET text == IF structured THEN NormalizedOutputText(TRUE, FirstBody(event.body, Text(acc)))
                            ELSE event.body
      told == IF enc.textEmitted \/ text = <<>> THEN enc ELSE EmitText(enc, text)
  IN  IF told.open.kind = "text" THEN CloseBlock(told) ELSE told

Terminate(enc, acc, expose, structured) ==
  LET closed == CloseBlock(HydrateTerminal(enc, acc, expose, structured))
      ended == Emit(closed, Event("message_delta", UsageFromAccumulator(acc).output,
                                  StopFromAccumulator(acc), "", <<>>))
  IN  Emit(ended, Event("message_stop", -1, "", "", <<>>))

(* StreamEncoder.Events, for an event the accumulator has already applied *)
Events(encoder, event, acc, expose, structured) ==
  LET enc == EnsureStarted(encoder, acc)
      at == ToolCallStateForEvent(acc, event)
      type == event.type
  IN  CASE type = "reasoning_summary_text.delta" /\ expose ->
             [enc EXCEPT !.thinkDeltas = Append(@, event.body)]
        [] type = "reasoning_summary_text.done" /\ expose ->
             CompleteThinking(enc, acc.summary, FirstNonEmpty(event.sig, event.item.sig))
        [] type = "output_text.delta" /\ ~structured -> EmitText(enc, event.body)
        [] type = "output_text.done" -> TextDone(enc, event, acc, structured)
        [] type = "arguments.delta" /\ at # 0 ->
             LET id == acc.calls[at].call
             IN  [RegisterTool(enc, acc.calls[at], at)
                    EXCEPT !.toolDeltas = Put(@, id, Append(Get(@, id, <<>>), event.body))]
        [] type = "arguments.done" /\ at # 0 -> CompleteTool(enc, acc.calls, at)
        [] type = "output_item.done" /\ event.item.kind = "web_search_call" ->
             CompleteWebSearch(enc, event.item, WebSearchFallback(event.index))
        [] type = "output_item.done" /\ event.item.kind = "reasoning" ->
             ReasoningDone(enc, event, expose)
        [] type = "output_item.done" /\ at # 0 -> CompleteTool(enc, acc.calls, at)
        [] IsTerminal(event) -> Terminate(enc, acc, expose, structured)
        [] OTHER -> enc
=============================================================================
