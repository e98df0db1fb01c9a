--------------------------- MODULE ResponseStreams ---------------------------
(* One response on its way from the upstream to a client, on any of the
   streaming endpoints: the loops of streamAnthropicMessage,
   streamChatCompletion, streamCompletion and streamResponses, with
   nextStreamEvent and collectEvents.

   The upstream produces the items of a plan.  An item may come as fragments,
   as one piece or only in the terminal response; fragments may be missing, and
   those of tool calls may be interleaved.  It may also stop at any moment,
   with response.incomplete, an error event or no word at all, or the client
   may leave.  "oneShot" is the accumulator of a request for the same response
   without streaming: the Responses stream marks its own. *)
EXTENDS AnthropicStream, OpenAIStreams

CONSTANTS
  Endpoints,    \* of "anthropic", "chat", "completions", "responses"
  Plans,        \* the sequences of item kinds the upstream may produce
  Structured,   \* may the request have a schema whose output is converted back?
  ItemIds, CallIds   \* the ids of the items and of the tool calls of a plan

ItemKinds == ToolKinds \union {"message", "reasoning", "image_generation_call", "web_search_call"}

ASSUME EndpointsAssumption == Endpoints \subseteq {"anthropic", "chat", "completions", "responses"}
ASSUME PlansAssumption == Plans \subseteq Seq(ItemKinds) /\ Structured \subseteq BOOLEAN

\* The upstream gives every item and every call an id of its own.
ASSUME IdsAssumption ==
  \A plan \in Plans : \A i, j \in DOMAIN plan :
    /\ ItemIds[i] # "" /\ CallIds[i] # "" /\ ItemIds[i] # CallIds[j]
    /\ i # j => ItemIds[i] # ItemIds[j] /\ CallIds[i] # CallIds[j]

VARIABLES
  endpoint, structured,
  scripts,      \* for each item of the plan, its kind and the events about it
  delivered,    \* how many of them have come
  acc, oneShot, writer,
  phase         \* "streaming", then "ended", "failed" or "canceled"

vars == <<endpoint, structured, scripts, delivered, acc, oneShot, writer, phase>>
-----------------------------------------------------------------------------
(* The upstream *)

ItemId(i) == ItemIds[i]
CallId(i) == CallIds[i]
ToolName(i) == IF i = 1 THEN "tool_1" ELSE "tool_2"

Item(kind, i, body, status) ==
  [NoItem EXCEPT !.kind = kind, !.id = ItemId(i), !.body = body, !.status = status,
                 !.call = IF kind \in ToolKinds THEN CallId(i) ELSE "",
                 !.name = IF kind \in ToolKinds THEN ToolName(i) ELSE "",
                 !.sig = IF kind = "reasoning" /\ status = "completed" THEN "sig" ELSE ""]

ItemEvent(type, kind, i, body, status) ==
  [NoEvent EXCEPT !.type = type, !.index = i - 1, !.item = Item(kind, i, body, status)]

Added(kind, i, body) == ItemEvent("output_item.added", kind, i, body, "in_progress")
Done(kind, i, body, status) == ItemEvent("output_item.done", kind, i, body, status)

\* A fragment names its item, and where "named" also its call.
Fragment(type, kind, i, body, named) ==
  [NoEvent EXCEPT !.type = type, !.kind = kind, !.id = ItemId(i), !.index = i - 1,
                  !.body = body, !.call = IF named THEN CallId(i) ELSE "",
                  !.name = IF named THEN ToolName(i) ELSE ""]

ToolScripts(kind, i) ==
  LET D(chunk, named) == Fragment("arguments.delta", kind, i, <<chunk>>, named)
      Args(named) == Fragment("arguments.done", kind, i, Whole, named)
      done == Done(kind, i, Whole, "completed")
  IN  { << Added(kind, i, <<>>), D(1, FALSE), D(2, FALSE), Args(FALSE), done >>,
        << Added(kind, i, <<>>), D(1, FALSE), D(2, FALSE), Args(FALSE) >>,
        << Added(kind, i, <<>>), D(1, FALSE), done >>,
        << D(1, TRUE), D(2, TRUE), Args(TRUE) >>,
        << done >>,
        << >>,
        \* announced after its first fragment, which does not name the call
        << D(1, FALSE), Added(kind, i, <<1>>), D(2, FALSE), Args(FALSE), done >>,
        \* cut off, and said to be
        << Added(kind, i, <<>>), D(1, FALSE), Done(kind, i, <<1>>, "incomplete") >> }

MessageScripts(i) ==
  LET D(chunk) == Fragment("output_text.delta", "message", i, <<chunk>>, FALSE)
      whole == Fragment("output_text.done", "message", i, Whole, FALSE)
  IN  { << Added("message", i, <<>>), D(1), D(2), whole, Done("message", i, Whole, "completed") >>,
        << D(1), D(2) >>, << whole >>, << >> }

ReasoningScripts(i) ==
  LET D(chunk) == Fragment("reasoning_summary_text.delta", "reasoning", i, <<chunk>>, FALSE)
      done == Done("reasoning", i, Whole, "completed")
      signed == [Fragment("reasoning_summary_text.done", "reasoning", i, Whole, FALSE)
                   EXCEPT !.sig = "sig"]
      unsigned == Done("reasoning", i, Whole, "")
  IN  { << Added("reasoning", i, <<>>), D(1), D(2), done >>,
        << D(1), D(2), signed, done >>, << D(1), D(2), unsigned >>, << >> }

ImageScripts(i) ==
  LET partial(n) == Fragment("partial_image", "image_generation_call", i, <<n>>, FALSE)
      done == Done("image_generation_call", i, Whole, "completed")
  IN  { << partial(1), partial(2), done >>, << done >>, << >> }

Scripts(kind, i) ==
  CASE kind \in ToolKinds -> ToolScripts(kind, i)
    [] kind = "message" -> MessageScripts(i)
    [] kind = "reasoning" -> ReasoningScripts(i)
    [] kind = "image_generation_call" -> ImageScripts(i)
    [] kind = "web_search_call" -> { << Done(kind, i, Whole, "completed") >>, << >> }

ScriptsOf(kind, i) == {[kind |-> kind, events |-> events] : events \in Scripts(kind, i)}

(* An item after its first n events: as it was said to be, whole, or cut off. *)
ItemAfter(script, i, n) ==
  LET events == script.events
      said == {k \in 1..n : events[k].type = "output_item.done"}
      whole == n = Len(events) \/ \E k \in 1..n : events[k].body = Whole \/ events[k].sig # ""
      told == SelectSeq(SubSeq(events, 1, n), LAMBDA e : e.type # "output_item.added")
      parts == FlattenSeq([k \in DOMAIN told |-> told[k].body])
  IN  CASE said # {} -> events[CHOOSE k \in said : TRUE].item
        [] said = {} /\ whole -> Item(script.kind, i, Whole, "completed")
        [] OTHER -> Item(script.kind, i, parts, "incomplete")

Finished(i) == delivered[i] = Len(scripts[i].events)
CutOff(i) == Finished(i) /\ ItemAfter(scripts[i], i, delivered[i]).status = "incomplete"

Begun == {i \in DOMAIN scripts : \/ delivered[i] > 0
                                 \/ scripts[i].events = <<>> /\ \A j \in 1..(i - 1) : Finished(j)}
NthBegun(n) == CHOOSE i \in Begun : Cardinality({j \in Begun : j < i}) = n - 1

\* The output of the terminal response: the items that were begun, in their order.
FullOutput ==
  [n \in 1..Cardinality(Begun) |->
     ItemAfter(scripts[NthBegun(n)], NthBegun(n), delivered[NthBegun(n)])]

\* It may be left empty, but not when it is the only place of an item.
Outputs == {FullOutput} \union
           (IF \E i \in DOMAIN scripts : scripts[i].events = <<>> THEN {} ELSE {<<>>})

\* A call known only by its item, until an announcement that comes late.
Renamed(i) ==
  /\ scripts[i].kind \in ToolKinds /\ delivered[i] > 0
  /\ scripts[i].events[1].type = "arguments.delta" /\ scripts[i].events[1].call = ""

\* A text whose end the upstream did not tell, with something after it.
LeftOpen(i) ==
  /\ scripts[i].kind = "message" /\ delivered[i] > 0
  /\ \A k \in 1..delivered[i] : scripts[i].events[k].type # "output_text.done"

\* An item that only the terminal response has.
OnlyAtEnd(i) == scripts[i].events = <<>>

\* A thought of which only the end tells, before one whose deltas have come.
MixedThoughts(i, j) ==
  i < j /\ scripts[i].kind = "reasoning" /\ OnlyAtEnd(i) /\ delivered[j] > 0

\* An item that was cut off, and of which the terminal response says nothing.
Untold(i) == delivered[i] > 0 /\ ~Finished(i) /\ acc.final.output = <<>>

\* A call whose name only the terminal response has.
Nameless(i) == OnlyAtEnd(i) \/ (Renamed(i) /\ delivered[i] = 1)

AnyItem(Is(_), kinds) == \E i \in DOMAIN scripts : Is(i) /\ scripts[i].kind \in kinds

TerminalEvent(type, output, reason) ==
  [NoEvent EXCEPT !.type = type, !.response = TRUE, !.responseId = "resp", !.respStatus = type,
                  !.output = output, !.reason = reason,
                  !.usage = [input |-> 1, output |-> 2, cached |-> 2]]

Created == [NoEvent EXCEPT !.type = "created", !.response = TRUE, !.responseId = "resp",
                           !.respStatus = "in_progress"]
-----------------------------------------------------------------------------
(* The handlers *)

Init ==
  /\ endpoint \in Endpoints
  /\ structured \in Structured
  /\ \E plan \in Plans :
       scripts \in {s \in [DOMAIN plan -> UNION {ScriptsOf(plan[i], i) : i \in DOMAIN plan}] :
                     \A i \in DOMAIN plan : s[i] \in ScriptsOf(plan[i], i)}
  /\ delivered = [i \in DOMAIN scripts |-> 0]
  /\ acc = EmptyAccumulator
  /\ oneShot = EmptyAccumulator
  /\ writer = CASE endpoint = "anthropic" -> NewStreamEncoder
                [] endpoint = "chat" -> NewChatStream
                [] endpoint = "completions" -> NewCompletionStream
                [] endpoint = "responses" -> NewResponsesStream
  /\ phase = "streaming"

\* What the loop of each endpoint does with an event that was applied.
WriteEvent(event, applied) ==
  LET Becomes(accumulator, stream) == acc' = accumulator /\ writer' = stream
      Responds(step) == Becomes(step.acc, step.stream)
  IN  \/ /\ endpoint = "anthropic"
         /\ Becomes(applied, Events(writer, event, applied, TRUE, structured))
      \/ /\ endpoint = "chat"
         /\ Becomes(applied, ChatEvents(writer, event, applied, structured))
      \/ /\ endpoint = "completions"
         /\ Becomes(applied, CompletionEvents(writer, event, applied))
      \/ /\ endpoint = "responses"
         /\ Responds(ResponsesEvents(writer, event, applied, structured))

\* nextStreamEvent and collectEvents.
Handle(event) ==
  /\ WriteEvent(event, Apply(acc, event))
  /\ oneShot' = Apply(oneShot, event)
  /\ UNCHANGED <<endpoint, structured, scripts>>

Begin ==
  /\ phase = "streaming" /\ acc.id = ""
  /\ Handle(Created)
  /\ UNCHANGED <<delivered, phase>>

\* Items come one after the other; only tool calls may be interleaved.
Receive(i) ==
  /\ phase = "streaming" /\ acc.id # "" /\ ~Finished(i)
  /\ \A j \in 1..(i - 1) : Finished(j) \/ {scripts[i].kind, scripts[j].kind} \subseteq ToolKinds
  /\ Handle(scripts[i].events[delivered[i] + 1])
  /\ delivered' = [delivered EXCEPT ![i] = @ + 1]
  /\ UNCHANGED phase

Complete(output) ==
  /\ phase = "streaming" /\ acc.id # ""
  /\ \A i \in DOMAIN scripts : Finished(i) /\ ~CutOff(i)
  /\ Handle(TerminalEvent("completed", output, ""))
  /\ phase' = "ended"
  /\ UNCHANGED delivered

\* The token limit or a filter ends the response wherever it is.
Cut(output, reason) ==
  /\ phase = "streaming" /\ acc.id # ""
  /\ Handle(TerminalEvent("incomplete", output, reason))
  /\ phase' = "ended"
  /\ UNCHANGED delivered

(* An error event, or the end of the stream before a terminal event: the client
   gets one error event and nothing more. *)
Fail ==
  /\ phase = "streaming"
  /\ writer' = [writer EXCEPT !.out = Append(@,
        CASE endpoint = "anthropic" -> Event("error", -1, "", "", <<>>)
          [] endpoint \in {"chat", "completions"} -> Chunk("error", -1, "", "", <<>>)
          [] endpoint = "responses" -> Frame("error", -1, NoItem, <<>>))]
  /\ phase' = "failed"
  /\ UNCHANGED <<endpoint, structured, scripts, delivered, acc, oneShot>>

\* The client is gone: nothing is written.
Cancel ==
  /\ phase = "streaming"
  /\ phase' = "canceled"
  /\ UNCHANGED <<endpoint, structured, scripts, delivered, acc, oneShot, writer>>

Next ==
  \/ Begin
  \/ \E i \in DOMAIN scripts : Receive(i)
  \/ \E output \in Outputs :
       \/ Complete(output)
       \/ \E reason \in {"max_output_tokens", "content_filter"} : Cut(output, reason)
  \/ Fail
  \/ Cancel

Spec == Init /\ [][Next]_vars
-----------------------------------------------------------------------------
(* Properties *)

Indices(out, type) == {k \in DOMAIN out : out[k].type = type}
Before(out, type, k) == {j \in Indices(out, type) : j < k}
Written == writer.out
OnlyLast(type) == Indices(Written, type) \subseteq {Len(Written)}

(* Anthropic: one message_start, blocks numbered in order and never nested,
   every delta in the open block, message_stop last and with nothing open. *)
BlocksNested ==
  \A k \in DOMAIN Written :
    LET starts == Cardinality(Before(Written, "content_block_start", k))
        stops == Cardinality(Before(Written, "content_block_stop", k))
    IN  CASE Written[k].type = "message_start" -> k = 1
          [] Written[k].type = "content_block_start" -> starts = stops /\ Written[k].index = starts
          [] Written[k].type \in {"content_block_delta", "content_block_stop"} ->
               starts = stops + 1 /\ Written[k].index = stops
          [] Written[k].type = "message_delta" -> starts = stops /\ k = Len(Written) - 1
          [] OTHER -> k = Len(Written)

(* Chat: the role first, a tool's arguments after its header, one header for a
   call, the finish reason and [DONE] last.  *)
ChunksOrdered ==
  /\ \A k \in DOMAIN Written :
       CASE Written[k].type = "role" -> k = 1
         [] Written[k].type = "tool" -> \A j \in Before(Written, "tool", k) :
              Written[j].call # Written[k].call /\ Written[j].index # Written[k].index
         [] Written[k].type = "arguments" -> \E j \in Before(Written, "tool", k) :
              Written[j].index = Written[k].index
         [] Written[k].type = "final" -> k = Len(Written) - 1
         [] OTHER -> TRUE
  /\ OnlyLast("[DONE]") /\ OnlyLast("error")

(* Responses: at each output index a tool call is added once, before its deltas,
   and done once, after them; the terminal response is last. *)
ToolEventsPaired ==
  /\ OnlyLast("completed") /\ OnlyLast("incomplete") /\ OnlyLast("error")
  /\ \A k \in DOMAIN Written :
       Written[k].type \in {"output_item.added", "output_item.done", "arguments.delta"}
       /\ Written[k].item.kind \in ToolKinds =>
         LET Same(type) == {j \in Before(Written, type, k) : Written[j].index = Written[k].index}
         IN  /\ Same("output_item.done") = {}
             /\ (Same("output_item.added") = {}) <=> (Written[k].type = "output_item.added")

(* Whatever the upstream leaves out, repeats late or mixes, and wherever it
   stops, the client reads a stream that follows its protocol. *)
ProtocolFollowed ==
  CASE endpoint = "anthropic" -> BlocksNested
    [] endpoint \in {"chat", "completions"} -> ChunksOrdered
    [] endpoint = "responses" -> ToolEventsPaired
-----------------------------------------------------------------------------
(* What a client makes of the stream *)

Joined(out, Counts(_)) ==
  LET parts == SelectSeq(out, Counts) IN FlattenSeq([k \in DOMAIN parts |-> parts[k].body])

Occurrences(s, x) == Len(SelectSeq(s, LAMBDA y : y = x))
SameElements(s, t) == \A x \in ToSet(s) \union ToSet(t) : Occurrences(s, x) = Occurrences(t, x)

StreamedBlocks ==
  LET starts == SelectSeq(Written, LAMBDA e : e.type = "content_block_start")
      Read(b) ==
        LET Part(sig) == SelectSeq(Written, LAMBDA e : e.type = "content_block_delta"
                           /\ e.index = b.index /\ (e.kind = "signature_delta") = sig)
        IN  [kind |-> b.kind, call |-> b.call,
             body |-> FlattenSeq([k \in DOMAIN Part(FALSE) |-> Part(FALSE)[k].body]),
             sig |-> IF Part(TRUE) = <<>> THEN "" ELSE Part(TRUE)[1].body[1]]
  IN  [k \in DOMAIN starts |-> Read(starts[k])]

OfKind(blocks, kinds) == SelectSeq(blocks, LAMBDA b : b.kind \in kinds)
Body(blocks) == FlattenSeq([k \in DOMAIN blocks |-> blocks[k].body])

(* Anthropic (BuildMessage): the same tool uses, whole and each once, the same
   searches and text, one of the signed thoughts, the same reason and usage.
   Excepted are tool calls that were renamed, kept behind an open text, or cut
   off, and thoughts that the terminal response tells otherwise than the stream. *)
MessageSame ==
  LET message == BuildMessage(oneShot, TRUE, structured)
      Same(kinds) == SameElements(OfKind(StreamedBlocks, kinds), OfKind(message.content, kinds))
      Told(blocks) == Body(OfKind(blocks, {"text"}))
      thoughts == OfKind(message.content, {"thinking"})
      shown == OfKind(StreamedBlocks, {"thinking"})
      stop == SelectSeq(Written, LAMBDA e : e.type = "message_delta")[1]
  IN  /\ \/ Same({"tool_use"})
         \/ \E i \in DOMAIN scripts : Renamed(i) \/ LeftOpen(i) \/ CutOff(i)
      /\ Same({"server_tool_use", "web_search_tool_result"})
      /\ Told(StreamedBlocks) = Told(message.content)
      /\ \/ /\ ToSet(shown) \subseteq ToSet(thoughts)
            /\ Len(shown) = IF thoughts = <<>> THEN 0 ELSE 1
         \/ \E i, j \in DOMAIN scripts : MixedThoughts(i, j)
         \/ AnyItem(Untold, {"reasoning"})
      /\ stop.kind = message.stop /\ stop.index = message.usage.output

(* Chat Completions (ChatCompletionObject): the same tool calls, each with all of
   its arguments once, the same text, reasoning, last images and finish reason.
   A call in the object has the type of the upstream's tool, and so it has on the
   stream but for a custom tool, whose call is streamed as that of a function, as
   docs/TRANSLATION.md says.  Excepted are calls named by nothing but the terminal
   response, and the images of a response that was cut off. *)
NativeShape(call) ==
  \A i \in DOMAIN scripts : call.call \in {ItemId(i), CallId(i)} => call.tool = scripts[i].kind
AsStreamed(call) ==
  [call EXCEPT !.tool = IF @ = "custom_tool_call" THEN "function_call" ELSE @]

ChatSame ==
  LET object == PatchChatCompletionObject(ChatCompletionObject(oneShot), structured)
      tools == SelectSeq(Written, LAMBDA c : c.type = "tool")
      images == {k \in Indices(Written, "image") :
                   \A j \in Indices(Written, "image") : Written[j].index = Written[k].index => j <= k}
  IN  /\ \A k \in DOMAIN object.calls : NativeShape(object.calls[k])
      /\ \/ AnyItem(Nameless, ToolKinds)
         \/ SameElements([k \in DOMAIN object.calls |-> AsStreamed(object.calls[k])],
           [k \in DOMAIN tools |->
              [call |-> tools[k].call, tool |-> tools[k].tool, name |-> tools[k].name,
               body |-> Joined(Written, LAMBDA c : c.type = "arguments"
                                                   /\ c.index = tools[k].index)]])
      /\ object.text = Joined(Written, LAMBDA c : c.type \in {"content", "final"})
      /\ object.reasoning = Joined(Written, LAMBDA c : c.type = "reasoning")
      /\ \/ acc.terminal = "incomplete"
         \/ LET last == SetToSeq(images)
            IN  SameElements(object.images, [k \in DOMAIN last |-> Written[last[k]].body])
      /\ object.finish = Written[Len(Written) - 1].name

\* Legacy Completions (CompletionObject): the same text and finish reason.
CompletionSame ==
  LET object == CompletionObject(oneShot)
  IN  /\ object.text = Joined(Written, LAMBDA c : c.type \in {"content", "final"})
      /\ object.finish = Written[Len(Written) - 1].name

(* Responses (ResponsesOutput): the terminal response has the same output; a call
   that was cut off may have another status. *)
ResponseSame ==
  LET object == PatchedOutput(ResponsesOutput(oneShot), structured)
      Told(output) == IF \E i \in DOMAIN scripts : CutOff(i)
                        THEN [k \in DOMAIN output |-> [output[k] EXCEPT !.status = ""]]
                        ELSE output
  IN  Told(Written[Len(Written)].output) = Told(object)

(* The text, tool calls, images and finish that a client puts together from the
   stream of a response are those of the object that the same request gets
   without streaming: streamAnthropicMessage and BuildMessage, streamChatCompletion
   and ChatCompletionObject, streamCompletion and CompletionObject,
   streamResponses and ResponsesOutput. *)
StreamedAsOneShot ==
  phase = "ended" =>
    CASE endpoint = "anthropic" -> MessageSame
      [] endpoint = "chat" -> ChatSame
      [] endpoint = "completions" -> CompletionSame
      [] endpoint = "responses" -> ResponseSame

(* An item that output_item.done told the client of a Responses stream stands in
   the output of its terminal response with the same id, call, name and body,
   also when the upstream left that output empty (responseStreamPayload).
   Excepted are messages of a schema, which pass unconverted. *)
DoneItemsStand ==
  phase = "ended" /\ endpoint = "responses" =>
    \A k \in Indices(Written, "output_item.done") :
      Written[k].item.kind \in ToolKinds \/ ~structured =>
      \E item \in ToSet(Written[Len(Written)].output) :
        [item EXCEPT !.status = ""] = [Written[k].item EXCEPT !.status = ""]
=============================================================================
