-------------------------------- MODULE Turn --------------------------------
(* internal/turn: the accumulator that rebuilds a response from the events of
   an upstream stream, however fragmented, and the objects and events of the
   OpenAI endpoints that are made from it.

   An event is a record with the fields the code reads (NoEvent lists them),
   and its type is the upstream's without the prefix "response.".  Both kinds of
   tool arguments have one name here, "arguments.delta" and "arguments.done":
   "kind" tells a function from a custom tool.  Text, arguments and names are
   sequences of chunks or short names: nothing here looks inside them.  The
   accumulator's pointers to a ToolCallState are positions in "calls", which
   only grows. *)
EXTENDS Integers, Sequences, SequencesExt

ToolKinds == {"function_call", "custom_tool_call"}

(* An output item: a message, a reasoning item, a tool call, a hosted search or
   a generated image.  "sig" is a reasoning item's encrypted_content. *)
NoItem == [kind |-> "", id |-> "", call |-> "", name |-> "", body |-> <<>>,
           sig |-> "", status |-> ""]

NoUsage == [input |-> 0, output |-> 0, cached |-> 0]

(* "response" is TRUE when the event carries a response object, whose fields
   are respStatus, output and usage. *)
NoEvent == [type |-> "", id |-> "", call |-> "", index |-> -1, kind |-> "",
            name |-> "", body |-> <<>>, sig |-> "", item |-> NoItem,
            response |-> FALSE, responseId |-> "", respStatus |-> "", output |-> <<>>,
            usage |-> NoUsage, reason |-> ""]

EmptyAccumulator ==
  [id |-> "", text |-> <<>>, summary |-> <<>>, usage |-> NoUsage,
   calls |-> <<>>, toolCallByID |-> <<>>, items |-> <<>>, next |-> 0,
   status |-> "", terminal |-> "", final |-> NoEvent]

FirstNonEmpty(a, b) == IF a # "" THEN a ELSE b
FirstBody(a, b) == IF a # <<>> THEN a ELSE b

IsTerminal(event) == event.type \in {"completed", "incomplete"}

(* A body comes in two chunks.  As JSON, only the whole of it parses, and only
   then is a conversion of it applied; <<0>> marks converted text. *)
Whole == <<1, 2>>
Converted(text) == IF text = Whole THEN <<0>> \o text ELSE text

Incomplete(acc) == acc.terminal = "incomplete" \/ acc.status = "incomplete"
-----------------------------------------------------------------------------
(* Tool calls *)

ResolvedIndex(acc, preferred) == IF preferred >= 0 THEN preferred ELSE acc.next
AfterIndex(acc, preferred) == Max({acc.next, ResolvedIndex(acc, preferred) + 1})

RegisterAliases(acc, at, ids) ==
  [acc EXCEPT !.toolCallByID =
     [id \in DOMAIN @ \union ids |-> IF id \in ids THEN at ELSE @[id]]]

\* The position of the call known by one of two ids, the first one first; 0: none.
CallKnownBy(acc, call, item) ==
  CASE call \in DOMAIN acc.toolCallByID -> acc.toolCallByID[call]
    [] call \notin DOMAIN acc.toolCallByID /\ item \in DOMAIN acc.toolCallByID ->
         acc.toolCallByID[item]
    [] OTHER -> 0

(* A call first seen under one id has it for both; the next event that knows
   both replaces the placeholders. *)
EnsureToolCallState(acc, itemId, callId, index) ==
  LET item == FirstNonEmpty(itemId, callId)
      call == FirstNonEmpty(callId, item)
      at == CallKnownBy(acc, call, item)
      Upgraded(old) ==
        [old EXCEPT !.item = IF old.item = old.call THEN item ELSE @,
                    !.call = IF old.item = old.call THEN call ELSE @,
                    !.index = IF index >= 0 THEN index ELSE @]
      new == [item |-> item, call |-> call, tool |-> "function_call", name |-> "",
              body |-> <<>>, index |-> ResolvedIndex(acc, index),
              status |-> "in_progress", added |-> FALSE, done |-> FALSE]
  IN  IF at = 0
        THEN RegisterAliases([acc EXCEPT !.calls = Append(@, new),
                                         !.next = AfterIndex(acc, index)],
                             Len(acc.calls) + 1, {call, item})
        ELSE LET old == Upgraded(acc.calls[at])
             IN  RegisterAliases(
                   [acc EXCEPT !.calls[at] = old,
                               !.next = IF index >= 0 THEN AfterIndex(acc, index) ELSE @],
                   at, {old.call, old.item, call, item})

ApplyToolArgumentEvent(acc, event) ==
  LET call == FirstNonEmpty(event.call, event.id)
      known == EnsureToolCallState(acc, event.id, call, event.index)
      at == known.toolCallByID[call]
      old == known.calls[at]
      done == event.type = "arguments.done"
  IN  [known EXCEPT !.calls[at] =
        [old EXCEPT !.name = FirstNonEmpty(event.name, @),
                    !.tool = event.kind,
                    !.body = IF done THEN FirstBody(event.body, @) ELSE @ \o event.body,
                    !.status = IF done THEN "completed" ELSE @]]

\* The call an event is about, or 0.
ToolCallStateForEvent(acc, event) ==
  CASE event.type \in {"arguments.delta", "arguments.done"} ->
         CallKnownBy(acc, FirstNonEmpty(event.call, event.id), event.id)
    [] event.type \in {"output_item.added", "output_item.done"}
         /\ event.item.kind \in ToolKinds ->
         LET id == FirstNonEmpty(event.item.id, event.id)
         IN  CallKnownBy(acc, FirstNonEmpty(event.item.call, id), id)
    [] OTHER -> 0
-----------------------------------------------------------------------------
(* Output items *)

CaptureToolCall(acc, item, index) ==
  LET call == FirstNonEmpty(item.call, item.id)
      known == EnsureToolCallState(acc, FirstNonEmpty(item.id, call), call, index)
      at == known.toolCallByID[call]
      old == known.calls[at]
  IN  [known EXCEPT !.calls[at] =
        [old EXCEPT !.name = FirstNonEmpty(item.name, @),
                    !.tool = item.kind,
                    !.body = FirstBody(item.body, @),
                    !.status = FirstNonEmpty(item.status, @)]]

\* An item with an id is known by it, one without by its index.
SameOutputItem(entry, item, index) ==
  IF item.id # "" THEN entry.key = item.id
                  ELSE entry.key = "" /\ entry.keyIndex = index

CaptureOutputItem(acc, item, explicitIndex) ==
  LET index == ResolvedIndex(acc, explicitIndex)
      next == AfterIndex(acc, explicitIndex)
      same == {i \in DOMAIN acc.items : SameOutputItem(acc.items[i], item, index)}
      entry == [key |-> item.id, keyIndex |-> index, index |-> index, item |-> item]
  IN  CASE item = NoItem -> acc
        [] item.kind \in ToolKinds -> CaptureToolCall(acc, item, explicitIndex)
        [] item.kind \notin ToolKinds /\ item # NoItem /\ same # {} ->
             [acc EXCEPT !.items = [i \in DOMAIN @ |-> IF i \in same
                           THEN [@[i] EXCEPT !.index = index, !.item = item]
                           ELSE @[i]],
                         !.next = next]
        [] OTHER -> [acc EXCEPT !.items = Append(@, entry), !.next = next]

\* The items are forgotten and captured again; the tool calls stay.
ReplaceOutputItems(acc, output) ==
  FoldLeftDomain(LAMBDA a, i : CaptureOutputItem(a, output[i], i - 1),
                 [acc EXCEPT !.items = <<>>], output)

Replaced(acc, output) == IF output = <<>> THEN acc ELSE ReplaceOutputItems(acc, output)
-----------------------------------------------------------------------------
(* Accumulator.Apply, one operator per step, in the order of the code *)

ApplyMetadata(acc, event) ==
  LET named == [acc EXCEPT !.id = IF event.response
                                    THEN FirstNonEmpty(event.responseId, @)
                                    ELSE FirstNonEmpty(@, event.responseId),
                           !.status = FirstNonEmpty(event.respStatus, @),
                           !.usage = IF event.usage # NoUsage THEN event.usage ELSE @]
  IN  Replaced(named, event.output)

ApplyText(acc, event) ==
  CASE event.type = "output_text.delta" -> [acc EXCEPT !.text = @ \o event.body]
    [] event.type = "output_text.done" -> [acc EXCEPT !.text = FirstBody(@, event.body)]
    [] event.type = "reasoning_summary_text.delta" ->
         [acc EXCEPT !.summary = @ \o event.body]
    [] OTHER -> acc

ApplyTerminal(acc, event) ==
  IF IsTerminal(event)
    THEN Replaced([acc EXCEPT !.terminal = event.type, !.final = event], event.output)
    ELSE acc

Apply(acc, event) ==
  LET told == ApplyText(ApplyMetadata(acc, event), event)
      argued == IF event.type \in {"arguments.delta", "arguments.done"}
                  THEN ApplyToolArgumentEvent(told, event) ELSE told
  IN  ApplyTerminal(CaptureOutputItem(argued, event.item, event.index), event)
-----------------------------------------------------------------------------
(* The one-shot objects *)

OutputEntryBefore(a, b) ==
  a.index < b.index \/ (a.index = b.index /\ a.order < b.order)

\* No two entries are alike, so that each has a place of its own.
Ordered(entries) ==
  LET Place(i) == Cardinality({j \in DOMAIN entries :
                                 j = i \/ OutputEntryBefore(entries[j], entries[i])})
  IN  [n \in 1..Len(entries) |-> entries[CHOOSE i \in DOMAIN entries : Place(i) = n]]

SortedOutputItems(acc) ==
  Ordered([i \in DOMAIN acc.items |->
             [index |-> acc.items[i].index, order |-> i, item |-> acc.items[i].item]])

\* The text of the deltas, or else of the first message that has some.
Text(acc) ==
  LET told == SelectSeq(SortedOutputItems(acc),
                        LAMBDA e : e.item.kind = "message" /\ e.item.body # <<>>)
  IN  IF acc.text # <<>> THEN acc.text
      ELSE IF told # <<>> THEN told[1].item.body ELSE <<>>

ResponseOutputItem(call, status) ==
  [NoItem EXCEPT !.kind = call.tool, !.id = call.item, !.call = call.call,
                 !.name = call.name, !.body = call.body, !.status = status]

(* Tool calls and items by their place in the output.  Without either there is
   still a message, unless the response is incomplete and has no text. *)
ResponsesOutput(acc) ==
  LET text == Text(acc)
      ending == IF Incomplete(acc) THEN "incomplete" ELSE "completed"
      CallStatus(call) == IF Incomplete(acc) THEN FirstNonEmpty(call.status, "incomplete")
                                             ELSE "completed"
      Filled(item) == IF item.kind = "message"
                        THEN [item EXCEPT !.body = FirstBody(@, text),
                                          !.status = FirstNonEmpty(@, ending)]
                        ELSE item
      calls == [i \in DOMAIN acc.calls |->
                  [index |-> acc.calls[i].index, order |-> i,
                   item |-> ResponseOutputItem(acc.calls[i], CallStatus(acc.calls[i]))]]
      items == [i \in DOMAIN acc.items |->
                  [index |-> acc.items[i].index, order |-> Len(acc.calls) + i,
                   item |-> Filled(acc.items[i].item)]]
      entries == Ordered(calls \o items)
  IN  IF entries # <<>> THEN [i \in DOMAIN entries |-> entries[i].item]
      ELSE IF Incomplete(acc) /\ text = <<>> THEN <<>>
      ELSE << [NoItem EXCEPT !.kind = "message", !.body = text, !.status = ending] >>

NativeFinishReason(acc) == IF Incomplete(acc) THEN acc.final.reason ELSE ""

ChatFinishReason(acc) ==
  CASE Incomplete(acc) /\ NativeFinishReason(acc) = "max_output_tokens" -> "length"
    [] Incomplete(acc) /\ NativeFinishReason(acc) = "content_filter" -> "content_filter"
    [] ~Incomplete(acc) /\ acc.calls # <<>> -> "tool_calls"
    [] OTHER -> "stop"

ChatImages(acc) ==
  LET drawn == SelectSeq(SortedOutputItems(acc),
                         LAMBDA e : e.item.kind = "image_generation_call"
                                    /\ e.item.body # <<>>)
  IN  [i \in DOMAIN drawn |-> drawn[i].item.body]

\* A call has the shape of its tool, a function or a custom tool.
ChatCompletionToolCall(call) ==
  [call |-> call.call, tool |-> call.tool, name |-> call.name, body |-> call.body]

ChatCompletionObject(acc) ==
  [text |-> Text(acc), reasoning |-> acc.summary,
   calls |-> [i \in DOMAIN acc.calls |-> ChatCompletionToolCall(acc.calls[i])],
   images |-> ChatImages(acc), finish |-> ChatFinishReason(acc), usage |-> acc.usage]

CompletionObject(acc) ==
  [text |-> Text(acc), finish |-> ChatFinishReason(acc), usage |-> acc.usage]
-----------------------------------------------------------------------------
(* The tool events of the Responses endpoints: those that are missing are
   synthesized.  Every operator returns the accumulator and the events. *)

Frame(type, index, item, body) ==
  [type |-> type, index |-> index, item |-> item, body |-> body]

EnsureOutputItemAdded(acc, at) ==
  LET call == acc.calls[at]
  IN  IF call.added THEN [acc |-> acc, events |-> <<>>]
      ELSE [acc |-> [acc EXCEPT !.calls[at].added = TRUE],
            events |-> << Frame("output_item.added", call.index,
                                ResponseOutputItem(call, "in_progress"), <<>>) >>]

EnsureToolCallCompleted(acc, at) ==
  LET call == acc.calls[at]
      item == ResponseOutputItem(call, "completed")
      opened == EnsureOutputItemAdded(acc, at)
  IN  IF call.done THEN [acc |-> acc, events |-> <<>>]
      ELSE [acc |-> [opened.acc EXCEPT !.calls[at].status = "completed",
                                       !.calls[at].done = TRUE],
            events |-> opened.events \o
                       << Frame("arguments.done", call.index, item, call.body),
                          Frame("output_item.done", call.index, item, <<>>) >>]

\* What an event about a known tool call becomes.
ResponsesStreamEventsForEvent(acc, event, at) ==
  LET opened == EnsureOutputItemAdded(acc, at)
      call == acc.calls[at]
      delta == Frame("arguments.delta", call.index,
                     ResponseOutputItem(call, "in_progress"), event.body)
  IN  CASE event.type = "arguments.delta" ->
             [opened EXCEPT !.events = IF event.body = <<>> THEN @ ELSE Append(@, delta)]
        [] event.type = "output_item.added" -> opened
        [] OTHER -> EnsureToolCallCompleted(acc, at)

\* At the end: the calls that were not completed, unless they were cut off.
PendingToolCallCompletionEvents(acc) ==
  LET Complete(step, at) ==
        LET call == step.acc.calls[at]
            more == EnsureToolCallCompleted(step.acc, at)
        IN  IF call.done \/ (Incomplete(step.acc) /\ call.status # "completed")
              THEN step
              ELSE [acc |-> more.acc, events |-> step.events \o more.events]
  IN  FoldLeftDomain(Complete, [acc |-> acc, events |-> <<>>], acc.calls)
=============================================================================
