---------------------------- MODULE Continuations ----------------------------
(* Continuing an OpenAI conversation: the continuation store
   (conversation/continuation.go, key.go), the resolution of a request against
   it (server/session.go, compact.go), what openStream then sends upstream
   (server/public.go, responses_websocket.go) and what is remembered of it
   (rememberContinuation, continuation_history.go).

   The upstream is external: over a WebSocket it continues the response that
   previous_response_id names, if it still knows it; over HTTP it sees what it
   is sent.  A response is known by its number, in the order they ended. *)
EXTENDS Integers, Sequences, SequencesExt

CONSTANTS
  Requests,       \* requests that may be under way at once
  Models,
  MaxResponses    \* bound: responses that are made

ASSUME MaxResponsesAssumption == MaxResponses \in Nat

VARIABLES
  records,        \* ContinuationManager.records
  upstream,       \* what the provider's conversation was, for each response
  said,           \* what its client takes it to be, and whether it continued another
  lastResponse,   \* responsesWebSocketSession.lastResponseID, 0: none
  request

continuationVars == <<records, upstream, said, lastResponse, request>>
-----------------------------------------------------------------------------
(* Items and keys *)

Idle == [pc |-> "idle"]
ClientKey == <<[kind |-> "key", of |-> 0]>>

User == [kind |-> "user", of |-> 0]
OutputItem(kind, response) == [kind |-> kind, of |-> response]

\* What a response may consist of.
OutputKinds == { <<"message">>, <<"reasoning", "call">> }
Output(kinds, response) == [i \in DOMAIN kinds |-> OutputItem(kinds[i], response)]

\* What a client has to say next: the result of the call that was made, or more.
NextItem(conversation) ==
  IF conversation # <<>> /\ Last(conversation).kind = "call"
    THEN [kind |-> "result", of |-> Last(conversation).of] ELSE User

(* StripReasoningEncryptedContent: the other items, in their order *)
Stripped(items) ==
  LET kept == {i \in DOMAIN items : items[i].kind # "reasoning"}
      Nth(n) == CHOOSE i \in kept : Cardinality({j \in kept : j < i}) = n - 1
  IN  [n \in 1..Cardinality(kept) |-> items[Nth(n)]]

ModelItems(items) == {i \in DOMAIN items : items[i].kind \in {"message", "call"}}

(* Derive: the items up to the last one of the model stand for the hash. *)
Derive(items) ==
  IF ModelItems(items) = {} THEN items ELSE SubSeq(items, 1, Max(ModelItems(items)))
-----------------------------------------------------------------------------
(* The store.  Only the expiry of a record changes it; Get, ListAll and Sweep
   delete what has expired, which no later read can tell from a lapse. *)

Live == {p \in DOMAIN records : ~records[p].expired}

\* Time passes, for the oldest record that is left first.
Expire(p) ==
  /\ p \in Live /\ \A q \in Live : p <= q
  /\ records' = [records EXCEPT ![p].expired = TRUE]
  /\ UNCHANGED <<upstream, said, lastResponse, request>>

Sweep ==
  /\ Live # DOMAIN records
  /\ records' = [p \in Live |-> records[p]]
  /\ UNCHANGED <<upstream, said, lastResponse, request>>
-----------------------------------------------------------------------------
(* resolveSession *)

HasPriorAssistantOrToolHistory(items) ==
  \E i \in DOMAIN items : items[i].kind \in {"message", "call", "result"}

CanImplicitlyResume(record, req) ==
  /\ record.model = req.model
  /\ HasPriorAssistantOrToolHistory(req.input)

\* What is left of an input that starts with the record's history.
Trimmed(items, record) == SubSeq(items, Len(record.history) + 1, Len(items))

\* A variant with a plausible bug, used only to show what a property catches.
TrimmableUncomparedBug(items, record) ==
  record.history # <<>> /\ Len(items) > Len(record.history)

(* trimmedContinuationInput: results only of the calls of this very response *)
Trimmable(items, record) ==
  /\ record.history # <<>>
  /\ Len(items) > Len(record.history)
  /\ IsPrefix(record.history, items)
  /\ \A item \in ToSet(Trimmed(items, record)) : item.kind = "result" => item.of \in record.calls

(* Request, Original and the rest of sessionResolution: "input" after
   "previous" is to be sent, "original" is the replay without it. *)
Fresh(items, key) ==
  [input |-> items, previous |-> 0, original |-> items, explicit |-> FALSE,
   implicit |-> FALSE, replay |-> FALSE, key |-> key]

ResolveExplicit(req) ==
  LET record == records[req.previous]
  IN  [input |-> req.input, previous |-> req.previous,
       original |-> record.history \o req.input,
       explicit |-> TRUE, implicit |-> FALSE, replay |-> record.history # <<>>,
       key |-> record.key]

(* The newest record of the conversation that fits, or else of any other, whose
   key is then taken over. *)
ResolveImplicit(req) ==
  LET key == IF req.key # <<>> THEN req.key ELSE Derive(req.input)
      fits == {p \in Live : /\ CanImplicitlyResume(records[p], req)
                            /\ Trimmable(req.input, records[p])}
      listed == {p \in fits : records[p].key = key}
      p == Max(IF listed # {} THEN listed ELSE fits)
  IN  IF fits = {} THEN Fresh(req.input, key)
      ELSE [Fresh(req.input, key) EXCEPT !.input = Trimmed(req.input, records[p]),
              !.previous = p, !.implicit = TRUE, !.key = records[p].key]

\* An unknown or expired previous_response_id is refused.
Resolvable(req) == req.previous = 0 \/ req.previous \in Live
Resolved(req) == IF req.previous # 0 THEN ResolveExplicit(req) ELSE ResolveImplicit(req)
-----------------------------------------------------------------------------
(* openStream *)

Opened(r, context) ==
  /\ request' = [request EXCEPT ![r].pc = "open", ![r].context = context]
  /\ UNCHANGED <<records, upstream, said, lastResponse>>

Resumes(res) == res.previous # 0 /\ ~(res.explicit /\ res.replay)

(* A new conversation, or the saved one replayed, over HTTP *)
OpenHTTP(r) ==
  LET res == request[r].resolution
  IN  /\ request[r].pc = "resolved" /\ request[r].transport = "http" /\ ~Resumes(res)
      /\ Opened(r, IF res.previous = 0 THEN res.input ELSE res.original)

(* The upstream continues the response that it knows *)
OpenResumed(r) ==
  LET res == request[r].resolution
  IN  /\ request[r].pc = "resolved" /\ request[r].transport = "http" /\ Resumes(res)
      /\ Opened(r, upstream[res.previous] \o res.input)

(* or it does not, and an implicit resume falls back to all the client sent. *)
FallBack(r) ==
  LET res == request[r].resolution
  IN  /\ request[r].pc = "resolved" /\ request[r].transport = "http"
      /\ Resumes(res) /\ res.implicit
      /\ Opened(r, res.original)

(* A turn of a socket is sent as it was resolved. *)
OpenSocket(r) ==
  LET res == request[r].resolution
  IN  /\ request[r].pc = "resolved" /\ request[r].transport = "socket"
      /\ Opened(r, IF res.previous = 0 THEN res.input
                   ELSE upstream[res.previous] \o res.input)

(* compact: the saved history is put before the input. *)
OpenCompact(r) ==
  LET res == request[r].resolution
  IN  /\ request[r].pc = "resolved" /\ request[r].transport = "compact"
      /\ Opened(r, res.original)

(* resolveAndOpenRequest: the upstream rejects the signature of a thought, and
   the request is tried again without any, as one of its own. *)
RejectSignature(r) ==
  LET req == request[r]
      stripped == Stripped(req.resolution.original)
  IN  /\ req.pc = "resolved" /\ req.transport = "http"
      /\ stripped # req.resolution.original
      /\ request' = [request EXCEPT ![r].resolution = Fresh(stripped, req.resolution.key),
                                    ![r].meant = Stripped(req.meant)]
      /\ UNCHANGED <<records, upstream, said, lastResponse>>

\* No account, a refusal, an error or a client that leaves, before the end.
Fail(r) ==
  /\ request[r].pc \in {"resolved", "open"}
  /\ request' = [request EXCEPT ![r] = Idle]
  /\ UNCHANGED <<records, upstream, said, lastResponse>>
-----------------------------------------------------------------------------
(* finalizeSuccessfulStream *)

(* continuationInputHistory: of the request as it was resolved *)
ContinuationInputHistory(req, output) == req.resolution.input \o output

FunctionCallIDs(output) == {item.of : item \in {i \in ToSet(output) : i.kind = "call"}}

(* rememberContinuation *)
Record(req, output) ==
  [history |-> ContinuationInputHistory(req, output), key |-> req.resolution.key,
   model |-> req.model, calls |-> FunctionCallIDs(output),
   expired |-> FALSE]

Finish(r) ==
  LET req == request[r]
      response == Len(said) + 1
  IN  /\ req.pc = "open" /\ req.transport # "compact" /\ response <= MaxResponses
      /\ \E kinds \in OutputKinds :
           LET output == Output(kinds, response)
           IN  /\ records' = [p \in DOMAIN records \union {response} |->
                                IF p = response THEN Record(req, output) ELSE records[p]]
               /\ upstream' = Append(upstream, req.context \o output)
               /\ said' = Append(said, [conversation |-> req.meant \o output,
                                        continued |-> req.from # 0])
      /\ lastResponse' = IF req.transport = "socket" THEN response ELSE lastResponse
      /\ request' = [request EXCEPT ![r] = Idle]

\* Nothing of a compaction is remembered.
FinishCompact(r) ==
  /\ request[r].pc = "open" /\ request[r].transport = "compact"
  /\ request' = [request EXCEPT ![r] = Idle]
  /\ UNCHANGED <<records, upstream, said, lastResponse>>
-----------------------------------------------------------------------------
(* Clients: a request is resolved as soon as it comes *)

Busy(transport) ==
  \E r \in Requests : request[r].pc # "idle" /\ request[r].transport = transport

Asked(r, transport, model, key, previous, input, meant) ==
  LET req == [model |-> model, key |-> key, previous |-> previous, input |-> input]
  IN  /\ request[r].pc = "idle" /\ Len(said) < MaxResponses
      /\ Resolvable(req)
      /\ request' = [request EXCEPT ![r] =
           [pc |-> "resolved", transport |-> transport, model |-> model, explicit |-> previous # 0,
            meant |-> meant, from |-> Resolved(req).previous, resolution |-> Resolved(req),
            context |-> <<>>]]
      /\ records' = [p \in Live |-> records[p]]
      /\ UNCHANGED <<upstream, said, lastResponse>>

\* A new conversation, or all of an earlier one with something new; a client may
\* leave out thoughts, or the start of a conversation that has become too long.
AskWhole(r, transport, model, key) ==
  \/ Asked(r, transport, model, key, 0, <<User>>, <<User>>)
  \/ \E p \in DOMAIN said :
       LET conversation == said[p].conversation
           whole == Append(conversation, NextItem(conversation))
           users == {i \in DOMAIN whole : whole[i].kind = "user"}
           shortened == {SubSeq(whole, u, Len(whole)) : u \in users}
       IN  \E input \in shortened \union {Stripped(whole)} :
             Asked(r, transport, model, key, 0, input, input)

\* previous_response_id and what is new.
AskOn(r, transport, model, p) ==
  LET conversation == said[p].conversation
      next == NextItem(conversation)
  IN  Asked(r, transport, model, <<>>, p, <<next>>, Append(conversation, next))

(* A turn of the only socket, one after the other: without a history, and
   without previous_response_id, it goes on after the last one. *)
AskSocket(r, model) ==
  /\ ~Busy("socket")
  /\ \/ lastResponse # 0 /\ AskOn(r, "socket", model, lastResponse)
     \/ lastResponse = 0 /\ AskWhole(r, "socket", model, <<>>)
     \/ lastResponse # 0 /\ \E p \in DOMAIN said : AskOn(r, "socket", model, p)

Ask(r) ==
  \E model \in Models :
    \/ \E key \in {<<>>, ClientKey} : AskWhole(r, "http", model, key)
    \/ \E p \in DOMAIN said, transport \in {"http", "compact"} : AskOn(r, transport, model, p)
    \/ AskSocket(r, model)
-----------------------------------------------------------------------------
ContinuationInit ==
  /\ records = <<>>
  /\ upstream = <<>>
  /\ said = <<>>
  /\ lastResponse = 0
  /\ request = [r \in Requests |-> Idle]

ContinuationNext ==
  \/ Sweep
  \/ \E p \in DOMAIN records : Expire(p)
  \/ \E r \in Requests :
       \/ Ask(r)
       \/ OpenHTTP(r) \/ OpenResumed(r) \/ FallBack(r) \/ OpenSocket(r) \/ OpenCompact(r)
       \/ RejectSignature(r) \/ Fail(r) \/ Finish(r) \/ FinishCompact(r)

ContinuationSpec == ContinuationInit /\ [][ContinuationNext]_continuationVars
-----------------------------------------------------------------------------
(* Properties *)

(* However a request is resolved and sent, resumed, replayed, fallen back,
   stripped or compacted, the model answers the conversation its client means:
   nothing of it is missing, doubled, or taken from another one.  Excepted are
   continuations of a response that was itself a continuation, of which the
   store knows only the last turn. *)
SentTheConversation ==
  \A r \in Requests : request[r].pc = "open" =>
    \/ request[r].context = request[r].meant
    \/ request[r].from # 0 /\ said[request[r].from].continued

(* docs/TRANSLATION.md:401: a request with previous_response_id expands the
   locally saved transcript, which is the full history: nothing is lost. *)
NothingLost ==
  \A r \in Requests : request[r].pc = "open" /\ request[r].explicit =>
    request[r].context = request[r].meant
=============================================================================
