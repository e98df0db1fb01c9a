----------------------------- MODULE ClaudeReplay -----------------------------
(* Restoring what Claude clients leave out of a conversation with tools:
   ReplayManager (anthropic/replay.go) and its use by handleAnthropicMessages and
   streamAnthropicMessage (server/anthropic.go).

   The blocks of the last response with tool calls are remembered per session,
   agent and model; Apply puts its thoughts and calls back into a request that
   answers those calls.  The requests of one such key are modelled; the other
   keys only fill the store.  Every thought carries a valid signature, and all
   results of the calls of a response come in one message. *)
EXTENDS Integers, Sequences, FiniteSets, FiniteSetsExt, SequencesExt

CONSTANTS
  ClaudeRequests,   \* requests of the key that may be under way at once
  OtherKeys,
  Omissions,        \* the sets of types of blocks that a client may leave out
  MaxEntries, MaxBytes,   \* limits of the store
  MaxAnswers        \* bound: responses that are remembered, of all keys

\* With one entry the new record would go with the old one.
ASSUME ReplayAssumption ==
  /\ Omissions \subseteq SUBSET {"thinking", "tool_use", "text"}
  /\ MaxEntries \in Nat \ 0..1 /\ MaxBytes \in Nat /\ MaxAnswers \in Nat

VARIABLES
  replays,    \* ReplayManager.records: for each key its blocks and age
  bytes,      \* ReplayManager.bytes
  answers,    \* the conversation after each response of the key, as its client has it
  remembered, \* how many responses of any key there have been
  message     \* for each request what was asked, and what is sent

replayVars == <<replays, bytes, answers, remembered, message>>
-----------------------------------------------------------------------------
(* Blocks and messages *)

MainKey == "main"
NoRecord == [blocks |-> <<>>, stamp |-> 0, expired |-> FALSE]
IdleMessage == [pc |-> "none"]

\* A text of number 0 is a phrase the model uses again and again.
Block(type, of, no) == [type |-> type, of |-> of, no |-> no]
Message(role, content) == [role |-> role, content |-> content]

\* What a response may consist of.
BlockPlans(n) ==
  { <<Block("thinking", n, 1), Block("tool_use", n, 1)>>,
    <<Block("text", n, 1), Block("tool_use", n, 1), Block("tool_use", n, 2)>>,
    <<Block("thinking", n, 1), Block("text", 0, 1), Block("tool_use", n, 1)>>,
    <<Block("text", 0, 1)>> }

OfType(blocks, type) == SelectSeq(blocks, LAMBDA b : b.type = type)
Calls(blocks) == ToSet(OfType(blocks, "tool_use"))
Blocks(messages) == FlattenSeq([i \in DOMAIN messages |-> messages[i].content])

\* What the user says next: the results of the calls, or more.
Reply(conversation) ==
  LET calls == IF conversation = <<>> THEN <<>> ELSE OfType(Last(conversation).content, "tool_use")
  IN  Message("user", IF calls = <<>> THEN <<Block("text", 0, 1)>>
                      ELSE [i \in DOMAIN calls |-> Block("tool_result", calls[i].of, calls[i].no)])

\* The conversation as its client sends it: without the blocks it leaves out.
LeavingOut(conversation, LeftOut(_, _)) ==
  LET left == [i \in DOMAIN conversation |->
                 [conversation[i] EXCEPT !.content =
                    SelectSeq(@, LAMBDA b : conversation[i].role = "user" \/ ~LeftOut(i, b))]]
  IN  SelectSeq(left, LAMBDA m : m.content # <<>>)
-----------------------------------------------------------------------------
(* Apply *)

\* matchingToolResultIDs: the cached calls that the messages answer.
TargetCalls(messages, blocks) ==
  {call \in Calls(blocks) :
     \E result \in ToSet(OfType(Blocks(messages), "tool_result")) :
       result.of = call.of /\ result.no = call.no}

Signed(blocks) == ToSet(OfType(blocks, "thinking"))

\* existingToolUses and existingReasoningSignatures
Existing(messages) == ToSet(Blocks(messages))

FirstIndex(messages, P(_)) ==
  LET found == {i \in DOMAIN messages : P(messages[i])}
  IN  IF found = {} THEN 0 ELSE Min(found)

FirstToolResultMessage(messages, targets) ==
  FirstIndex(messages, LAMBDA m : \E b \in ToSet(m.content), call \in targets :
                         b.type = "tool_result" /\ b.of = call.of /\ b.no = call.no)

\* The nearest message of the model before the results with a cached text, 0: none.
MatchingReplayTextMessage(messages, blocks, before) ==
  LET texts == ToSet(OfType(blocks, "text"))
      found == {i \in 1..before - 1 : /\ messages[i].role = "assistant"
                                      /\ ToSet(messages[i].content) \intersect texts # {}}
  IN  IF found = {} THEN 0 ELSE Max(found)

\* A variant with a plausible bug, used only to show what a property catches.
OrderedReplayContentAppendedBug(blocks, targets, existing) ==
  existing \o SelectSeq(blocks, LAMBDA b : b.type = "thinking" \/ b \in targets)

\* Cached thoughts, calls and texts that are there, in their order, then the rest.
OrderedReplayContent(blocks, targets, existing) ==
  LET Kept(b) == CASE b.type = "thinking" -> TRUE
                   [] b.type = "tool_use" -> b \in targets
                   [] b.type = "text" -> b \in ToSet(existing)
  IN  SelectSeq(blocks, Kept) \o SelectSeq(existing, LAMBDA b : b \notin ToSet(blocks))

Apply(messages, record) ==
  LET targets == TargetCalls(messages, record.blocks)
      restored == Signed(record.blocks) \union targets
      replayed == SelectSeq(record.blocks, LAMBDA b : b \in restored)
      needsReplay == ~(restored \subseteq Existing(messages))
      filtered == [i \in DOMAIN messages |->
                     [messages[i] EXCEPT !.content = SelectSeq(@, LAMBDA b : b \notin restored)]]
      cleared == FirstIndex(messages, LAMBDA m : ToSet(m.content) \intersect restored # {})
      insertAt == FirstToolResultMessage(messages, targets)
      replaceAt == IF cleared # 0 THEN cleared
                   ELSE MatchingReplayTextMessage(filtered, record.blocks, insertAt)
  IN  IF targets = {} \/ ~needsReplay THEN messages
      ELSE IF replaceAt # 0 /\ replaceAt < insertAt
      THEN [filtered EXCEPT ![replaceAt].content = OrderedReplayContent(record.blocks, targets, @)]
      ELSE InsertAt(filtered, insertAt, Message("assistant", replayed))

WithoutThinking(messages) ==
  [i \in DOMAIN messages |->
     [messages[i] EXCEPT !.content = SelectSeq(@, LAMBDA b : b.type # "thinking")]]
-----------------------------------------------------------------------------
(* The store *)

\* replayContentSize, with the same weight for every block: the blocks are counted,
\* of one response and of all the records of some keys.
BlockSize == 4
ReplayContentSize(blocks) == BlockSize * Len(blocks)
StoredBlocks(records, keys) == UNION {{k} \X DOMAIN records[k].blocks : k \in keys}
TotalSize(records, keys) == BlockSize * Cardinality(StoredBlocks(records, keys))

Without(records, keys) == [k \in DOMAIN records \ keys |-> records[k]]

\* deleteLocked
DeleteLocked(keys) ==
  /\ replays' = Without(replays, keys)
  /\ bytes' = bytes - TotalSize(replays, keys \intersect DOMAIN replays)

Newer(records, k) == {j \in DOMAIN records : records[j].stamp >= records[k].stamp}

(* evictLocked: the oldest go until both limits hold, with some room below the
   one that was passed. *)
Evicted(records, total) ==
  LET count == Cardinality(DOMAIN records)
      batch == Min({128, Max({1, MaxEntries \div 8})})
      entryTarget == IF count > MaxEntries THEN MaxEntries - batch ELSE MaxEntries
      byteTarget == IF total > MaxBytes THEN MaxBytes - MaxBytes \div 16 ELSE MaxBytes
      Fits(kept) == /\ Cardinality(kept) <= entryTarget
                    /\ total - TotalSize(records, DOMAIN records \ kept) <= byteTarget
      fitting == {kept \in {Newer(records, k) : k \in DOMAIN records} : Fits(kept)}
  IN  IF count <= MaxEntries /\ total <= MaxBytes THEN {} ELSE DOMAIN records \ UNION fitting

Remember(key, blocks) ==
  LET others == Without(replays, {key})
      stored == [k \in DOMAIN others \union {key} |->
                   IF k = key THEN [blocks |-> blocks, stamp |-> remembered + 1, expired |-> FALSE]
                   ELSE others[k]]
      total == TotalSize(stored, {key}) + bytes - TotalSize(replays, {key} \intersect DOMAIN replays)
      evicted == Evicted(stored, total)
  IN  /\ remembered < MaxAnswers
      /\ remembered' = remembered + 1
      /\ IF Calls(blocks) = {} \/ ReplayContentSize(blocks) > MaxBytes
         THEN DeleteLocked({key})
         ELSE /\ replays' = Without(stored, evicted)
              /\ bytes' = total - TotalSize(stored, evicted)

RememberOther(key) ==
  /\ \E blocks \in BlockPlans(0) : Calls(blocks) # {} /\ Remember(key, blocks)
  /\ UNCHANGED <<answers, message>>

Valid == {k \in DOMAIN replays : ~replays[k].expired}

\* The time to live of the oldest record ends.
Lapse(key) ==
  /\ key \in Valid /\ \A k \in Valid : replays[key].stamp <= replays[k].stamp
  /\ replays' = [replays EXCEPT ![key].expired = TRUE]
  /\ UNCHANGED <<bytes, answers, remembered, message>>

SweepReplays ==
  /\ Valid # DOMAIN replays
  /\ DeleteLocked(DOMAIN replays \ Valid)
  /\ UNCHANGED <<answers, remembered, message>>
-----------------------------------------------------------------------------
(* A request *)

\* get, under the read lock: an expired record is looked at once more.
Get(r, conversation, asked, left) ==
  LET found == IF MainKey \in DOMAIN replays THEN replays[MainKey]
               ELSE NoRecord
      sent == Apply(asked, found)
  IN  message' = [message EXCEPT ![r] =
        [pc |-> IF found.expired THEN "expired" ELSE "sent",
         conversation |-> conversation, left |-> left, asked |-> asked,
         record |-> IF found.expired THEN <<>> ELSE found.blocks,
         sent |-> IF found.expired THEN asked ELSE sent, thoughtless |-> FALSE]]

\* A new conversation, or one that goes on, of which the client leaves out some
\* kinds of blocks, of the last answer or of all; bound: one such request at once.
AskClaude(r) ==
  /\ message[r].pc = "none" /\ remembered < MaxAnswers
  /\ \E past \in {<<>>} \union ToSet(answers), kinds \in {{}} \union Omissions, last \in BOOLEAN :
       LET conversation == Append(past, Reply(past))
           Left(i, b) == b.type \in kinds /\ (last => i = Len(past))
       IN  /\ past = <<>> => kinds = {}
           /\ kinds = {} => ~last
           /\ kinds # {} => \A q \in ClaudeRequests : message[q].pc = "none"
           /\ Get(r, conversation, LeavingOut(conversation, Left), [kinds |-> kinds, last |-> last])
  /\ UNCHANGED <<replays, bytes, answers, remembered>>

\* A variant with a plausible bug, used only to show what a property catches.
DropExpiredUncheckedBug(r) ==
  /\ message[r].pc = "expired"
  /\ message' = [message EXCEPT ![r].pc = "sent"]
  /\ DeleteLocked({MainKey})
  /\ UNCHANGED <<answers, remembered>>

\* get, under the write lock: it is deleted only if it still is expired.
DropExpired(r) ==
  /\ message[r].pc = "expired"
  /\ message' = [message EXCEPT ![r].pc = "sent"]
  /\ DeleteLocked({MainKey} \ Valid)
  /\ UNCHANGED <<answers, remembered>>

\* The upstream rejects the signature of a thought: none is sent, or kept.
RejectThinking(r) ==
  LET sanitized == WithoutThinking(message[r].sent)
  IN  /\ message[r].pc = "sent" /\ sanitized # message[r].sent
      /\ message' = [message EXCEPT ![r].sent = sanitized, ![r].thoughtless = TRUE]
      /\ DeleteLocked({MainKey})
      /\ UNCHANGED <<answers, remembered>>

AnswerFails(r) ==
  /\ message[r].pc = "sent"
  /\ message' = [message EXCEPT ![r] = IdleMessage]
  /\ UNCHANGED <<replays, bytes, answers, remembered>>

Answer(r) ==
  /\ message[r].pc = "sent"
  /\ \E blocks \in BlockPlans(Len(answers) + 1) :
       /\ Remember(MainKey, blocks)
       /\ answers' = Append(answers, Append(message[r].conversation, Message("assistant", blocks)))
  /\ message' = [message EXCEPT ![r] = IdleMessage]
-----------------------------------------------------------------------------
ReplayInit ==
  /\ replays = <<>>
  /\ bytes = 0
  /\ answers = <<>>
  /\ remembered = 0
  /\ message = [r \in ClaudeRequests |-> IdleMessage]

ReplayNext ==
  \/ SweepReplays
  \/ \E key \in OtherKeys : RememberOther(key)
  \/ \E key \in OtherKeys \union {MainKey} : Lapse(key)
  \/ \E r \in ClaudeRequests :
       AskClaude(r) \/ DropExpired(r) \/ RejectThinking(r) \/ AnswerFails(r) \/ Answer(r)

ReplaySpec == ReplayInit /\ [][ReplayNext]_replayVars
-----------------------------------------------------------------------------
(* Properties *)

\* The conversation with all but the texts of the answer whose blocks these are.
Restored(req) ==
  LET calls == Calls(req.record)
      Left(i, b) ==
        /\ b.type \in req.left.kinds
        /\ req.left.last => i = Len(req.conversation) - 1
        /\ calls \intersect ToSet(req.conversation[i].content) # {} => b.type = "text"
  IN  LeavingOut(req.conversation, Left)

\* The client leaves out all of that answer, but not an earlier one with the same
\* text, which is then taken for it.
Echoed(req) ==
  /\ \A b \in ToSet(req.record) \intersect ToSet(Blocks(req.asked)) : b.type = "text"
  /\ req.left.last /\ "text" \in req.left.kinds
  /\ \E i \in 1..Len(req.conversation) - 2 :
       /\ req.conversation[i].role = "assistant"
       /\ \E b \in ToSet(req.conversation[i].content) : b.type = "text" /\ b \in ToSet(req.record)

(* Whatever kinds of blocks a client leaves out, a request that answers the calls
   of the remembered response is sent with that response as it was: its thoughts
   and calls once each, in their order, in one message right before the results,
   and everything else of the request as the client sent it.  Any other request
   is sent as it came; without its thoughts, if a signature was rejected.
   Excepted are answers that are taken for an earlier one. *)
ReplayRestores ==
  \A r \in ClaudeRequests : message[r].pc = "sent" =>
    LET req == message[r]
        expected == IF TargetCalls(req.asked, req.record) = {} THEN req.asked ELSE Restored(req)
    IN  \/ req.sent = IF req.thoughtless THEN WithoutThinking(expected) ELSE expected
        \/ Echoed(req)

\* With the new record a limit was passed, and neither with this one and all the
\* newer ones would there be the room that an eviction makes.
MustGo(key) ==
  LET left == DOMAIN replays'
      all == [k \in DOMAIN replays \union left |-> IF k \in left THEN replays'[k] ELSE replays[k]]
      newer == {k \in DOMAIN all : all[k].stamp >= all[key].stamp}
  IN  /\ \A k \in left : all[k].stamp > all[key].stamp
      /\ \/ /\ Cardinality(DOMAIN all) > MaxEntries
            /\ Cardinality(newer) > MaxEntries - Max({1, MaxEntries \div 8})
         \/ /\ TotalSize(all, DOMAIN all) > MaxBytes
            /\ TotalSize(all, newer) > MaxBytes - MaxBytes \div 16

\* The key gets an answer that is larger than the whole store may be.
Outgrown(key) == \E blocks \in BlockPlans(0) :
  ReplayContentSize(blocks) > MaxBytes /\ Remember(key, blocks)

(* A record that has not expired stays until its key gets another answer or a
   rejected signature, or until it is the oldest one and the limits are passed:
   a look at an expired record never takes away the one that has replaced it,
   and what is counted as stored is what is stored. *)
ReplayKept ==
  [][\A key \in Valid : key \notin DOMAIN replays' =>
       \/ key = MainKey /\ \E r \in ClaudeRequests : message[r].pc = "sent" /\ message'[r] # message[r]
       \/ key \in OtherKeys /\ Outgrown(key)
       \/ MustGo(key)]_replayVars
=============================================================================
