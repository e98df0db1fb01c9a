--------------------------- MODULE MCConversations ---------------------------
(* What is kept of a conversation for its next request, for clients of the
   OpenAI APIs and for Claude clients.  The two stores share nothing: a behaviour
   is about one of them. *)
EXTENDS Continuations, ClaudeReplay

MCOmissions == {{"thinking"}, {"tool_use"}, {"thinking", "tool_use"},
                {"tool_use", "text"}, {"thinking", "tool_use", "text"}}

VARIABLE client

Init ==
  /\ client \in {"openai", "claude"}
  /\ ContinuationInit
  /\ ReplayInit

Next ==
  \/ client = "openai" /\ ContinuationNext /\ UNCHANGED <<client, replayVars>>
  \/ client = "claude" /\ ReplayNext /\ UNCHANGED <<client, continuationVars>>

Spec == Init /\ [][Next]_<<client, continuationVars, replayVars>>

Symmetry == Permutations(ClaudeRequests) \union Permutations(OtherKeys) \union Permutations(Models)
=============================================================================
