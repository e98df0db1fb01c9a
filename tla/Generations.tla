----------------------------- MODULE Generations -----------------------------
(***************************************************************************)
(* The log of upstream attempts (generation/store.go) as the handlers      *)
(* write it (server/generation.go).  A request makes attempts one after    *)
(* the other: with other accounts, and on a Responses WebSocket for any    *)
(* number of turns.  An attempt that cannot be opened is finished at once; *)
(* all the others are finished when the request ends, with what its        *)
(* context then says.                                                      *)
(***************************************************************************)
EXTENDS Naturals, Sequences, SequencesExt

CONSTANTS Parents,       \* requests under way
          MaxAttempts    \* bound: attempts that are made

ASSUME MaxAttemptsAssumption == MaxAttempts \in Nat

VARIABLES
  attempts,    \* Store.records, in the order in which they were started
  happened,    \* what really became of each attempt
  parent       \* per request: its attempts and what its context says

generationVars == <<attempts, happened, parent>>

\* "mixed" is history.  The context of a request is mixed when it speaks of an
\* earlier turn; an attempt is mixed when it was made under such a context, or when
\* the handler went on after it although it had been opened.
NoParent == [pc |-> "idle", socket |-> FALSE, ids |-> <<>>,
             outcome |-> "succeeded", response |-> 0, mixed |-> FALSE]

Current(p) == Last(parent[p].ids)
-----------------------------------------------------------------------------

Come(p) ==
  /\ parent[p].pc = "idle"
  /\ \E socket \in BOOLEAN :
       parent' = [parent EXCEPT ![p] = [NoParent EXCEPT !.pc = "routing", !.socket = socket]]
  /\ UNCHANGED <<attempts, happened>>

\* The response of an attempt has the number of the attempt.
StartGeneration(p) ==
  /\ parent[p].pc = "routing" /\ Len(attempts) < MaxAttempts
  /\ attempts' = Append(attempts, [outcome |-> "active", response |-> 0, logged |-> FALSE])
  /\ happened' = Append(happened, [outcome |-> "active", mixed |-> parent[p].mixed])
  /\ parent' = [parent EXCEPT ![p].pc = "opening", ![p].ids = Append(@, Len(attempts) + 1)]

\* A variant with a plausible bug, used only to show what a property catches.
FinishGenerationAgainBug(n, outcome, response) ==
  \E logged \in BOOLEAN :
    attempts' = [attempts EXCEPT ![n] =
                   [outcome |-> outcome, response |-> response, logged |-> logged]]

\* Only a record that is still active; that its line cannot be appended is ignored.
FinishGeneration(n, outcome, response) ==
  \E logged \in BOOLEAN :
    attempts' = IF attempts[n].outcome # "active" THEN attempts
                ELSE [attempts EXCEPT ![n] =
                        [outcome |-> outcome, response |-> response, logged |-> logged]]

\* Another account is tried, or the request fails, or its client waits no more.
OpenFails(p) ==
  /\ parent[p].pc = "opening"
  /\ FinishGeneration(Current(p), "failed", 0)
  /\ happened' = [happened EXCEPT ![Current(p)] = [outcome |-> "failed", mixed |-> FALSE]]
  /\ \/ parent' = [parent EXCEPT ![p].pc = "routing"]
     \/ \E outcome \in {"succeeded", "failed", "cancelled", "timed_out"} :
          parent' = [parent EXCEPT ![p].pc = "ending", ![p].outcome = outcome]

Open(p) ==
  /\ parent[p].pc = "opening"
  /\ parent' = [parent EXCEPT ![p].pc = "open"]
  /\ UNCHANGED <<attempts, happened>>

\* Whatever happens to an open attempt, its record stays as it is.
Ends(p, outcome) ==
  /\ happened' = [happened EXCEPT ![Current(p)].outcome = outcome]
  /\ UNCHANGED attempts

\* As Ends, and the handler goes on to another account or another turn.
EndsAndGoesOn(p, outcome) ==
  /\ happened' = [happened EXCEPT ![Current(p)] = [outcome |-> outcome, mixed |-> TRUE]]
  /\ UNCHANGED attempts

\* prepareStreamForDelivery, or the first event of a turn of a socket: the stream
\* was opened and fails before anything is delivered.  The handler goes on to the
\* next account, to the request without its reasoning, or to the next turn, and
\* the context is not told.
FirstEventFails(p) ==
  /\ parent[p].pc = "open"
  /\ EndsAndGoesOn(p, "failed")
  /\ parent' = [parent EXCEPT ![p].pc = "routing"]

\* setGenerationSummary, which a one-shot Anthropic answer leaves out.
Complete(p) ==
  /\ parent[p].pc = "open"
  /\ \/ /\ Ends(p, "succeeded")
        /\ \E response \in {parent[p].response, Current(p)} :
             parent' = [parent EXCEPT ![p].pc = "ending", ![p].response = response]
     \/ /\ parent[p].socket /\ EndsAndGoesOn(p, "succeeded")
        /\ parent' = [parent EXCEPT ![p].pc = "routing", ![p].response = Current(p),
                                    ![p].mixed = TRUE]

\* SetRequestOutcome and SetRequestResponseID, with the id as far as it is known.
BreakOff(p) ==
  /\ parent[p].pc = "open"
  /\ \E outcome \in {"failed", "cancelled", "timed_out"}, response \in {0, Current(p)} :
       LET told == [parent[p] EXCEPT !.outcome = outcome, !.response = response]
       IN  \/ /\ Ends(p, outcome)
              /\ parent' = [parent EXCEPT ![p] = [told EXCEPT !.pc = "ending"]]
           \/ /\ parent[p].socket /\ outcome = "failed" /\ EndsAndGoesOn(p, outcome)
              /\ parent' = [parent EXCEPT ![p] = [told EXCEPT !.pc = "routing", !.mixed = TRUE]]

\* An event cannot be written to the socket: the handler returns and says nothing.
WriteFails(p) ==
  /\ parent[p].pc = "open" /\ parent[p].socket
  /\ EndsAndGoesOn(p, "cancelled")
  /\ parent' = [parent EXCEPT ![p].pc = "ending", ![p].mixed = TRUE]

\* There is no account, or the client of the socket has gone.
GiveUp(p) ==
  /\ parent[p].pc = "routing"
  /\ \E outcome \in {parent[p].outcome, "failed", "cancelled", "timed_out"} :
       parent' = [parent EXCEPT ![p].pc = "ending", ![p].outcome = outcome]
  /\ UNCHANGED <<attempts, happened>>

\* finishGenerations, one attempt after the other.
FinishGenerations(p) ==
  LET request == parent[p]
  IN  /\ request.pc = "ending"
      /\ UNCHANGED happened
      /\ \/ /\ request.ids = <<>>
            /\ parent' = [parent EXCEPT ![p] = NoParent]
            /\ UNCHANGED attempts
         \/ /\ request.ids # <<>>
            /\ FinishGeneration(Head(request.ids), request.outcome, request.response)
            /\ parent' = [parent EXCEPT ![p].ids = Tail(@)]

GenerationInit ==
  attempts = <<>> /\ happened = <<>> /\ parent = [p \in Parents |-> NoParent]

GenerationNext ==
  \E p \in Parents :
    \/ Come(p) \/ StartGeneration(p) \/ OpenFails(p) \/ Open(p)
    \/ FirstEventFails(p) \/ Complete(p) \/ BreakOff(p) \/ WriteFails(p)
    \/ GiveUp(p) \/ FinishGenerations(p)

GenerationSpec == GenerationInit /\ [][GenerationNext]_generationVars
-----------------------------------------------------------------------------

\* What the log says of attempt n is what became of it.
LogTells(log, n) ==
  /\ log[n].outcome = happened[n].outcome
  /\ log[n].response \in {0, n}

\* finishGenerationSummary: whatever else runs and however many accounts a request
\* has tried, the log says of an attempt what became of it and never names the
\* response of another one: of every attempt that could not be opened, of the
\* one that answered the request, and of the one that broke off its answer.  What
\* the handler had opened and then left behind is excepted: an account whose first
\* events failed, and a WebSocket of more than one turn.
GenerationsTold ==
  \A n \in DOMAIN attempts :
    attempts[n].outcome # "active" /\ ~happened[n].mixed => LogTells(attempts, n)
=============================================================================
