----------------------------- MODULE MCActivity -----------------------------
(* Two logs about the same requests, which share no state and are checked one
   beside the other: the activity of two request ids that may be used again
   later, with channels that two events fill and pages of one line of a file of
   up to three lines; and the upstream attempts of one request. *)
EXTENDS Activity, Generations, TLC

VARIABLE log    \* the log that this behaviour is about

\* Requests are interchangeable, and so are the subscribers.
Symmetry == Permutations(Ids) \union Permutations(Subscribers)

MCInit == Init /\ GenerationInit /\ log \in {"activity", "generations"}

MCNext ==
  \/ log = "activity" /\ Next /\ UNCHANGED <<generationVars, log>>
  \/ log = "generations" /\ GenerationNext /\ UNCHANGED <<vars, log>>

MCSpec == MCInit /\ [][MCNext]_<<vars, generationVars, log>>
=============================================================================
