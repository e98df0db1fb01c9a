----------------------------- MODULE MCCapacity -----------------------------
(* Two accounts with two slots each, and four callers: enough for a queue of
   two behind a full account, and for one account to be busy while the other
   is idle. *)
EXTENDS Capacity
=============================================================================
