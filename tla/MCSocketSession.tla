-------------------------- MODULE MCSocketSession --------------------------
(* Two accounts that support the model: one failover, and one account left to
   wait for. *)
EXTENDS SocketSession
=============================================================================
