--------------------------- MODULE MCCredentials ---------------------------
(* Two goroutines, one with the lock and one that has seen the same old token, a
   login, and three tokens: after the first login a refresh and another login, or
   two refreshes. *)
EXTENDS DeviceLogins, TLC

\* Goroutines and logins are interchangeable.
Symmetry == Permutations(Callers) \union Permutations(Logins)
=============================================================================
