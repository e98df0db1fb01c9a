----------------------------- MODULE MCFailover -----------------------------
EXTENDS Failover, TLC

\* Requests are interchangeable, and so are the accounts that support the model.
Symmetry == Permutations(Requests) \union Permutations(Serving)
=============================================================================
