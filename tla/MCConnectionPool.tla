-------------------------- MODULE MCConnectionPool --------------------------
(* ConnectionPool for TLC: keys and clients are interchangeable. *)
EXTENDS ConnectionPool, TLC

Symmetry == Permutations(Keys) \cup Permutations(Clients)
=============================================================================
