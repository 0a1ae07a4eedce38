-------------------------------- MODULE MCStack -------------------------------
(* Threads and addresses are interchangeable.                              *)
EXTENDS Stack, TLC

Symmetry == Permutations(Threads) \cup Permutations(Addresses)
===============================================================================
