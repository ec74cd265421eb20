----------------------------- MODULE MCPairing -----------------------------
(* Pairing for TLC: two joins of one node, with two primaries to reach.      *)
EXTENDS Pairing, TLC
Symm == Permutations(Joins) \cup Permutations(Primaries)
=============================================================================
