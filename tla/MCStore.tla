------------------------------ MODULE MCStore ------------------------------
(* Store instantiated for TLC: two client threads, one maintenance thread, *)
(* 2-bit keys sliced one bit per level (a two-level trie).                 *)
EXTENDS Store, TLC

MCNodes == 1..3

ThreadSymmetry == Permutations(Threads)
=============================================================================
