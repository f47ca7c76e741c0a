---------------------------- MODULE MCStructures ----------------------------
(* Structures for TLC: one node or thread is as good as another.           *)
EXTENDS Structures, TLC

Symmetry == Permutations(Node) \cup Permutations(Thread)
=============================================================================
