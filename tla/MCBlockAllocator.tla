-------------------------- MODULE MCBlockAllocator --------------------------
(* BlockAllocator for TLC: threads and blocks are interchangeable.         *)
EXTENDS BlockAllocator, TLC

Symmetry == Permutations(Thread) \cup Permutations(Block)
=============================================================================
