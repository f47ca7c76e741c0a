---------------------------- MODULE MCLargeGroup ----------------------------
(* LargeGroup for TLC: the threads are interchangeable.                    *)
EXTENDS LargeGroup, TLC

Symmetry == Permutations(Thread)
=============================================================================
