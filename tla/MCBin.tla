-------------------------------- MODULE MCBin --------------------------------
(* Bin for TLC: threads are interchangeable, and so are groups.            *)
EXTENDS Bin, TLC

Symmetry == Permutations(Thread) \cup Permutations(Group)

Active(t) == bin[t] # <<>> \/ pc[t] # "idle" \/ ReturnAllowed[t] # 1

(* A bound: three groups are in use only in one bin and with one thread    *)
(* besides its owner; two groups, in any bins and with all the threads.    *)
Small ==
  \/ Cardinality(Group \ available) <= 2
  \/ /\ Cardinality({t \in Thread : bin[t] # <<>>}) <= 1
     /\ Cardinality({t \in Thread : Active(t)}) <= 2
=============================================================================
