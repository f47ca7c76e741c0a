------------------------------ MODULE NodeList ------------------------------
(***************************************************************************)
(* What a list of nodes promises to its clients (the bins, the block       *)
(* allocators and the object pools): a sequence without repetition, whose  *)
(* operations add a node that is not in it, or remove one that is.  Each   *)
(* stands for one call of the method of src/Allocator/ObjectList.hpp with  *)
(* its name.                                                               *)
(***************************************************************************)
EXTENDS Naturals, Sequences

Seqs == INSTANCE SequencesExt

CONSTANTS Node, NoNode

VARIABLES
  list,   \* The nodes, in order.
  call    \* The last operation, with the node it was given or returned.

Outside == Node \ Seqs!ToSet(list)

AddFirst(node) ==
  /\ list' = Seqs!Cons(node, list)
  /\ call' = <<"AddFirst", node>>

AddLast(node) ==
  /\ list' = Append(list, node)
  /\ call' = <<"AddLast", node>>

AddAfter(i, node) ==
  /\ list' = Seqs!InsertAt(list, i + 1, node)
  /\ call' = <<"AddAfter", node>>

Remove(i) ==
  /\ list' = Seqs!RemoveAt(list, i)
  /\ call' = <<"Remove", list[i]>>

RemoveFirst ==
  /\ list # <<>>
  /\ list' = Tail(list)
  /\ call' = <<"RemoveFirst", Head(list)>>

RemoveLast ==
  /\ list # <<>>
  /\ list' = Seqs!Front(list)
  /\ call' = <<"RemoveLast", Seqs!Last(list)>>

Init == list = <<>> /\ call = <<"none", NoNode>>

Next ==
  \/ \E node \in Outside :
       \/ AddFirst(node)
       \/ AddLast(node)
       \/ \E i \in DOMAIN list : AddAfter(i, node)
  \/ \E i \in DOMAIN list : Remove(i)
  \/ RemoveFirst
  \/ RemoveLast

Spec == Init /\ [][Next]_<<list, call>>
=============================================================================
