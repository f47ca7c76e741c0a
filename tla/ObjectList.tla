----------------------------- MODULE ObjectList -----------------------------
(***************************************************************************)
(* The doubly-linked list under every list of the allocator                *)
(* (src/Allocator/ObjectList.hpp): two pointers in each node, the first    *)
(* and the last node, and a count.  A node keeps its pointers when it      *)
(* leaves the list, and brings them back when it is added again; which of  *)
(* them are written depends on the operation.                              *)
(*                                                                         *)
(* In the 64-bit build a large group keeps its type and the number of its  *)
(* subgroup in the three highest bits of the pointer to the next node;     *)
(* here every word of that kind has a pointer and such data, and nodes     *)
(* other than large groups have no use for the data.                       *)
(*                                                                         *)
(* The methods check nothing: the callers add nodes that are in no list    *)
(* and remove nodes that are in this one.                                  *)
(***************************************************************************)
EXTENDS Naturals, Sequences, FiniteSets

CONSTANTS
  Node,      \* The nodes.
  NoNode,    \* A null pointer.
  NodeData   \* The values of the type and the subgroup together.

ASSUME NodeAssumption == IsFiniteSet(Node)
ASSUME NoNodeAssumption == NoNode \notin Node
ASSUME NodeDataAssumption == 0 \in NodeData

VARIABLES
  first_, last_, count_,   \* The members of the list.
  Next_, Previous,         \* The pointers in each node.
  call                     \* The last operation on the list, with the node it
                           \* was given or returned: for NodeList only.

listVars == <<first_, last_, count_, Next_, Previous, call>>

Pointer == Node \cup {NoNode}

Word(data, pointer) == [Data |-> data, Pointer |-> pointer]

ListTypeOK ==
  /\ first_ \in Pointer
  /\ last_ \in Pointer
  /\ count_ \in 0 .. Cardinality(Node)
  /\ Next_ \in [Node -> [Data : NodeData, Pointer : Pointer]]
  /\ Previous \in [Node -> Pointer]
  /\ call \in {"none", "AddFirst", "AddLast", "AddAfter", "Remove",
               "RemoveFirst", "RemoveLast"} \X Pointer

(* The nodes lie in memory that is fresh from the system.                  *)
ListInit ==
  /\ first_ = NoNode
  /\ last_ = NoNode
  /\ count_ = 0
  /\ Next_ = [n \in Node |-> Word(0, NoNode)]
  /\ Previous = [n \in Node |-> NoNode]
  /\ call = <<"none", NoNode>>

-----------------------------------------------------------------------------
(* The policies: the pointers without the data, and set beside it.         *)

GetNext(node) == Next_[node].Pointer

GetPrevious(node) == Previous[node]

(* Bug: the whole word is written.                                         *)
LinkedPlain(word, pointer) == Word(0, pointer)

Linked(word, pointer) == Word(word.Data, pointer)

SetPrevious(node, value) ==
  IF node = NoNode THEN Previous ELSE [Previous EXCEPT ![node] = value]

SetNext(node, value) ==
  IF node = NoNode THEN Next_ ELSE [Next_ EXCEPT ![node] = Linked(@, value)]

(* SetType, ResetType and SetSubgroup.                                     *)
SetData(node, data) ==
  /\ Next_' = [Next_ EXCEPT ![node] = Word(data, @.Pointer)]
  /\ UNCHANGED <<first_, last_, count_, Previous, call>>

-----------------------------------------------------------------------------
(* The list read forwards and backwards, at most `count_' nodes of it.     *)

(* The i-th node from `from' along the pointers `link'.                    *)
Walk(from, link(_)) ==
  LET node[i \in 1 .. count_] ==
        IF i = 1 THEN from
        ELSE IF node[i - 1] = NoNode THEN NoNode ELSE link(node[i - 1])
  IN  node

list == Walk(first_, GetNext)
backwards == Walk(last_, GetPrevious)

Listed == Node \cap {list[i] : i \in 1 .. count_}

-----------------------------------------------------------------------------
(* The operations.                                                         *)

AddFirst(node) ==
  /\ Next_' = SetNext(node, first_)
  /\ Previous' = [SetPrevious(first_, node) EXCEPT ![node] = NoNode]
  /\ first_' = node
  /\ last_' = IF first_ = NoNode THEN node ELSE last_
  /\ count_' = count_ + 1
  /\ call' = <<"AddFirst", node>>

AddLast(node) ==
  /\ Next_' = [SetNext(last_, node) EXCEPT ![node] = Linked(@, NoNode)]
  /\ Previous' = SetPrevious(node, last_)
  /\ first_' = IF first_ = NoNode THEN node ELSE first_
  /\ last_' = node
  /\ count_' = count_ + 1
  /\ call' = <<"AddLast", node>>

(* Bug: the node is added before the other one.                            *)
AddAfterBefore(firstNode, node) ==
  /\ Next_' = [SetNext(GetPrevious(firstNode), node) EXCEPT ![node] = Linked(@, firstNode)]
  /\ Previous' = [Previous EXCEPT ![firstNode] = node, ![node] = GetPrevious(firstNode)]
  /\ first_' = IF GetPrevious(firstNode) = NoNode THEN node ELSE first_
  /\ count_' = count_ + 1
  /\ UNCHANGED last_
  /\ call' = <<"AddAfter", node>>

AddAfter(firstNode, node) ==
  /\ Next_' = [SetNext(firstNode, node) EXCEPT ![node] = Linked(@, GetNext(firstNode))]
  /\ Previous' = [SetPrevious(GetNext(firstNode), node) EXCEPT ![node] = firstNode]
  /\ last_' = IF GetNext(firstNode) = NoNode THEN node ELSE last_
  /\ count_' = count_ + 1
  /\ UNCHANGED first_
  /\ call' = <<"AddAfter", node>>

(* RemoveFirst and RemoveLast, where there is a node.                      *)
RemoveFirst ==
  /\ count_ > 0
  /\ first_' = GetNext(first_)
  /\ last_' = IF first_' = NoNode THEN NoNode ELSE last_
  /\ Previous' = SetPrevious(first_', NoNode)
  /\ count_' = count_ - 1
  /\ UNCHANGED Next_
  /\ call' = <<"RemoveFirst", first_>>

RemoveLast ==
  /\ count_ > 0
  /\ IF first_ = last_
     THEN first_' = NoNode /\ last_' = NoNode /\ UNCHANGED Next_
     ELSE /\ last_' = GetPrevious(last_)
          /\ Next_' = SetNext(last_', NoNode)
          /\ UNCHANGED first_
  /\ count_' = count_ - 1
  /\ UNCHANGED Previous
  /\ call' = <<"RemoveLast", last_>>

Remove(node) ==
  /\ first_' = IF GetPrevious(node) = NoNode THEN GetNext(node) ELSE first_
  /\ last_' = IF GetNext(node) = NoNode THEN GetPrevious(node) ELSE last_
  /\ Next_' = SetNext(GetPrevious(node), GetNext(node))
  /\ Previous' = SetPrevious(GetNext(node), GetPrevious(node))
  /\ count_' = count_ - 1
  /\ call' = <<"Remove", node>>

-----------------------------------------------------------------------------
(* Any use of a list that keeps to its rules.                              *)
ListNext ==
  \/ \E node \in Node \ Listed :
       \/ AddFirst(node)
       \/ AddLast(node)
       \/ \E firstNode \in Listed : AddAfter(firstNode, node)
  \/ \E node \in Listed : Remove(node)
  \/ RemoveFirst
  \/ RemoveLast
  \/ \E node \in Node, data \in NodeData : SetData(node, data)

-----------------------------------------------------------------------------
(* Properties.                                                             *)

(***************************************************************************)
(* Both directions, both ends and the count agree: from either end the     *)
(* same nodes are met, none twice, and then a null pointer.                *)
(***************************************************************************)
LinksAgree ==
  /\ \A i \in 1 .. count_ :
       /\ list[i] \in Node
       /\ backwards[i] = list[count_ + 1 - i]
       /\ \A j \in 1 .. count_ : list[i] = list[j] => i = j
  /\ IF count_ = 0
     THEN first_ = NoNode /\ last_ = NoNode
     ELSE /\ GetNext(last_) = NoNode
          /\ GetPrevious(first_) = NoNode

(***************************************************************************)
(* The type and the subgroup of a group, by which Deallocate finds it, are *)
(* what they were set to, whatever becomes of the group in the lists: a    *)
(* step that changes the list changes the data of no node.                 *)
(***************************************************************************)
DataKept ==
  [][list' # list => \A node \in Node : Next_'[node].Data = Next_[node].Data]_listVars
=============================================================================
