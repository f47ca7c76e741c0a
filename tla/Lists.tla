-------------------------------- MODULE Lists --------------------------------
(***************************************************************************)
(* The object lists (src/Allocator/ObjectList.hpp) as the other modules    *)
(* use them: sequences without repetition.  Module Structures shows that   *)
(* the pointers of a list stand for such a sequence, as long as a node is  *)
(* added to a list that it is not in.                                      *)
(***************************************************************************)
EXTENDS Integers, Sequences

InList(list) == {list[i] : i \in DOMAIN list}

Place(list, node) == CHOOSE i \in DOMAIN list : list[i] = node

(* Remove joins the neighbours of the node; a list without it stays.       *)
Without(list, node) ==
  IF node \in InList(list)
  THEN SubSeq(list, 1, Place(list, node) - 1) \o SubSeq(list, Place(list, node) + 1, Len(list))
  ELSE list
=============================================================================
