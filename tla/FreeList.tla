------------------------------ MODULE FreeList ------------------------------
(***************************************************************************)
(* The intrusive free lists of src/Allocator: the first word of a freed    *)
(* location holds the address of the next one (FreedLocation::Next), and   *)
(* a list is known by its first location.  The two lists of a group (its   *)
(* private one and its public one) live in the same memory, so every       *)
(* operator takes the whole memory: a function nxt from locations to the   *)
(* content of their first word.                                            *)
(***************************************************************************)
EXTENDS Integers, FiniteSets

(* S contains the successor of each of its locations.                      *)
Closed(nxt, S) ==
  \A l \in S : nxt[l] \in DOMAIN nxt => nxt[l] \in S

(***************************************************************************)
(* The locations of the list that starts at `first': the least set that    *)
(* contains `first' and the successor of each of its members.  It needs    *)
(* no recursion, and is defined for a corrupted list too.                  *)
(***************************************************************************)
Reach(nxt, first) ==
  {l \in DOMAIN nxt :
     \A S \in SUBSET DOMAIN nxt :
        (Closed(nxt, S) /\ (first \in DOMAIN nxt => first \in S)) => l \in S}

(***************************************************************************)
(* The list that starts at `first' is a proper one: it ends with the       *)
(* marker `end', two locations never share a successor, and nothing leads  *)
(* back to the first location.                                             *)
(***************************************************************************)
IsProperList(nxt, first, end) ==
  /\ first \in DOMAIN nxt \cup {end}
  /\ \A l \in Reach(nxt, first) :
       /\ nxt[l] \in DOMAIN nxt \cup {end}
       /\ nxt[l] # first
       /\ \A m \in Reach(nxt, first) : nxt[l] = nxt[m] /\ nxt[l] # end => l = m
=============================================================================
