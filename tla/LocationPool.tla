---------------------------- MODULE LocationPool -----------------------------
(***************************************************************************)
(* What a group of locations promises, with no list, counter or pointer:   *)
(* a pool whose locations one thread at a time hands out, and which every  *)
(* thread can give back.  Group is shown to implement it, and the bins are *)
(* modelled over it.                                                       *)
(***************************************************************************)
CONSTANTS
  Location,   \* The locations of the pool.
  Thread,     \* The threads of the program.
  NoThread    \* The owner of a pool nobody uses.

VARIABLES
  owner,      \* The thread that hands out the locations.
  free,       \* The locations it can hand out.
  live,       \* The locations held by clients.
  moving,     \* The locations other threads are giving back.
  returned    \* The locations they gave back, not collected yet.

vars == <<owner, free, live, moving, returned>>

Init ==
  /\ owner = NoThread
  /\ free = Location
  /\ live = {}
  /\ moving = {}
  /\ returned = {}

(* A thread takes the whole pool.                                          *)
Acquire(t) ==
  /\ owner = NoThread
  /\ owner' = t
  /\ UNCHANGED <<free, live, moving, returned>>

(* The owner hands out a free location: a client never gets one in use.    *)
Take(l) ==
  /\ owner # NoThread
  /\ l \in free
  /\ free' = free \ {l}
  /\ live' = live \cup {l}
  /\ UNCHANGED <<owner, moving, returned>>

(* Once nothing is free the owner collects all that was given back, and    *)
(* hands out one of these locations.                                       *)
Collect(l) ==
  /\ owner # NoThread
  /\ free = {}
  /\ l \in returned
  /\ free' = returned \ {l}
  /\ returned' = {}
  /\ live' = live \cup {l}
  /\ UNCHANGED <<owner, moving>>

(* The owner frees a location; if that was the last one in use anywhere,   *)
(* the pool can be given up with it.                                       *)
Put(l) ==
  /\ owner # NoThread
  /\ l \in live
  /\ live' = live \ {l}
  /\ free' = free \cup {l}
  /\ owner' \in {owner} \cup {n \in {NoThread} : free \cup {l} = Location}
  /\ UNCHANGED <<moving, returned>>

(* Another thread frees a location: it leaves the client, then the owner   *)
(* can collect it.                                                         *)
GiveBack(l) ==
  /\ l \in live
  /\ live' = live \ {l}
  /\ moving' = moving \cup {l}
  /\ UNCHANGED <<owner, free, returned>>

Arrive(l) ==
  /\ l \in moving
  /\ moving' = moving \ {l}
  /\ returned' = returned \cup {l}
  /\ UNCHANGED <<owner, free, live>>

Next ==
  \/ \E t \in Thread : Acquire(t)
  \/ \E l \in Location : Take(l) \/ Collect(l) \/ Put(l) \/ GiveBack(l) \/ Arrive(l)

Spec == Init /\ [][Next]_vars
=============================================================================
