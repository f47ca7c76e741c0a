-------------------------------- MODULE Group --------------------------------
(***************************************************************************)
(* A group of small locations (src/Allocator/Group.hpp, the build without  *)
(* SORT and without STEAL).                                                *)
(*                                                                         *)
(* The thread that owns the group allocates from the locations at the end  *)
(* of the group and from the private list, and frees to the private list,  *)
(* without synchronisation.  Every other thread that frees a location      *)
(* pushes it on the public list with a compare-and-swap of the pair        *)
(* (number of locations, first location); the owner takes that whole list  *)
(* with another one.  A group whose locations are all free can be given    *)
(* back, and is initialised again by its next owner.                       *)
(*                                                                         *)
(* One action per step that other threads can see.  In the 32-bit build    *)
(* the 64-bit PublicStart is copied by two 32-bit reads, so a copy is two  *)
(* actions, and the copied pair may be one the list never had; the 64-bit  *)
(* build is the case where they are adjacent.                              *)
(*                                                                         *)
(* PrivateEnd is left out: only MergeFreeLists reads it, which this build  *)
(* never calls.  The locals of a call are reset when it returns.           *)
(***************************************************************************)
EXTENDS FreeList

CONSTANTS
  Thread,      \* The threads of the program.
  NoThread,    \* The owner of a group that was given back.
  LIST_END,    \* The end-of-list marker (Constants::LIST_END, a null pointer).
  Data,        \* What a client wrote in a location, or garbage: not a link.
  Locations    \* The number of locations of the group.

ASSUME LocationsAssumption == Locations \in Nat \ {0}
ASSUME NoThreadAssumption == NoThread \notin Thread
ASSUME MarkerAssumption ==
  LIST_END \notin 0 .. Locations - 1 /\ Data \notin 0 .. Locations - 1 /\ Data # LIST_END

VARIABLES
  ThreadId,          \* The thread that owns the group.
  CurrentLocation,   \* The first location never allocated since initialisation.
  PrivateStart,      \* The first location of the private list.
  PrivateUsed,       \* The locations in use or in the public list.
  PublicStart,       \* The public list: its length and its first location.
  next,              \* The first word of each location.
  live,              \* The locations held by clients.
  pc,                \* What each thread is doing in the group.
  test,              \* The copy of PublicStart a thread compares with.
  address            \* The location a thread is freeing.

ownerVars == <<ThreadId, CurrentLocation, PrivateStart, PrivateUsed>>
threadVars == <<pc, test, address>>
vars == <<ownerVars, PublicStart, next, live, threadVars>>

Location == 0 .. Locations - 1
Link == Location \cup {LIST_END}
ListHead == [Count : 0 .. Locations, First : Link]
ListEnd == [Count |-> 0, First |-> LIST_END]

Pushing == {"pushCount", "pushFirst", "pushCAS"}
Copying == {"copyCount", "copyFirst", "copyCAS"}

TypeOK ==
  /\ ThreadId \in Thread \cup {NoThread}
  /\ CurrentLocation \in 0 .. Locations
  /\ PrivateStart \in Link
  /\ PrivateUsed \in 0 .. Locations
  /\ PublicStart \in ListHead
  /\ next \in [Location -> Link \cup {Data}]
  /\ live \subseteq Location
  /\ pc \in [Thread -> {"idle"} \cup Pushing \cup Copying]
  /\ test \in [Thread -> ListHead]
  /\ address \in [Thread -> Link]

(* Memory fresh from the block allocator: no owner, no live location.      *)
Init ==
  /\ ThreadId = NoThread
  /\ CurrentLocation = 0
  /\ PrivateStart = LIST_END
  /\ PrivateUsed = 0
  /\ PublicStart = ListEnd
  /\ next = [l \in Location |-> Data]
  /\ live = {}
  /\ pc = [t \in Thread |-> "idle"]
  /\ test = [t \in Thread |-> ListEnd]
  /\ address = [t \in Thread |-> LIST_END]

-----------------------------------------------------------------------------
(* Predicates of the code.                                                 *)

(* Bug: the locations in use are not looked at.                            *)
IsFullUsedIgnored == PublicStart = ListEnd

IsFull == PrivateUsed = 0 /\ PublicStart = ListEnd

HasPublic == PublicStart # ListEnd

(* Bug: the private list is not looked at.                                 *)
HasPrivateListIgnored == CurrentLocation < Locations

HasPrivate == CurrentLocation < Locations \/ PrivateStart # LIST_END

(* The locations being pushed on the public list.                          *)
Freeing == {address[t] : t \in {u \in Thread : pc[u] \in Pushing}}

(***************************************************************************)
(* Atomic::CompareExchange64 compares the number of locations and the      *)
(* first one together; a thread that loses goes on with what it saw.       *)
(***************************************************************************)
(* Bug: only the first locations are compared.                             *)
SwapSucceedsFirstOnly(t) == test[t].First = PublicStart.First

SwapSucceeds(t) == test[t] = PublicStart

(* Bug: the loop goes on with the value it had.                            *)
TryAgainUnchanged(t) == test' = test

TryAgain(t) == test' = [test EXCEPT ![t] = PublicStart]

(* The call returns and its locals with it.                                *)
Return(t) ==
  /\ pc' = [pc EXCEPT ![t] = "idle"]
  /\ test' = [test EXCEPT ![t] = ListEnd]
  /\ address' = [address EXCEPT ![t] = LIST_END]

-----------------------------------------------------------------------------
(* The owner.                                                              *)

(***************************************************************************)
(* A thread gets a group nobody owns: its header is reset, and the first   *)
(* words of its locations still hold what the previous owner left there.   *)
(***************************************************************************)
InitializeUnused(t) ==
  /\ pc[t] = "idle"
  /\ ThreadId = NoThread
  /\ ThreadId' = t
  /\ CurrentLocation' = 0
  /\ PrivateStart' = LIST_END
  /\ PrivateUsed' = 0
  /\ PublicStart' = ListEnd
  /\ UNCHANGED <<next, live, threadVars>>

(* The next location at the end of the group goes to a client.             *)
GetNewLocation(t) ==
  /\ pc[t] = "idle"
  /\ ThreadId = t
  /\ CurrentLocation < Locations
  /\ CurrentLocation' = CurrentLocation + 1
  /\ PrivateUsed' = PrivateUsed + 1
  /\ live' = live \cup {CurrentLocation}
  /\ next' = [next EXCEPT ![CurrentLocation] = Data]
  /\ UNCHANGED <<ThreadId, PrivateStart, PublicStart, threadVars>>

(* Bug: the location is not counted.                                       *)
GetListLocationUncounted(first, used) ==
  /\ PrivateStart' = next[first]
  /\ PrivateUsed' = used
  /\ live' = live \cup {first}
  /\ next' = [next EXCEPT ![first] = Data]

(***************************************************************************)
(* The head of the list that starts at `first' goes to a client; `used' is *)
(* the number of used locations before.                                    *)
(***************************************************************************)
GetListLocation(first, used) ==
  /\ PrivateStart' = next[first]
  /\ PrivateUsed' = used + 1
  /\ live' = live \cup {first}
  /\ next' = [next EXCEPT ![first] = Data]

GetPrivateLocation(t) ==
  \/ GetNewLocation(t)
  \/ /\ pc[t] = "idle"
     /\ ThreadId = t
     /\ CurrentLocation = Locations
     /\ PrivateStart # LIST_END
     /\ GetListLocation(PrivateStart, PrivateUsed)
     /\ UNCHANGED <<ThreadId, CurrentLocation, PublicStart, threadVars>>

(* No private location is left and the public list is not empty: take it.  *)
GetPublicLocation(t) ==
  /\ pc[t] = "idle"
  /\ ThreadId = t
  /\ ~HasPrivate
  /\ HasPublic
  /\ pc' = [pc EXCEPT ![t] = "copyCount"]
  /\ UNCHANGED <<ownerVars, PublicStart, next, live, test, address>>

(***************************************************************************)
(* The compare-and-swap of CopyFreeLists.  When it succeeds the whole      *)
(* public list becomes the private one and its first location is handed    *)
(* out; when it fails the thread tries again with the value it saw.        *)
(***************************************************************************)
CopyFreeLists(t) ==
  /\ pc[t] = "copyCAS"
  /\ IF SwapSucceeds(t)
     THEN /\ PublicStart' = ListEnd
          /\ GetListLocation(test[t].First, PrivateUsed - test[t].Count)
          /\ Return(t)
          /\ UNCHANGED <<ThreadId, CurrentLocation>>
     ELSE /\ TryAgain(t)
          /\ UNCHANGED <<ownerVars, PublicStart, next, live, pc, address>>

(***************************************************************************)
(* The owner frees location l.  If all the locations are free then, the    *)
(* allocator may give the group back (it depends on the other groups of    *)
(* the bin, which this module does not have).                              *)
(***************************************************************************)
ReturnPrivateLocation(t, l) ==
  /\ pc[t] = "idle"
  /\ ThreadId = t
  /\ l \in live
  /\ live' = live \ {l}
  /\ next' = [next EXCEPT ![l] = PrivateStart]
  /\ PrivateStart' = l
  /\ PrivateUsed' = PrivateUsed - 1
  /\ UNCHANGED <<CurrentLocation, PublicStart, threadVars>>
  /\ \/ ThreadId' = t
     \/ IsFull' /\ ThreadId' = NoThread

-----------------------------------------------------------------------------
(* The other threads.                                                      *)

(* A thread that does not own the group starts to free location l.         *)
ReturnPublicLocation(t, l) ==
  /\ pc[t] = "idle"
  /\ ThreadId # t
  /\ l \in live
  /\ live' = live \ {l}
  /\ address' = [address EXCEPT ![t] = l]
  /\ pc' = [pc EXCEPT ![t] = "pushCount"]
  /\ UNCHANGED <<ownerVars, PublicStart, next, test>>

(* The two halves of the copy of PublicStart, before either loop.          *)
ReadCount(t) ==
  /\ pc[t] \in {"pushCount", "copyCount"}
  /\ test' = [test EXCEPT ![t].Count = PublicStart.Count]
  /\ pc' = [pc EXCEPT ![t] = IF @ = "pushCount" THEN "pushFirst" ELSE "copyFirst"]
  /\ UNCHANGED <<ownerVars, PublicStart, next, live, address>>

ReadFirst(t) ==
  /\ pc[t] \in {"pushFirst", "copyFirst"}
  /\ test' = [test EXCEPT ![t].First = PublicStart.First]
  /\ pc' = [pc EXCEPT ![t] = IF @ = "pushFirst" THEN "pushCAS" ELSE "copyCAS"]
  /\ UNCHANGED <<ownerVars, PublicStart, next, live, address>>

(***************************************************************************)
(* One turn of the loop of ReturnPublicLocation: link the location to the  *)
(* first one read, then compare-and-swap.                                  *)
(***************************************************************************)
PushLocation(t) ==
  /\ pc[t] = "pushCAS"
  /\ next' = [next EXCEPT ![address[t]] = test[t].First]
  /\ IF SwapSucceeds(t)
     THEN /\ PublicStart' = [Count |-> test[t].Count + 1, First |-> address[t]]
          /\ Return(t)
     ELSE /\ TryAgain(t)
          /\ UNCHANGED <<PublicStart, pc, address>>
  /\ UNCHANGED <<ownerVars, live>>

-----------------------------------------------------------------------------
(* A step a thread takes inside a call, and a call it makes.               *)
Continue(t) == ReadCount(t) \/ ReadFirst(t) \/ PushLocation(t) \/ CopyFreeLists(t)

Call(t) ==
  \/ InitializeUnused(t)
  \/ GetPrivateLocation(t)
  \/ GetPublicLocation(t)
  \/ \E l \in Location : ReturnPrivateLocation(t, l) \/ ReturnPublicLocation(t, l)

Next == \E t \in Thread : Call(t) \/ Continue(t)

Spec == Init /\ [][Next]_vars

(***************************************************************************)
(* A thread inside a call is scheduled again and again; a client is never  *)
(* obliged to make a call.                                                 *)
(***************************************************************************)
FairSpec == Spec /\ \A t \in Thread : WF_vars(Continue(t))

-----------------------------------------------------------------------------
(* Properties.                                                             *)

Unallocated == CurrentLocation .. Locations - 1
PrivateList == Reach(next, PrivateStart)
PublicList == Reach(next, PublicStart.First)

(* The sets of sequence `parts' are disjoint and make up S.                *)
IsPartition(parts, S) ==
  /\ UNION {parts[i] : i \in DOMAIN parts} = S
  /\ \A i, j \in DOMAIN parts : i # j => parts[i] \cap parts[j] = {}

(***************************************************************************)
(* Every location of the group is in exactly one place: at the never       *)
(* allocated end, in one of the two lists, with a client, or on its way to *)
(* the public list.  A location in two places would be handed out twice    *)
(* (the overlapping locations the tester looks for); one in no place is    *)
(* lost to the program for ever.                                           *)
(***************************************************************************)
LocationsConserved ==
  /\ IsPartition(<<Unallocated, PrivateList, PublicList, live, Freeing>>, Location)
  /\ \A t, u \in Thread :
       pc[t] \in Pushing /\ pc[u] \in Pushing /\ address[t] = address[u] => t = u

(***************************************************************************)
(* Both lists end, share no location with themselves, and the number kept  *)
(* next to the first public location is the length of the list: the owner  *)
(* subtracts that number from PrivateUsed without walking the list.        *)
(***************************************************************************)
ListsProper ==
  /\ IsProperList(next, PrivateStart, LIST_END)
  /\ IsProperList(next, PublicStart.First, LIST_END)
  /\ PublicStart.Count = Cardinality(PublicList)

(***************************************************************************)
(* PrivateUsed counts what the owner cannot hand out at once, although     *)
(* other threads free locations without touching it.                       *)
(***************************************************************************)
UsedCounted == PrivateUsed = Cardinality(live \cup Freeing \cup PublicList)

(***************************************************************************)
(* A group that is given back has no location with a client, none on its   *)
(* way to the public list and none in that list: nobody writes into it     *)
(* later, whatever the next owner makes of its memory.                     *)
(***************************************************************************)
GivenBackUnreferenced == ThreadId = NoThread => live \cup Freeing \cup PublicList = {}

(***************************************************************************)
(* While the owner takes the public list, the list it overwrites is empty  *)
(* ("the private list is guaranteed to be empty") and there is something   *)
(* to take; a thread that pushes a location of its own group does not      *)
(* exist, even after the group has changed hands.                          *)
(***************************************************************************)
CallsSound ==
  \A t \in Thread :
    /\ pc[t] \in Copying =>
         ThreadId = t /\ CurrentLocation = Locations /\ PrivateStart = LIST_END /\ HasPublic
    /\ pc[t] \in Pushing => ThreadId # t /\ address[t] \in Location

(***************************************************************************)
(* A group is a pool of locations: what the owner can hand out at once is  *)
(* the end of the group and the private list, and the locations given back *)
(* are those of the public list.  In particular a client is never handed a *)
(* location that another client holds or another thread is freeing.        *)
(***************************************************************************)
Pool == INSTANCE LocationPool WITH
  owner <- ThreadId,
  free <- Unallocated \cup PrivateList,
  moving <- Freeing,
  returned <- PublicList

ImplementsPool == Pool!Spec

(***************************************************************************)
(* The loops on the public list end.  That of the owner does, because      *)
(* nothing is allocated while it runs, so only finitely many pushes can    *)
(* get in its way.  The pushes are lock-free: whichever threads are busy,  *)
(* some push begins or ends; they cannot keep one another from completing. *)
(***************************************************************************)
LoopsProgress ==
  /\ \A t \in Thread : pc[t] \in Copying ~> pc[t] = "idle"
  /\ \A B \in SUBSET Thread \ {{}} :
       LET busy == {t \in Thread : pc[t] # "idle"} IN busy = B ~> busy # B
=============================================================================
