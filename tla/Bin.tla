--------------------------------- MODULE Bin ---------------------------------
(***************************************************************************)
(* The bins of the allocator (src/Allocator/Allocator.hpp, Allocate and    *)
(* Deallocate for locations that come from groups, the build without       *)
(* STEAL).  Every thread has one bin for each size; this is the bins of    *)
(* all threads for one size, and the groups that move between them.        *)
(*                                                                         *)
(* A bin is a list of groups only its thread touches, and a list of those  *)
(* among them in which other threads freed locations (the public list),    *)
(* guarded by PublicLock.  A group is the pool of module LocationPool      *)
(* with its locations counted: Group shows that each call amounts to one   *)
(* step of it.                                                             *)
(*                                                                         *)
(* With ReleaseTwice the thread that takes a group from its public list    *)
(* releases PublicLock where the code does so, and once more when binLock  *)
(* goes out of scope: this is the program.  Without it the second release  *)
(* is left out, which is the protocol the comments describe.               *)
(***************************************************************************)
EXTENDS Lists, FreeList, FiniteSets

CONSTANTS
  Thread,        \* The threads; each one stands for its bin as well.
  Group,         \* The groups of the block allocator.
  NoBin,         \* A null ParentBin.
  NoGroup,       \* A null group.
  Locations,     \* The number of locations of a group.
  ReleaseTwice   \* Is PublicLock released a second time by the destructor?

ASSUME LocationsAssumption == Locations \in Nat \ {0}
ASSUME NoBinAssumption == NoBin \notin Thread
ASSUME NoGroupAssumption == NoGroup \notin Group
ASSUME ReleaseTwiceAssumption == ReleaseTwice \in BOOLEAN

VARIABLES
  bin,             \* The groups of each bin, the active one first.
  ReturnAllowed,   \* How many groups a bin must have to return one.
  PublicGroup,     \* The first group of the public list of each bin.
  PublicLock,      \* The lock of that list: 0 or 1.
  ParentBin,       \* The bin that owns each group.
  NextPublic,      \* The link of each group in a public list.
  private,         \* The locations of a group its owner can hand out.
  public,          \* The locations of its public free list.
  live,            \* Its locations held by clients.
  available,       \* The groups of the block allocator no bin has.
  pc,              \* What each thread is doing.
  group,           \* The group it is working on (activeGroup or group).
  target           \* The bin a deallocation read from its group.

listVars == <<PublicGroup, PublicLock, NextPublic>>
binVars == <<bin, ReturnAllowed>>
locationVars == <<private, public, live>>
groupVars == <<ParentBin, available>>
threadVars == <<pc, group, target>>
vars == <<listVars, binVars, locationVars, groupVars, threadVars>>

(* Inside the critical section of the public list.                         *)
PopHolds == {"popRead", "popWrite", "popUnlock"}
AddHolds == {"addLink", "addWrite", "addUnlock"}
PC == {"idle", "newGroup", "returnGroup", "popLock", "collect", "scopeEnd", "push", "addLock"}
        \cup PopHolds \cup AddHolds

TypeOK ==
  /\ bin \in [Thread -> Seq(Group)]
  /\ ReturnAllowed \in [Thread -> Nat \ {0}]
  /\ PublicGroup \in [Thread -> Group \cup {NoGroup}]
  /\ PublicLock \in [Thread -> {0, 1}]
  /\ ParentBin \in [Group -> Thread \cup {NoBin}]
  /\ NextPublic \in [Group -> Group \cup {NoGroup}]
  /\ private \in [Group -> 0 .. Locations]
  /\ public \in [Group -> 0 .. Locations]
  /\ live \in [Group -> 0 .. Locations]
  /\ available \subseteq Group
  /\ pc \in [Thread -> PC]
  /\ group \in [Thread -> Group \cup {NoGroup}]
  /\ target \in [Thread -> Thread \cup {NoBin}]

Init ==
  /\ bin = [t \in Thread |-> <<>>]
  /\ ReturnAllowed = [t \in Thread |-> 1]
  /\ PublicGroup = [t \in Thread |-> NoGroup]
  /\ PublicLock = [t \in Thread |-> 0]
  /\ ParentBin = [g \in Group |-> NoBin]
  /\ NextPublic = [g \in Group |-> NoGroup]
  /\ private = [g \in Group |-> 0]
  /\ public = [g \in Group |-> 0]
  /\ live = [g \in Group |-> 0]
  /\ available = Group
  /\ pc = [t \in Thread |-> "idle"]
  /\ group = [t \in Thread |-> NoGroup]
  /\ target = [t \in Thread |-> NoBin]

-----------------------------------------------------------------------------
(* Helpers.                                                                *)

Goto(t, label) == pc' = [pc EXCEPT ![t] = label]

(* The call returns and its locals with it.                                *)
Return(t) ==
  /\ Goto(t, "idle")
  /\ group' = [group EXCEPT ![t] = NoGroup]
  /\ target' = [target EXCEPT ![t] = NoBin]

(* Bug: the group is not taken out of its old place.                       *)
MakeGroupActiveKept(s, g) == <<g>> \o Append(Tail(s), Head(s))

(* The active group goes to the end of the bin, the group to its front.    *)
MakeGroupActive(s, g) ==
  LET rotated == Append(Tail(s), Head(s))
  IN  <<g>> \o Without(rotated, g)

(***************************************************************************)
(* Deallocate keeps a group with a free location right behind the active   *)
(* one, so that the second group tells about all those behind it.          *)
(***************************************************************************)
(* Bug: the group stays where it is.                                       *)
MoveToSecondOmitted(s, g) == s

MoveToSecond(s, g) ==
  IF g = s[1] \/ g = s[2] THEN s ELSE <<s[1], g>> \o Tail(Without(s, g))

(* PrivateUsed < Locations: see UsedCounted of module Group.               *)
IsEmptyEnough(g) == private[g] > 0

(* Bug: a location in the public list does not count.                      *)
IsFullPublicIgnored(g) == private[g] + public[g] = Locations

IsFull(g) == private[g] = Locations /\ public[g] = 0

(* Bug: the count of groups is off by one.                                 *)
IsGroupUnusedTooSoon(t, full) == full /\ Len(bin[t]) > ReturnAllowed[t] - 2

(* Can bin t return its group, which has all its locations free if `full'? *)
IsGroupUnused(t, full) == full /\ Len(bin[t]) > ReturnAllowed[t] - 1

-----------------------------------------------------------------------------
(* SpinLock.  Unlock is a compare-and-swap from 1 to 0 by any thread.      *)

(* Bug: the value is not looked at.                                        *)
LockUnguarded(b) == PublicLock' = [PublicLock EXCEPT ![b] = 1]

Lock(b) ==
  /\ PublicLock[b] = 0
  /\ PublicLock' = [PublicLock EXCEPT ![b] = 1]

Unlock(b) == PublicLock' = [PublicLock EXCEPT ![b] = 0]

-----------------------------------------------------------------------------
(* Allocate.                                                               *)

(* 1. The active group has a location the owner can hand out.              *)
TakeFromActive(t) ==
  /\ pc[t] = "idle"
  /\ bin[t] # <<>>
  /\ LET g == Head(bin[t])
     IN  /\ private[g] > 0
         /\ private' = [private EXCEPT ![g] = @ - 1]
         /\ live' = [live EXCEPT ![g] = @ + 1]
  /\ UNCHANGED <<listVars, binVars, public, groupVars, threadVars>>

ActiveExhausted(t) == bin[t] # <<>> => private[Head(bin[t])] = 0

(* 2. The second group has one, and becomes the active one.                *)
TakeFromSecond(t) ==
  /\ pc[t] = "idle"
  /\ ActiveExhausted(t)
  /\ Len(bin[t]) >= 2
  /\ LET g == bin[t][2]
     IN  /\ IsEmptyEnough(g)
         /\ bin' = [bin EXCEPT ![t] = MakeGroupActive(@, g)]
         /\ private' = [private EXCEPT ![g] = @ - 1]
         /\ live' = [live EXCEPT ![g] = @ + 1]
  /\ UNCHANGED <<ReturnAllowed, listVars, public, groupVars, threadVars>>

OwnGroupsExhausted(t) ==
  /\ ActiveExhausted(t)
  /\ Len(bin[t]) >= 2 => ~IsEmptyEnough(bin[t][2])

(***************************************************************************)
(* 3. The public list is read without the lock; if it is not empty its     *)
(* first group is taken, otherwise a new group is needed.                  *)
(***************************************************************************)
LookForPublic(t) ==
  /\ pc[t] = "idle"
  /\ OwnGroupsExhausted(t)
  /\ Goto(t, IF PublicGroup[t] # NoGroup THEN "popLock" ELSE "newGroup")
  /\ UNCHANGED <<listVars, binVars, locationVars, groupVars, group, target>>

PopLock(t) ==
  /\ pc[t] = "popLock"
  /\ Lock(t)
  /\ Goto(t, "popRead")
  /\ UNCHANGED <<PublicGroup, NextPublic, binVars, locationVars, groupVars, group, target>>

PopRead(t) ==
  /\ pc[t] = "popRead"
  /\ group' = [group EXCEPT ![t] = PublicGroup[t]]
  /\ Goto(t, "popWrite")
  /\ UNCHANGED <<listVars, binVars, locationVars, groupVars, target>>

(* A null first group, which PublicListSound rules out, ends the program.  *)
PopWrite(t) ==
  /\ pc[t] = "popWrite"
  /\ group[t] # NoGroup
  /\ PublicGroup' = [PublicGroup EXCEPT ![t] = NextPublic[group[t]]]
  /\ Goto(t, "popUnlock")
  /\ UNCHANGED <<PublicLock, NextPublic, binVars, locationVars, groupVars, group, target>>

PopUnlock(t) ==
  /\ pc[t] = "popUnlock"
  /\ Unlock(t)
  /\ Goto(t, "collect")
  /\ UNCHANGED <<PublicGroup, NextPublic, binVars, locationVars, groupVars, group, target>>

(***************************************************************************)
(* The group becomes the active one and hands out a location: GetLocation  *)
(* takes its whole public free list if it has no other.  Without one the   *)
(* allocation goes on with a new group.                                    *)
(***************************************************************************)
Collect(t) ==
  /\ pc[t] = "collect"
  /\ LET g == group[t]
         mine == IF private[g] > 0 THEN private[g] ELSE public[g]
     IN  /\ bin' = [bin EXCEPT ![t] = IF g # Head(@) THEN MakeGroupActive(@, g) ELSE @]
         /\ public' = IF private[g] > 0 THEN public ELSE [public EXCEPT ![g] = 0]
         /\ IF mine > 0
            THEN /\ private' = [private EXCEPT ![g] = mine - 1]
                 /\ live' = [live EXCEPT ![g] = @ + 1]
                 /\ group' = [group EXCEPT ![t] = NoGroup]
            ELSE UNCHANGED <<private, live, group>>
  /\ Goto(t, "scopeEnd")
  /\ UNCHANGED <<ReturnAllowed, listVars, groupVars, target>>

(* The destructor of binLock; no group left over means that an address is  *)
(* returned.                                                               *)
ScopeEnd(t) ==
  /\ pc[t] = "scopeEnd"
  /\ IF ReleaseTwice THEN Unlock(t) ELSE UNCHANGED PublicLock
  /\ Goto(t, IF group[t] = NoGroup THEN "idle" ELSE "newGroup")
  /\ group' = [group EXCEPT ![t] = NoGroup]
  /\ UNCHANGED <<PublicGroup, NextPublic, binVars, locationVars, groupVars, target>>

(***************************************************************************)
(* 5. A group of the block allocator, initialised as unused, becomes the   *)
(* active one; with none left the allocation returns nullptr.              *)
(***************************************************************************)
NewGroup(t) ==
  /\ pc[t] = "newGroup"
  /\ \E g \in available :
       /\ available' = available \ {g}
       /\ ParentBin' = [ParentBin EXCEPT ![g] = t]
       /\ NextPublic' = [NextPublic EXCEPT ![g] = NoGroup]
       /\ bin' = [bin EXCEPT ![t] = <<g>> \o @]
       /\ private' = [private EXCEPT ![g] = Locations - 1]
       /\ public' = [public EXCEPT ![g] = 0]
       /\ live' = [live EXCEPT ![g] = 1]
  /\ Goto(t, "idle")
  /\ UNCHANGED <<PublicGroup, PublicLock, ReturnAllowed, group, target>>

OutOfMemory(t) ==
  /\ pc[t] = "newGroup"
  /\ available = {}
  /\ Goto(t, "idle")
  /\ UNCHANGED <<listVars, binVars, locationVars, groupVars, group, target>>

-----------------------------------------------------------------------------
(* Deallocate.                                                             *)

(***************************************************************************)
(* The owner frees a location.  The group is taken out of the bin if all   *)
(* its locations are free and the bin has enough groups; otherwise it      *)
(* moves behind the active one.                                            *)
(***************************************************************************)
DeallocateOwn(t, g) ==
  /\ pc[t] = "idle"
  /\ live[g] > 0
  /\ ParentBin[g] = t
  /\ live' = [live EXCEPT ![g] = @ - 1]
  /\ private' = [private EXCEPT ![g] = @ + 1]
  /\ UNCHANGED <<public, listVars, ReturnAllowed, available, target>>
  /\ IF IsGroupUnused(t, IsFull(g)')
     THEN /\ ParentBin' = [ParentBin EXCEPT ![g] = NoBin]
          /\ bin' = [bin EXCEPT ![t] = Without(@, g)]
          /\ group' = [group EXCEPT ![t] = g]
          /\ Goto(t, "returnGroup")
     ELSE /\ bin' = [bin EXCEPT ![t] = MoveToSecond(@, g)]
          /\ UNCHANGED <<ParentBin, group, pc>>

(***************************************************************************)
(* ReturnUnusedGroup, after the group left the bin: the block allocator    *)
(* gets it, and once the bin is one group short it must have one more      *)
(* before it returns the next.                                             *)
(***************************************************************************)
ReturnUnusedGroup(t) ==
  /\ pc[t] = "returnGroup"
  /\ available' = available \cup {group[t]}
  /\ ReturnAllowed' =
       [ReturnAllowed EXCEPT ![t] = IF Len(bin[t]) = @ - 1 THEN @ + 1 ELSE @]
  /\ Return(t)
  /\ UNCHANGED <<listVars, bin, locationVars, ParentBin>>

(* A thread that does not own the group reads its bin and is about to      *)
(* push the location on the public free list.                              *)
DeallocatePublic(t, g) ==
  /\ pc[t] = "idle"
  /\ live[g] > 0
  /\ ParentBin[g] \notin {t, NoBin}
  /\ live' = [live EXCEPT ![g] = @ - 1]
  /\ group' = [group EXCEPT ![t] = g]
  /\ target' = [target EXCEPT ![t] = ParentBin[g]]
  /\ Goto(t, "push")
  /\ UNCHANGED <<listVars, binVars, private, public, groupVars>>

(* Bug: every thread that frees a location adds the group.                 *)
FirstPublicIgnored(g) == TRUE

(* The location just pushed is the only one of the public free list.       *)
FirstPublic(g) == public[g] = 0

(* The push itself; the first location makes its thread add the group.     *)
Push(t) ==
  /\ pc[t] = "push"
  /\ public' = [public EXCEPT ![group[t]] = @ + 1]
  /\ IF FirstPublic(group[t])
     THEN Goto(t, "addLock") /\ UNCHANGED <<group, target>>
     ELSE Return(t)
  /\ UNCHANGED <<listVars, binVars, private, live, groupVars>>

AddLock(t) ==
  /\ pc[t] = "addLock"
  /\ Lock(target[t])
  /\ Goto(t, "addLink")
  /\ UNCHANGED <<PublicGroup, NextPublic, binVars, locationVars, groupVars, group, target>>

(* Only a group that is still in the bin is added.                         *)
AddLink(t) ==
  /\ pc[t] = "addLink"
  /\ IF ParentBin[group[t]] = target[t]
     THEN /\ NextPublic' = [NextPublic EXCEPT ![group[t]] = PublicGroup[target[t]]]
          /\ Goto(t, "addWrite")
     ELSE Goto(t, "addUnlock") /\ UNCHANGED NextPublic
  /\ UNCHANGED <<PublicGroup, PublicLock, binVars, locationVars, groupVars, group, target>>

AddWrite(t) ==
  /\ pc[t] = "addWrite"
  /\ PublicGroup' = [PublicGroup EXCEPT ![target[t]] = group[t]]
  /\ Goto(t, "addUnlock")
  /\ UNCHANGED <<PublicLock, NextPublic, binVars, locationVars, groupVars, group, target>>

AddUnlock(t) ==
  /\ pc[t] = "addUnlock"
  /\ Unlock(target[t])
  /\ Return(t)
  /\ UNCHANGED <<PublicGroup, NextPublic, binVars, locationVars, groupVars>>

-----------------------------------------------------------------------------
(* A call of a client, and a step a thread takes inside a call.            *)
Call(t) ==
  \/ TakeFromActive(t) \/ TakeFromSecond(t) \/ LookForPublic(t)
  \/ \E g \in Group : DeallocateOwn(t, g) \/ DeallocatePublic(t, g)

Continue(t) ==
  \/ PopLock(t) \/ PopRead(t) \/ PopWrite(t) \/ PopUnlock(t)
  \/ Collect(t) \/ ScopeEnd(t)
  \/ NewGroup(t) \/ OutOfMemory(t) \/ ReturnUnusedGroup(t)
  \/ Push(t) \/ AddLock(t) \/ AddLink(t) \/ AddWrite(t) \/ AddUnlock(t)

Next == \E t \in Thread : Call(t) \/ Continue(t)

Spec == Init /\ [][Next]_vars

-----------------------------------------------------------------------------
(* Properties.                                                             *)

PublicList(t) == Reach(NextPublic, PublicGroup[t])

Holders(b) ==
  {t \in Thread : (pc[t] \in PopHolds /\ t = b) \/ (pc[t] \in AddHolds /\ target[t] = b)}

(* Adding group g: after the push that made its free list not empty.       *)
Adding(t, g) == group[t] = g /\ pc[t] \in {"addLock", "addLink", "addWrite"}

(* Taken off the public list by its owner, which has not used it yet.      *)
Taken(t, g) == group[t] = g /\ pc[t] \in {"popUnlock", "collect"}

(***************************************************************************)
(* "Synchronize access to the public list": one thread at a time is        *)
(* between the acquisition and the release of the lock of a bin.           *)
(***************************************************************************)
MutualExclusion == \A b \in Thread : Cardinality(Holders(b)) <= 1

(***************************************************************************)
(* A public list is a proper list of groups of its bin that have public    *)
(* locations: no group is linked twice, and the owner, which looks at the  *)
(* list without the lock, still finds a group in it once it has the lock,  *)
(* and a location in that group.                                           *)
(***************************************************************************)
PublicListSound ==
  \A t \in Thread :
    /\ IsProperList(NextPublic, PublicGroup[t], NoGroup)
    /\ \A g \in PublicList(t) : ParentBin[g] = t /\ public[g] > 0
    /\ pc[t] = "popRead" => PublicGroup[t] # NoGroup
    /\ pc[t] = "collect" => public[group[t]] > 0

(***************************************************************************)
(* Locations freed by other threads are never forgotten: a group that has  *)
(* some is in the public list of its bin, or exactly one thread is about   *)
(* to put it there, or its owner has just taken it to use them.            *)
(***************************************************************************)
PublicGroupKnown ==
  \A g \in Group :
    /\ public[g] > 0 =>
         \/ g \in PublicList(ParentBin[g])
         \/ \E t \in Thread : Adding(t, g) \/ Taken(t, g)
    /\ \A t, u \in Thread : Adding(t, g) /\ Adding(u, g) => t = u

(***************************************************************************)
(* While a location of a group is held by a client, or on its way to the   *)
(* public free list, or its group on its way to the public list, the group *)
(* stays with the bin the freeing thread has read.  Deallocate never meets *)
(* a group without an owner, and nobody touches a bin that lost its group. *)
(***************************************************************************)
LiveGroupOwned ==
  /\ TypeOK
  /\ \A g \in Group : live[g] + public[g] > 0 => ParentBin[g] # NoBin
  /\ \A t \in Thread : target[t] # NoBin /\ pc[t] # "addUnlock" => ParentBin[group[t]] = target[t]

(***************************************************************************)
(* A bin holds each of its groups once, and only those that name it as     *)
(* their parent; no other bin and no free group of the block allocator is  *)
(* among them.                                                             *)
(***************************************************************************)
GroupsExclusive ==
  /\ \A t \in Thread : \A i, j \in DOMAIN bin[t] : bin[t][i] = bin[t][j] => i = j
  /\ \A g \in Group :
       /\ \A t \in Thread : ParentBin[g] = t <=> \E i \in DOMAIN bin[t] : bin[t][i] = g
       /\ g \in available => ParentBin[g] = NoBin

(***************************************************************************)
(* "If the second group has no free locations, all the others don't have   *)
(* too": behind the active group, those the owner can allocate from come   *)
(* first.  Allocate relies on it when it looks no further than the second. *)
(***************************************************************************)
FreeGroupsFirst ==
  \A t \in Thread : \A i, j \in DOMAIN bin[t] :
    1 < i /\ i < j /\ private[bin[t][j]] > 0 => private[bin[t][i]] > 0

(***************************************************************************)
(* "The last group can be removed only once": a bin that has returned one  *)
(* at the limit never becomes empty again.                                 *)
(***************************************************************************)
LastGroupRemovedOnce ==
  [][\A t \in Thread : ReturnAllowed[t] > 1 /\ bin[t] # <<>> => bin'[t] # <<>>]_vars
=============================================================================
