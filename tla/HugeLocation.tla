---------------------------- MODULE HugeLocation ----------------------------
(***************************************************************************)
(* A huge location (src/Allocator/Allocator.hpp, HugeLocation.hpp) and     *)
(* what becomes of the memory behind it.  Windows hands memory out in      *)
(* units of 64 KB, so AllocateHuge has some left over.  Behind a location  *)
(* of up to 32 KB it makes further huge locations of the same size, behind *)
(* a larger one small groups: a block of the block allocator with up to    *)
(* three groups, whose parent is the huge location.  The parent counts in  *)
(* References itself and the groups taken from the block, and the memory   *)
(* goes back to the system with the last of them.                          *)
(*                                                                         *)
(* One location is modelled, with its memory divided into pages of 4 KB;   *)
(* the requests that SizeClasses walks over are its sizes.                 *)
(* As in BlockAllocator, what runs under the lock of the allocator is one  *)
(* step; the bit of a returned group and the count are changed outside.    *)
(* A client that frees a huge location changes nothing: the body of        *)
(* DeallocateHuge is disabled in this version, and so is the cache.  Once  *)
(* the memory went back to the system no step is modelled: the header and  *)
(* the groups are not there any more.  Nor is one if the system refused    *)
(* it, for the process has ended.                                          *)
(***************************************************************************)
EXTENDS Dispatch, Integers, FiniteSets

CONSTANTS
  Thread,      \* The threads.
  Placements,  \* Where the groups are placed: from the start of the location
               \* on, as in the program, or behind it, in the unused space.
  MaxReferences \* A bound: no group is taken beyond this count.

ASSUME PlacementsAssumption == Placements \subseteq {"location", "unused"}
ASSUME MaxReferencesAssumption == MaxReferences \in Nat

VARIABLES
  placement,      \* Where this program places the groups; never changes.
  objSize,        \* The pages of the location; 0 before it is allocated.
  mapped,         \* Does its memory belong to the process?
  References,     \* The count in its header.
  GroupBitmap,    \* The free groups of its block.
  inList,         \* The list of the allocator its block is in.
  held,           \* The groups each thread has.
  pc              \* What a thread that returned a group has yet to do.

vars == <<size, placement, objSize, mapped, References, GroupBitmap, inList, held, pc>>

WINDOWS_GRANULARITY == 65536
HUGE_SPLIT_POSITION == 32768

InPages(bytes) == bytes \div HUGE_GRANULARITY

GROUP_PAGES == InPages(SMALL_GROUP_SIZE)
SPLIT_PAGES == InPages(HUGE_SPLIT_POSITION)

TypeOK ==
  /\ placement \in Placements
  /\ size \in Requests
  /\ objSize \in {0, HugePages(size)}
  /\ mapped \in BOOLEAN
  /\ References \in Int
  /\ GroupBitmap \subseteq 0 .. 2
  /\ inList \in {"none", "fullBlockList", "emptyBlockList"}
  /\ held \in [Thread -> SUBSET (0 .. 2)]
  /\ pc \in [Thread -> {"idle", "BLOCK_WAS_EMPTY", "Release", "BLOCK_FROM_HUGE"}]

-----------------------------------------------------------------------------
(* The division of the memory.                                             *)

RoundUp(k, unit) == ((k + unit - 1) \div unit) * unit

(* The pages obtained from the system.                                     *)
Region(n) == RoundUp(n, InPages(WINDOWS_GRANULARITY))

(* Where the memory left over starts, as seen by a group.                  *)
Unused(n) == RoundUp(n, GROUP_PAGES)

(* Bug: the locations in the memory left over start where the last ended.  *)
CachedStartsUnaligned(n) ==
  IF n > SPLIT_PAGES THEN {}
  ELSE {start \in 1 .. Region(n) - 1 : start % n = 0}

(* UnusedAsCache: the starts of the further locations.  The loop adds the  *)
(* size and rounds up, and asks only whether the start is in the region.   *)
CachedStarts(n) ==
  IF n > SPLIT_PAGES THEN {}
  ELSE {start \in 1 .. Region(n) - 1 : start % Unused(n) = 0}

(* UnusedAsGroups: the number of groups.                                   *)
nGroups(n) ==
  IF n <= SPLIT_PAGES THEN 0
  ELSE (Region(n) - Unused(n)) \div GROUP_PAGES

(* Where AddBlock is told that the groups start.                           *)
StartAddress(n) == IF placement = "location" THEN 0 ELSE Unused(n)

Pages(start, k) == start .. start + k - 1

GroupPages(n, i) ==
  Pages(StartAddress(n) + i * GROUP_PAGES, GROUP_PAGES)

-----------------------------------------------------------------------------
Init ==
  /\ FirstRequest
  /\ placement \in Placements
  /\ objSize = 0
  /\ mapped = FALSE
  /\ References = 0
  /\ GroupBitmap = {}
  /\ inList = "none"
  /\ held = [t \in Thread |-> {}]
  /\ pc = [t \in Thread |-> "idle"]

(***************************************************************************)
(* AllocateHuge, in memory fresh from the system, where the count is 0.    *)
(* UnusedAsCache counts the location and each further one; UnusedAsGroups  *)
(* counts the location and adds the block.  Nothing is counted if nothing  *)
(* was left over.                                                          *)
(***************************************************************************)
AllocateHuge ==
  /\ objSize = 0
  /\ Kind(size) = "huge"
  /\ objSize' = HugePages(size)
  /\ mapped' = TRUE
  /\ LET cached == CachedStarts(objSize')
         groups == 0 .. nGroups(objSize') - 1
     IN  /\ References' = IF cached = {} /\ groups = {} THEN 0 ELSE 1 + Cardinality(cached)
         /\ GroupBitmap' = groups
         /\ inList' = IF groups = {} THEN "none" ELSE "fullBlockList"
  /\ UNCHANGED <<size, placement, held, pc>>

(* There is no memory: the header is written all the same, through a null  *)
(* pointer, whatever was to be made of the rest.                           *)
AllocateHugeWithoutMemory ==
  /\ objSize = 0
  /\ Kind(size) = "huge"
  /\ objSize' = HugePages(size)
  /\ UNCHANGED <<size, placement, mapped, References, GroupBitmap, inList, held, pc>>

First(S) == CHOOSE i \in S : \A j \in S : i <= j

(* Bug: a group that is taken is not counted.                              *)
CountGroupNot(i) == UNCHANGED References

(***************************************************************************)
(* AddRef in GetGroupFromBlock, and then InitializeUnused, which sets the  *)
(* header of the group to 0.  At the start of the location that is the     *)
(* header of the location, count and all.                                  *)
(***************************************************************************)
CountGroup(i) ==
  References' = IF placement = "location" /\ i = 0 THEN 0 ELSE References + 1

(* GetGroup, when the block of the location is the first of the list.      *)
GetGroup(t) ==
  /\ pc[t] = "idle"
  /\ mapped
  /\ inList = "fullBlockList"
  /\ References <= MaxReferences
  /\ LET i == First(GroupBitmap) IN
       /\ GroupBitmap' = GroupBitmap \ {i}
       /\ inList' = IF GroupBitmap = {i} THEN "emptyBlockList" ELSE inList
       /\ held' = [held EXCEPT ![t] = @ \cup {i}]
       /\ CountGroup(i)
  /\ UNCHANGED <<size, placement, objSize, mapped, pc>>

(* Bug: a block without free groups is not moved when it gets one.         *)
AfterReturnReleased(old, new) ==
  CASE old = {} -> "Release"
    [] old # {} /\ new = 0 .. nGroups(objSize) - 1 -> "idle"
    [] OTHER -> "Release"

(***************************************************************************)
(* ReturnGroupToBlock, from the bitmap it saw.  A block that had no free   *)
(* group is moved, and one that is unused now stays as it is, for it is    *)
(* too small to be Empty::Mask; only in the other case is the reference    *)
(* released.                                                               *)
(***************************************************************************)
AfterReturn(old, new) ==
  CASE old = {} -> "BLOCK_WAS_EMPTY"
    [] old # {} /\ new = 0 .. nGroups(objSize) - 1 -> "idle"
    [] OTHER -> "Release"

ReturnGroupToBlock(t) ==
  /\ pc[t] = "idle"
  /\ mapped
  /\ \E i \in held[t] :
       /\ GroupBitmap' = GroupBitmap \cup {i}
       /\ held' = [held EXCEPT ![t] = @ \ {i}]
       /\ pc' = [pc EXCEPT ![t] = AfterReturn(GroupBitmap, GroupBitmap')]
  /\ UNCHANGED <<size, placement, objSize, mapped, References, inList>>

(* HugeParent->Release(), after the bit was set.                           *)
Release(t) ==
  /\ pc[t] = "Release"
  /\ mapped
  /\ References' = References - 1
  /\ pc' = [pc EXCEPT ![t] = IF References = 1 THEN "BLOCK_FROM_HUGE" ELSE "idle"]
  /\ UNCHANGED <<size, placement, objSize, mapped, GroupBitmap, inList, held>>

(* The block had no free group: it goes back to the full list.             *)
MoveToFullList(t) ==
  /\ pc[t] = "BLOCK_WAS_EMPTY"
  /\ mapped
  /\ inList' = IF GroupBitmap # {} THEN "fullBlockList" ELSE inList
  /\ pc' = [pc EXCEPT ![t] = "idle"]
  /\ UNCHANGED <<size, placement, objSize, mapped, References, GroupBitmap, held>>

(* The count came to 0: the block, with the memory of the location, goes   *)
(* back to the system.                                                     *)
DeallocateBlock(t) ==
  /\ pc[t] = "BLOCK_FROM_HUGE"
  /\ mapped
  /\ mapped' = FALSE
  /\ inList' = "none"
  /\ pc' = [pc EXCEPT ![t] = "idle"]
  /\ UNCHANGED <<size, placement, objSize, References, GroupBitmap, held>>

(* Another request is looked at.                                           *)
AnotherRequest ==
  /\ objSize = 0
  /\ NextRequest
  /\ UNCHANGED <<placement, objSize, mapped, References, GroupBitmap, inList, held, pc>>

Next ==
  \/ AnotherRequest
  \/ AllocateHuge
  \/ AllocateHugeWithoutMemory
  \/ \E t \in Thread :
       \/ GetGroup(t)
       \/ ReturnGroupToBlock(t)
       \/ Release(t)
       \/ MoveToFullList(t)
       \/ DeallocateBlock(t)

Spec == Init /\ [][Next]_vars

-----------------------------------------------------------------------------
(* Properties.                                                             *)

Allocated == objSize # 0

(***************************************************************************)
(* The location, the further locations and the groups lie within the       *)
(* memory that was obtained, apart from each other.  UnusedAsCache does    *)
(* not check that what it makes ends in the region.  The groups are apart  *)
(* if they are placed in "the unused space of the specified huge           *)
(* location".                                                              *)
(***************************************************************************)
PiecesApart ==
  Allocated /\ (placement = "unused" \/ nGroups(objSize) = 0) =>
    LET location == Pages(0, objSize)
        cached == {Pages(start, objSize) : start \in CachedStarts(objSize)}
        groups == {GroupPages(objSize, i) : i \in 0 .. nGroups(objSize) - 1}
        pieces == {location} \cup cached \cup groups
    IN  \A p \in pieces :
          /\ p \subseteq 0 .. Region(objSize) - 1
          /\ \A q \in pieces \ {p} : p \cap q = {}

(* The groups that are counted: those in use, and those whose reference is *)
(* about to be released.                                                   *)
Counted ==
  Cardinality({use \in Thread \X (0 .. 2) : use[2] \in held[use[1]]})
    + Cardinality({t \in Thread : pc[t] = "Release"})

(***************************************************************************)
(* The count in the memory of the location never falls short of its users, *)
(* the location among them, so it cannot come to 0 and have the memory     *)
(* unmapped while one remains, whichever of its groups are taken again     *)
(* before the return of another is counted; unless a group lies on the     *)
(* count.                                                                  *)
(***************************************************************************)
UsersCounted ==
  mapped /\ placement = "unused" /\ nGroups(objSize) > 0 => References >= 1 + Counted

(***************************************************************************)
(* A free group can be found, or a thread is about to see to it; and the   *)
(* list holds the block only while it has one.  This is so whatever the    *)
(* count comes to, up to the moment the memory goes back to the system.    *)
(***************************************************************************)
FreeGroupsListed ==
  /\ TypeOK
  /\ inList = "fullBlockList" => GroupBitmap # {}
  /\ inList = "emptyBlockList" /\ GroupBitmap # {} =>
       \E t \in Thread : pc[t] = "BLOCK_WAS_EMPTY"
=============================================================================
