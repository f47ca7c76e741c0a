--------------------------- MODULE BlockAllocator ---------------------------
(***************************************************************************)
(* The block allocator (src/Allocator/BlockAllocator.hpp): groups carved   *)
(* out of blocks of memory of the operating system, as the build uses it   *)
(* (no NUMA, no group is ever returned partially used).                    *)
(*                                                                         *)
(* A block knows its free groups by a bitmap.  The blocks with a free      *)
(* group are in the full list, the others in the empty list.  GetGroup     *)
(* runs under the lock of the allocator.  ReturnFullGroup sets the bit of  *)
(* the group without the lock, and takes it afterwards only if what it saw *)
(* then means that the block has to change lists or go back to the system; *)
(* anything can happen in between.  Each critical section is one action:   *)
(* it shares nothing but the bitmaps with steps outside the lock, and      *)
(* touches each bitmap once.                                               *)
(*                                                                         *)
(* ReturnFullGroup gives a block back whatever list it is in, as in the    *)
(* program, unless ChecksList holds: then only a block that is in the full *)
(* list goes back, which is what the other steps reckon with.              *)
(*                                                                         *)
(* The blocks at the end of huge locations, which live in the same lists,  *)
(* are the subject of the module HugeLocation.                             *)
(***************************************************************************)
EXTENDS Lists, FiniteSets

CONSTANTS
  Thread,      \* The threads.
  Block,       \* The block descriptors, each with its memory.
  NoBlock,     \* A null block.
  Groups,      \* The number of groups of a block (64 small or 16 large ones).
  CacheSize,   \* The number of blocks kept.
  ChecksList   \* Is only a block in the full list returned?

ASSUME GroupsAssumption == Groups \in Nat \ {0, 1}
ASSUME CacheSizeAssumption == CacheSize \in Nat
ASSUME ChecksListAssumption == ChecksList \in BOOLEAN
ASSUME NoBlockAssumption == NoBlock \notin Block

VARIABLES
  fullBlockList,    \* The blocks from which groups are taken.
  emptyBlockList,   \* The blocks without a free group.
  GroupBitmap,      \* The free groups of each block.
  held,             \* The groups each thread has in its bins.
  pc,               \* What a thread does, or what its bit operation returned.
  block             \* The block to which it returned a group.

lists == <<fullBlockList, emptyBlockList>>
threadVars == <<pc, block>>
vars == <<lists, GroupBitmap, held, threadVars>>

Index == 0 .. Groups - 1
Group == Block \X Index
Mask == Index          \* Empty::Mask and FullBitmap: no group is used.

InUse == InList(fullBlockList) \cup InList(emptyBlockList)

TypeOK ==
  /\ fullBlockList \in Seq(Block)
  /\ emptyBlockList \in Seq(Block)
  /\ GroupBitmap \in [Block -> SUBSET Index]
  /\ held \in [Thread -> SUBSET Group]
  /\ pc \in [Thread -> {"idle", "BLOCK_WAS_EMPTY", "BLOCK_IS_FULL"}]
  /\ block \in [Thread -> Block \cup {NoBlock}]

Init ==
  /\ fullBlockList = <<>>
  /\ emptyBlockList = <<>>
  /\ GroupBitmap = [b \in Block |-> {}]
  /\ held = [t \in Thread |-> {}]
  /\ pc = [t \in Thread |-> "idle"]
  /\ block = [t \in Thread |-> NoBlock]

-----------------------------------------------------------------------------
(* Helpers.                                                                *)

First(S) == CHOOSE i \in S : \A j \in S : i <= j

(* Bug: the bit next to that of the group is reset.                        *)
ResetBitNext(bitmap, i) == bitmap \ {i + 1}

ResetBit(bitmap, i) == bitmap \ {i}

(* The call returns and its locals with it.                                *)
Return(t) ==
  /\ pc' = [pc EXCEPT ![t] = "idle"]
  /\ block' = [block EXCEPT ![t] = NoBlock]

-----------------------------------------------------------------------------
(* GetGroup.                                                               *)

(* Bug: a block without free groups is added to the empty list only.       *)
MoveIfEmptyKept(b, bitmap) ==
  /\ UNCHANGED fullBlockList
  /\ emptyBlockList' = IF bitmap = {} THEN <<b>> \o emptyBlockList ELSE emptyBlockList

(* Bug: a block without free groups stays where it is.                     *)
MoveIfEmptyOmitted(b, bitmap) == UNCHANGED lists

(* The first block of the full list, left with `bitmap', changes lists if  *)
(* it has no free group any more.                                          *)
MoveIfEmpty(b, bitmap) ==
  IF bitmap = {}
  THEN /\ fullBlockList' = Tail(fullBlockList)
       /\ emptyBlockList' = <<b>> \o emptyBlockList
  ELSE UNCHANGED lists

(* Take the first free group of the first block.                           *)
GetGroupFromFirst(t) ==
  /\ pc[t] = "idle"
  /\ fullBlockList # <<>>
  /\ LET b == Head(fullBlockList)
         i == First(GroupBitmap[b])
         left == ResetBit(GroupBitmap[b], i)
     IN  /\ GroupBitmap[b] # {}
         /\ GroupBitmap' = [GroupBitmap EXCEPT ![b] = left]
         /\ held' = [held EXCEPT ![t] = @ \cup {<<b, i>>}]
         /\ MoveIfEmpty(b, left)
  /\ UNCHANGED threadVars

(* What AllocateBlock returns: a block with its memory, or a null pointer  *)
(* if either the memory or the descriptor is refused; the one it got then  *)
(* goes back where it came from.                                           *)
AllocateBlock == {NoBlock} \cup (Block \ InUse)

(* No block has a free group: a new one is allocated and its first group   *)
(* taken.  A failure to allocate it changes nothing.                       *)
GetGroupFromNew(t) ==
  /\ pc[t] = "idle"
  /\ fullBlockList = <<>>
  /\ \E b \in AllocateBlock :
       /\ b # NoBlock
       /\ fullBlockList' = <<b>>
       /\ GroupBitmap' = [GroupBitmap EXCEPT ![b] = ResetBit(Mask, First(Mask))]
       /\ held' = [held EXCEPT ![t] = @ \cup {<<b, First(Mask)>>}]
  /\ UNCHANGED <<emptyBlockList, threadVars>>

-----------------------------------------------------------------------------
(* ReturnFullGroup.                                                        *)

(* Bug: a block that got its first free group again is not moved.          *)
BitResultNeverEmpty(old, i) == IF old \cup {i} = Mask THEN "BLOCK_IS_FULL" ELSE "idle"

(***************************************************************************)
(* What ReturnGroupToBlock makes of the bitmap it saw: the block had no    *)
(* free group, or got its last bit, or there is nothing to do.             *)
(***************************************************************************)
BitResult(old, i) ==
  CASE old = {} -> "BLOCK_WAS_EMPTY"
    [] old # {} /\ old \cup {i} = Mask -> "BLOCK_IS_FULL"
    [] OTHER -> "idle"

(* ReturnGroupToBlock: set the bit of the group, without the lock.         *)
ReturnGroupToBlock(t) ==
  /\ pc[t] = "idle"
  /\ \E g \in held[t] :
       LET b == g[1]
           result == BitResult(GroupBitmap[b], g[2])
       IN  /\ GroupBitmap' = [GroupBitmap EXCEPT ![b] = @ \cup {g[2]}]
           /\ held' = [held EXCEPT ![t] = @ \ {g}]
           /\ pc' = [pc EXCEPT ![t] = result]
           /\ block' = [block EXCEPT ![t] = IF result = "idle" THEN NoBlock ELSE b]
  /\ UNCHANGED lists

(* The block had no free group and has one now: it changes lists.          *)
MoveToFullList(t) ==
  /\ pc[t] = "BLOCK_WAS_EMPTY"
  /\ IF GroupBitmap[block[t]] # {}
     THEN /\ emptyBlockList' = Without(emptyBlockList, block[t])
          /\ fullBlockList' = <<block[t]>> \o fullBlockList
     ELSE UNCHANGED lists
  /\ Return(t)
  /\ UNCHANGED <<GroupBitmap, held>>

(* Bug: the last block of the cache is returned as well.                   *)
CanReturnBlockTooMany(b) ==
  /\ GroupBitmap[b] = Mask
  /\ Len(fullBlockList) + Len(emptyBlockList) >= CacheSize
  /\ ChecksList => b \in InList(fullBlockList)

(* Is the block still unused, and are there enough others?                 *)
CanReturnBlock(b) ==
  /\ GroupBitmap[b] = Mask
  /\ Len(fullBlockList) + Len(emptyBlockList) > CacheSize
  /\ ChecksList => b \in InList(fullBlockList)

(* The memory goes back to the system and the descriptor to its pool: from *)
(* now on AllocateBlock may use both.  The descriptor keeps what it held.  *)
DeallocateBlock(b) == fullBlockList' = Without(fullBlockList, b)

(* The block became full: it goes back to the system if it still is and    *)
(* enough blocks remain.                                                   *)
ReturnBlock(t) ==
  /\ pc[t] = "BLOCK_IS_FULL"
  /\ IF CanReturnBlock(block[t]) THEN DeallocateBlock(block[t]) ELSE UNCHANGED fullBlockList
  /\ Return(t)
  /\ UNCHANGED <<emptyBlockList, GroupBitmap, held>>

-----------------------------------------------------------------------------
Continue(t) == MoveToFullList(t) \/ ReturnBlock(t)

Next ==
  \E t \in Thread :
    \/ GetGroupFromFirst(t)
    \/ GetGroupFromNew(t)
    \/ ReturnGroupToBlock(t)
    \/ Continue(t)

Spec == Init /\ [][Next]_vars

-----------------------------------------------------------------------------
(* Properties.                                                             *)

(***************************************************************************)
(* A block is in one list, once; one from which GetGroup would take a      *)
(* group has a free one.  GetGroup does not test the index it finds        *)
(* ("The found index is guaranteed to be valid").                          *)
(***************************************************************************)
ListsSound ==
  LET list == fullBlockList \o emptyBlockList IN
    /\ TypeOK
    /\ \A i, j \in DOMAIN list : list[i] = list[j] => i = j
    /\ \A b \in InList(fullBlockList) : GroupBitmap[b] # {}

(***************************************************************************)
(* Every group of a block in use is free or held by one thread, and nobody *)
(* holds a group of a block that went back to the system.                  *)
(***************************************************************************)
GroupsConserved ==
  /\ \A b \in InUse :
       Mask = GroupBitmap[b] \cup {i \in Index : \E t \in Thread : <<b, i>> \in held[t]}
  /\ \A t \in Thread : \A g \in held[t] :
       /\ g[1] \in InUse
       /\ g[2] \notin GroupBitmap[g[1]]
       /\ \A u \in Thread \ {t} : g \notin held[u]

(***************************************************************************)
(* A free group is never forgotten: while its block is in the empty list,  *)
(* exactly one thread is about to move the block.                          *)
(***************************************************************************)
FreeGroupsKnown ==
  \A b \in InList(emptyBlockList) :
    GroupBitmap[b] # {} =>
      Cardinality({t \in Thread : pc[t] = "BLOCK_WAS_EMPTY" /\ block[t] = b}) = 1

(***************************************************************************)
(* A thread that is to take a block out of a list under the lock finds it  *)
(* there: whatever other threads did since it set its bit, the block is    *)
(* still in use and in that list ("It can be returned to the OS only if no *)
(* other thread took a group before we acquired the manager lock").        *)
(***************************************************************************)
RemovalsSound ==
  \A t \in Thread :
    /\ pc[t] = "BLOCK_WAS_EMPTY" =>
         block[t] \in InList(emptyBlockList) /\ GroupBitmap[block[t]] # {}
    /\ pc[t] = "BLOCK_IS_FULL" /\ CanReturnBlock(block[t]) =>
         block[t] \in InList(fullBlockList)

(***************************************************************************)
(* A block goes back to the system only when no thread has a group of it,  *)
(* and at least CacheSize blocks stay.                                     *)
(***************************************************************************)
CacheKept ==
  [][\A b \in InUse \ InUse' :
       /\ \A t \in Thread : \A g \in held[t] : g[1] # b
       /\ Cardinality(InUse') >= CacheSize]_vars
=============================================================================
