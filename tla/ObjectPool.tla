----------------------------- MODULE ObjectPool -----------------------------
(***************************************************************************)
(* The pools of descriptors (src/Allocator/ObjectPool.hpp), from which     *)
(* block descriptors, block allocators and thread contexts are taken.      *)
(* Memory of the operating system is divided into at most 63 objects; each *)
(* block of it has a bitmap of 64 bits and a count of its free objects.    *)
(* The blocks are the nodes of an ObjectList, and objects are taken from   *)
(* the first one only.                                                     *)
(*                                                                         *)
(* GetObject and ReturnObject run under the lock of the pool.  Each is one *)
(* step, but for ReturnObject where it removes a block from the list and   *)
(* adds it again: these are two, and the lock is held in between.          *)
(***************************************************************************)
EXTENDS ObjectList

CONSTANTS
  MaxObjectNumber,    \* The objects of a block.
  BitmapSize,         \* The bits of its bitmap (64).
  CacheSize           \* The number of blocks kept.

ASSUME MaxObjectNumberAssumption == MaxObjectNumber \in Nat \ {0}
ASSUME BitmapSizeAssumption == BitmapSize \in Nat /\ BitmapSize >= MaxObjectNumber
ASSUME CacheSizeAssumption == CacheSize \in Nat

VARIABLES
  Bitmap,         \* The bits set in the header of each block.
  FreeObjects,    \* The count of free objects there.
  used,           \* The objects the clients have.
  pc,             \* Where MakeBlockActive is, if it has removed a block.
  block           \* That block.

vars == <<listVars, Bitmap, FreeObjects, used, pc, block>>

Bit == 0 .. BitmapSize - 1
Object == Node \X Bit

TypeOK ==
  /\ ListTypeOK
  /\ Bitmap \in [Node -> SUBSET Bit]
  /\ FreeObjects \in [Node -> 0 .. MaxObjectNumber]
  /\ used \subseteq Object
  /\ pc \in {"idle", "AddFirst", "AddAfter", "crashed"}
  /\ block \in Pointer

Init ==
  /\ ListInit
  /\ Bitmap = [b \in Node |-> {}]
  /\ FreeObjects = [b \in Node |-> 0]
  /\ used = {}
  /\ pc = "idle"
  /\ block = NoNode

(* The blocks whose memory the pool has.                                   *)
Blocks == Listed \cup (IF pc \in {"AddFirst", "AddAfter"} THEN {block} ELSE {})

-----------------------------------------------------------------------------
(* GetObject.                                                              *)

(* Bitmap::SearchForward.                                                  *)
First(S) == CHOOSE i \in S : \A j \in S : i <= j

(* GetObjectFromBlock: `bitmap' and `free' are those of the active block.  *)
GetObjectFromBlock(b, bitmap, free) ==
  /\ Bitmap' = [Bitmap EXCEPT ![b] = bitmap \ {First(bitmap)}]
  /\ FreeObjects' = [FreeObjects EXCEPT ![b] = free - 1]
  /\ used' = used \cup {<<b, First(bitmap)>>}

(* The active block has a free object.                                     *)
GetObject ==
  /\ pc = "idle"
  /\ count_ > 0
  /\ FreeObjects[first_] > 0
  /\ GetObjectFromBlock(first_, Bitmap[first_], FreeObjects[first_])
  /\ UNCHANGED <<listVars, pc, block>>

(* InitializeBlock sets every bit, those without an object too.            *)
InitialBitmap == Bit

(* There is no block, or the active one is used up: take the object from a *)
(* new block.                                                              *)
GetObjectFromNew ==
  /\ pc = "idle"
  /\ count_ > 0 => FreeObjects[first_] = 0
  /\ \E b \in Node \ Blocks :
       /\ AddFirst(b)
       /\ GetObjectFromBlock(b, InitialBitmap, MaxObjectNumber)
  /\ UNCHANGED <<pc, block>>

(* The system has no memory for a new block: AllocateBlock initializes it  *)
(* all the same, through a null pointer, which ends the process.           *)
GetObjectWithoutMemory ==
  /\ pc = "idle"
  /\ count_ > 0 => FreeObjects[first_] = 0
  /\ pc' = "crashed"
  /\ UNCHANGED <<listVars, Bitmap, FreeObjects, used, block>>

(* It does nothing any more.                                               *)
Crashed == pc = "crashed" /\ UNCHANGED vars

-----------------------------------------------------------------------------
(* ReturnObject.                                                           *)

ReturnObjectToBlock(b, i) ==
  /\ Bitmap' = [Bitmap EXCEPT ![b] = @ \cup {i}]
  /\ FreeObjects' = [FreeObjects EXCEPT ![b] = @ + 1]
  /\ used' = used \ {<<b, i>>}

(* Bug: a block is deallocated with a used object in it.                   *)
CanDeallocateEarly(b, free) ==
  free >= MaxObjectNumber - 1 /\ count_ > CacheSize /\ FreeObjects[first_] > 0

(* Bug: the unused block goes although the active one is used up.          *)
CanDeallocateNeeded(b, free) == free = MaxObjectNumber /\ count_ > CacheSize

(* Is the block, with `free' objects, unused, and are there enough others  *)
(* to go on with?                                                          *)
CanDeallocate(b, free) ==
  /\ free = MaxObjectNumber
  /\ count_ > CacheSize
  /\ FreeObjects[first_] > 0

(* MakeBlockActive: does the block come before the active one?  (Its case  *)
(* of an empty list does not occur.)                                       *)
BecomesFirst(b, free) ==
  /\ FreeObjects[first_] <= MaxObjectNumber \div 4
  /\ free > FreeObjects[first_]

ReturnToFirst ==
  /\ pc = "idle"
  /\ \E object \in used :
       /\ object[1] = first_
       /\ ReturnObjectToBlock(first_, object[2])
  /\ UNCHANGED <<listVars, pc, block>>

(* The block is not the active one: it is deallocated, or moved up.        *)
ReturnToOther ==
  /\ pc = "idle"
  /\ \E object \in used :
       LET b == object[1]
           free == FreeObjects[b] + 1
       IN  /\ b # first_
           /\ ReturnObjectToBlock(b, object[2])
           /\ Remove(b)
           /\ IF CanDeallocate(b, free)
              THEN UNCHANGED <<pc, block>>
              ELSE /\ block' = b
                   /\ pc' = IF BecomesFirst(b, free) THEN "AddFirst" ELSE "AddAfter"

(* The second half of MakeBlockActive.                                     *)
MakeBlockActive ==
  /\ \/ pc = "AddFirst" /\ AddFirst(block)
     \/ pc = "AddAfter" /\ AddAfter(first_, block)
  /\ pc' = "idle"
  /\ block' = NoNode
  /\ UNCHANGED <<Bitmap, FreeObjects, used>>

-----------------------------------------------------------------------------
Next ==
  \/ GetObject \/ GetObjectFromNew \/ GetObjectWithoutMemory
  \/ ReturnToFirst \/ ReturnToOther \/ MakeBlockActive
  \/ Crashed

Spec == Init /\ [][Next]_vars

-----------------------------------------------------------------------------
(* Properties.                                                             *)

(***************************************************************************)
(* Every object a client has lies within a block of the pool, whose memory *)
(* was not given back; and for each block the objects that are used, those *)
(* marked in the bitmap and the count add up.  The bits without an object  *)
(* are never taken, although GetObjectFromBlock looks at the bitmap only.  *)
(***************************************************************************)
ObjectsAccounted ==
  /\ TypeOK
  /\ \A object \in used : object[1] \in Blocks /\ object[2] < MaxObjectNumber
  /\ \A b \in Blocks :
       LET taken == {i \in Bit : <<b, i>> \in used} IN
         /\ Bitmap[b] = Bit \ taken
         /\ FreeObjects[b] + Cardinality(taken) = MaxObjectNumber

(***************************************************************************)
(* A pool to which an object was returned can give one: whatever the call  *)
(* did to the list, its active block has a free object.                    *)
(***************************************************************************)
ReturnMakesUsable ==
  [][(used' # used \/ pc # "idle") /\ used' \subseteq used /\ pc' = "idle"
       => FreeObjects'[first_'] > 0]_vars

(***************************************************************************)
(* The pointers implement the sequence of blocks the pool reckons with:    *)
(* each method of the list changes it as its comment says, whatever        *)
(* pointers the node was left with when it was removed before; and they    *)
(* agree in both directions.                                               *)
(***************************************************************************)
Promise == INSTANCE NodeList
ImplementsNodeList == []LinksAgree /\ Promise!Spec
=============================================================================
