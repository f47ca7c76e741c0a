----------------------------- MODULE Structures -----------------------------
(***************************************************************************)
(* What the allocator is built on, one at a time: the pool of objects with *)
(* its list of blocks, a list that is used in any other way its rules      *)
(* allow, and a bitmap the threads change atomically.                      *)
(***************************************************************************)
EXTENDS ObjectPool

CONSTANTS Thread, Halves

ASSUME HalvesAssumption ==
  \A a, b \in Halves : a # b => a \cap b = {}

VARIABLES
  used_as,                                 \* Which of the three it is.
  word, asked, result, oldValue, unread    \* The bitmap.

Bits == INSTANCE AtomicBits

bitVars == <<word, asked, result, oldValue, unread>>
poolVars == <<Bitmap, FreeObjects, used, pc, block>>
allVars == <<vars, used_as, bitVars>>

StructuresInit ==
  /\ used_as \in {"pool", "list", "bitmap"}
  /\ Init
  /\ Bits!Init

PoolStep == used_as = "pool" /\ Next /\ UNCHANGED <<used_as, bitVars>>

ListStep == used_as = "list" /\ ListNext /\ UNCHANGED <<used_as, poolVars, bitVars>>

BitmapStep == used_as = "bitmap" /\ Bits!Next /\ UNCHANGED <<used_as, vars>>

StructuresNext == PoolStep \/ ListStep \/ BitmapStep

StructuresSpec == StructuresInit /\ [][StructuresNext]_allVars

-----------------------------------------------------------------------------
(* Properties.                                                             *)

(***************************************************************************)
(* The objects of the pool are accounted for, as ObjectPool has it.        *)
(***************************************************************************)
PoolAccounted == used_as = "pool" => ObjectsAccounted

(***************************************************************************)
(* The loops of SetBit64 and ResetBit64 are atomic operations, and what    *)
(* they return is the word as it was then, although they work from a copy  *)
(* that may be of no word at all: "Value could be changed".                *)
(***************************************************************************)
Atomically == INSTANCE AtomicWord WITH Bit <- UNION Halves
WordAtomic == []Bits!TypeOK /\ Atomically!Spec
=============================================================================
