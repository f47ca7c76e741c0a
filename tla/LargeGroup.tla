----------------------------- MODULE LargeGroup -----------------------------
(***************************************************************************)
(* A group of large locations (src/Allocator/LargeGroup.hpp).              *)
(*                                                                         *)
(* The free locations are bits: PrivateBitmap is the owner's, PublicBitmap *)
(* gets those freed by other threads, with their number in the same word.  *)
(* Other threads set a bit by compare-and-swap; the owner swaps the word   *)
(* for BitmapHolder::None and merges what was in it.  A swap retries with  *)
(* the word it found.                                                      *)
(*                                                                         *)
(* Two constants describe the program as it is; with the other values the  *)
(* module tells what its protocol does without the two defects.            *)
(*   AllOnes: None is BitmapHolder(-1, 0), a bitmap with every bit set.    *)
(*   Wide: in the 64-bit build the holder has two words, and only the one  *)
(*   with the bitmap is compared and swapped.                              *)
(*                                                                         *)
(* The bin lists the group when a push tells it has one public location    *)
(* (Allocator::DeallocatePublic); the module Bin has the details.          *)
(***************************************************************************)
EXTENDS Integers, FiniteSets

CONSTANTS
  Thread,      \* The threads.
  NoThread,    \* The owner of a group in its block.
  Locations,   \* The number of locations of a group (8, 12 or 16).
  Bits,        \* The number of bits of a bitmap (32; 20 for the public one).
  AllOnes,     \* Has None every bit set?
  Wide         \* Has the holder two words?

ASSUME LocationsAssumption == Locations \in Nat \ {0} /\ Bits \in Nat /\ Bits >= Locations
ASSUME FlagsAssumption == AllOnes \in BOOLEAN /\ Wide \in BOOLEAN
ASSUME NoThreadAssumption == NoThread \notin Thread

VARIABLES
  ThreadId,        \* The owner of the group.
  PrivateFree,     \* The number of free locations its owner knows of.
  PrivateBitmap,   \* Their bits.
  PublicBitmap,    \* The locations freed by others, and their number.
  listed,          \* How many times the group is in the public list of its bin.
  live,            \* The locations clients have.
  pc,              \* What each thread does.
  test,            \* The word it read, or that its swap found.
  location         \* The location it frees.

ownerVars == <<ThreadId, PrivateFree, PrivateBitmap>>
threadVars == <<pc, test, location>>
vars == <<ownerVars, PublicBitmap, listed, live, threadVars>>

Location == 0 .. Locations - 1
Bit == 0 .. Bits - 1
Holder == [Bitmap : SUBSET Bit, Count : 0 .. Locations]

BitmapHolder(bitmap, count) == [Bitmap |-> bitmap, Count |-> count]

Zero == BitmapHolder({}, 0)   \* Memory fresh from the system.

None == BitmapHolder(IF AllOnes THEN Bit ELSE {}, 0)

TypeOK ==
  /\ ThreadId \in Thread \cup {NoThread}
  /\ PrivateFree \in 0 .. Locations
  /\ PrivateBitmap \in SUBSET Bit
  /\ PublicBitmap \in Holder
  /\ listed \in Nat
  /\ live \in SUBSET Location
  /\ pc \in [Thread -> {"idle", "MergeBitmaps", "ReturnPublicLocation"}]
  /\ test \in [Thread -> Holder]
  /\ location \in [Thread -> 0 .. Locations]

Init ==
  /\ ThreadId = NoThread
  /\ PrivateFree = 0
  /\ PrivateBitmap = {}
  /\ PublicBitmap = Zero
  /\ listed = 0
  /\ live = {}
  /\ pc = [t \in Thread |-> "idle"]
  /\ test = [t \in Thread |-> Zero]
  /\ location = [t \in Thread |-> Locations]

-----------------------------------------------------------------------------
(* Helpers.                                                                *)

First(S) == CHOOSE i \in S : \A j \in S : i <= j

(* operator== and CompareExchange look at one word.                        *)
Equal(a, b) == a.Bitmap = b.Bitmap /\ (Wide \/ a.Count = b.Count)

(* Bug: the bit is swapped in whatever the word has become.                *)
SwapSucceedsAlways(t) == TRUE

SwapSucceeds(t) == Equal(PublicBitmap, test[t])

(* What a successful swap leaves: only the word with the bitmap changes.   *)
Swapped(holder) == IF Wide THEN [holder EXCEPT !.Count = PublicBitmap.Count] ELSE holder

(* A failed swap returns one word; the count next to it is any value.      *)
Found(holder) == IF Wide THEN [Bitmap : {holder.Bitmap}, Count : 0 .. Locations] ELSE {holder}

Enter(t, at, l) ==
  /\ pc' = [pc EXCEPT ![t] = at]
  /\ test' = [test EXCEPT ![t] = PublicBitmap]
  /\ location' = [location EXCEPT ![t] = l]

Leave(t) ==
  /\ pc' = [pc EXCEPT ![t] = "idle"]
  /\ test' = [test EXCEPT ![t] = Zero]
  /\ location' = [location EXCEPT ![t] = Locations]

Retry(t) ==
  /\ \E holder \in Found(PublicBitmap) : test' = [test EXCEPT ![t] = holder]
  /\ UNCHANGED <<ownerVars, PublicBitmap, listed, live, pc, location>>

(* Bug: the public locations are counted as free (MayBeFull).              *)
IsFullWithPublic == PrivateFree + PublicBitmap.Count = Locations

IsFull == PrivateFree = Locations /\ Equal(PublicBitmap, None)

(* GetPrivateLocation, from the given bitmap and number of free locations. *)
GetPrivateLocation(bitmap, free) ==
  IF free = 0
  THEN PrivateBitmap' = bitmap /\ PrivateFree' = free /\ UNCHANGED live
  ELSE /\ PrivateBitmap' = bitmap \ {First(bitmap)}
       /\ PrivateFree' = free - 1
       /\ live' = live \cup {First(bitmap)}

-----------------------------------------------------------------------------
(* The owner.                                                              *)

(* InitializeUnused: every private bit is set, the public ones are left.   *)
InitializeUnused(t) ==
  /\ ThreadId = NoThread
  /\ pc[t] = "idle"
  /\ ThreadId' = t
  /\ PrivateFree' = Locations
  /\ PrivateBitmap' = Bit
  /\ UNCHANGED <<PublicBitmap, listed, live, threadVars>>

(* GetLocation, with a private location.                                   *)
GetLocation(t) ==
  /\ ThreadId = t
  /\ pc[t] = "idle"
  /\ PrivateFree > 0
  /\ GetPrivateLocation(PrivateBitmap, PrivateFree)
  /\ UNCHANGED <<ThreadId, PublicBitmap, listed, threadVars>>

(* GetPublicLocation, of the group the owner took from the public list.    *)
(* It looks there only when no group of the bin has a private location.    *)
GetPublicLocation(t) ==
  /\ ThreadId = t
  /\ pc[t] = "idle"
  /\ listed > 0
  /\ PrivateFree = 0
  /\ listed' = listed - 1
  /\ IF Equal(PublicBitmap, None) THEN UNCHANGED threadVars
     ELSE Enter(t, "MergeBitmaps", Locations)
  /\ UNCHANGED <<ownerVars, PublicBitmap, live>>

(* Bug: the number of merged locations is not added.                       *)
MergeBitmapsUncounted(t) ==
  /\ pc[t] = "MergeBitmaps"
  /\ SwapSucceeds(t)
  /\ PublicBitmap' = Swapped(None)
  /\ GetPrivateLocation(PrivateBitmap \cup test[t].Bitmap, 1)
  /\ Leave(t)
  /\ UNCHANGED <<ThreadId, listed>>

(* The swap of MergeBitmaps succeeds, and a location is taken.             *)
MergeBitmaps(t) ==
  /\ pc[t] = "MergeBitmaps"
  /\ SwapSucceeds(t)
  /\ PublicBitmap' = Swapped(None)
  /\ GetPrivateLocation(PrivateBitmap \cup test[t].Bitmap, PrivateFree + test[t].Count)
  /\ Leave(t)
  /\ UNCHANGED <<ThreadId, listed>>

(* ReturnPrivateLocation, and the bin may give the group back.             *)
ReturnPrivateLocation(t) ==
  /\ ThreadId = t
  /\ pc[t] = "idle"
  /\ \E l \in live :
       /\ PrivateBitmap' = PrivateBitmap \cup {l}
       /\ PrivateFree' = PrivateFree + 1
       /\ live' = live \ {l}
  /\ UNCHANGED <<ThreadId, PublicBitmap, listed, threadVars>>

GiveBack(t) ==
  /\ ThreadId = t
  /\ pc[t] = "idle"
  /\ IsFull
  /\ ThreadId' = NoThread
  /\ UNCHANGED <<PrivateFree, PrivateBitmap, PublicBitmap, listed, live, threadVars>>

-----------------------------------------------------------------------------
(* The other threads.                                                      *)

(* ReturnPublicLocation, up to its first read.                             *)
ReturnPublicLocation(t) ==
  /\ ThreadId \notin {t, NoThread}
  /\ pc[t] = "idle"
  /\ \E l \in live :
       /\ live' = live \ {l}
       /\ Enter(t, "ReturnPublicLocation", l)
  /\ UNCHANGED <<ownerVars, PublicBitmap, listed>>

(* Its swap succeeds; the caller lists a group with one public location.   *)
PushLocation(t) ==
  /\ pc[t] = "ReturnPublicLocation"
  /\ SwapSucceeds(t)
  /\ LET replacement == BitmapHolder(test[t].Bitmap \cup {location[t]}, test[t].Count + 1)
     IN  /\ PublicBitmap' = Swapped(replacement)
         /\ listed' = listed + (IF replacement.Count = 1 THEN 1 ELSE 0)
  /\ Leave(t)
  /\ UNCHANGED <<ownerVars, live>>

SwapFails(t) ==
  /\ pc[t] # "idle"
  /\ ~SwapSucceeds(t)
  /\ Retry(t)

-----------------------------------------------------------------------------
Next ==
  \E t \in Thread :
    \/ InitializeUnused(t)
    \/ GetLocation(t)
    \/ GetPublicLocation(t)
    \/ MergeBitmaps(t)
    \/ ReturnPrivateLocation(t)
    \/ GiveBack(t)
    \/ ReturnPublicLocation(t)
    \/ PushLocation(t)
    \/ SwapFails(t)

Spec == Init /\ [][Next]_vars

-----------------------------------------------------------------------------
(* Properties.                                                             *)

Public == IF PublicBitmap.Count = 0 THEN {} ELSE PublicBitmap.Bitmap
InFlight == {location[t] : t \in {u \in Thread : pc[u] = "ReturnPublicLocation"}}

(***************************************************************************)
(* A location that a client has, or is just giving back, is not free in    *)
(* any bitmap: neither the owner nor a merge can hand it out again.        *)
(***************************************************************************)
LocationsExclusive ==
  ThreadId # NoThread => (live \cup InFlight) \cap (PrivateBitmap \cup Public) = {}

(***************************************************************************)
(* PrivateFree is the number of locations free in the private bitmap,      *)
(* although that has bits for more locations than the group, and although  *)
(* merges add a number that other threads computed.                        *)
(***************************************************************************)
FreeCounted ==
  /\ TypeOK
  /\ ThreadId # NoThread => PrivateFree = Cardinality(PrivateBitmap \cap Location)

(***************************************************************************)
(* No location is forgotten: what is not live nor being freed is free in   *)
(* one of the bitmaps; and the group is in the public list at most once,   *)
(* and is there whenever it has a public location, unless its owner is     *)
(* about to merge.                                                         *)
(***************************************************************************)
LocationsKnown ==
  /\ ThreadId # NoThread =>
       Location \subseteq live \cup InFlight \cup PrivateBitmap \cup Public
  /\ listed <= 1
  /\ Public # {} => listed = 1 \/ \E t \in Thread : pc[t] = "MergeBitmaps"

(***************************************************************************)
(* A group given back has no location with a client or on its way; and one *)
(* whose locations are all free again counts as full.                      *)
(***************************************************************************)
GivenBackUnused ==
  /\ ThreadId = NoThread => live = {} /\ InFlight = {} /\ listed = 0
  /\ ThreadId # NoThread /\ PrivateFree = Locations => IsFull
=============================================================================
