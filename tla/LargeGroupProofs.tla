--------------------------- MODULE LargeGroupProofs ---------------------------
(***************************************************************************)
(* Proofs about module LargeGroup, for the protocol its comments describe: *)
(* None has no bit set (~AllOnes) and the holder is one word (~Wide).      *)
(* With AllOnes LocationsExclusive does not hold: run large_none.          *)
(*                                                                         *)
(* What the properties rest on is that the word of the public bitmap       *)
(* counts its own bits, so that a swap, which compares bits and number     *)
(* together, adds to PrivateFree as many locations as to PrivateBitmap;    *)
(* and that each location of a group is in one place at a time.            *)
(***************************************************************************)
EXTENDS LargeGroup, ListProofs

Freeing(t) == pc[t] = "ReturnPublicLocation"
Merging(t) == pc[t] = "MergeBitmaps"

(* Each location with a client, with one thread that frees it, or free.    *)
PlacesApart ==
  /\ live \subseteq Location
  /\ \A t \in Thread : Freeing(t) =>
       /\ location[t] \in Location \ (live \cup PrivateBitmap \cup PublicBitmap.Bitmap)
       /\ \A u \in Thread : Freeing(u) /\ location[u] = location[t] => u = t
  /\ ThreadId # NoThread =>
       live \cap (PrivateBitmap \cup PublicBitmap.Bitmap) = {}

PlacesCover ==
  ThreadId # NoThread =>
    \A l \in Location :
      \/ l \in live \cup PrivateBitmap \cup PublicBitmap.Bitmap
      \/ \E t \in Thread : Freeing(t) /\ location[t] = l

(* The word counts its bits, and the owner the free ones of its own.       *)
WordCounted ==
  /\ PublicBitmap.Bitmap \subseteq Location
  /\ PublicBitmap.Count = Cardinality(PublicBitmap.Bitmap)

PrivateCounted ==
  ThreadId # NoThread =>
    /\ PrivateFree = Cardinality(PrivateBitmap \cap Location)
    /\ PrivateBitmap \cap PublicBitmap.Bitmap = {}

(* The owner merges public locations, and only when it has no others.      *)
MergeSound ==
  \A t \in Thread : Merging(t) =>
    t = ThreadId /\ PrivateFree = 0 /\ PublicBitmap.Bitmap # {}

(* The group is listed while it has public locations nobody merges.        *)
ListedOnce ==
  listed = IF PublicBitmap.Bitmap = {} \/ \E t \in Thread : Merging(t) THEN 0 ELSE 1

BackUnused ==
  ThreadId = NoThread =>
    live = {} /\ PublicBitmap.Bitmap = {} /\ \A t \in Thread : pc[t] = "idle"

Inv ==
  /\ TypeOK
  /\ PlacesApart /\ PlacesCover
  /\ WordCounted /\ PrivateCounted
  /\ MergeSound /\ ListedOnce /\ BackUnused

-----------------------------------------------------------------------------
(* Bits.                                                                   *)

LEMMA LocationFacts ==
  /\ IsFiniteSet(Location) /\ Cardinality(Location) = Locations
  /\ Locations \in Nat \ {0} /\ Location \subseteq Bit
  /\ \A S : IsFiniteSet(S \cap Location)
  /\ \A S : Cardinality(S \cap Location) \in 0 .. Locations
<1>1. Locations \in Nat \ {0} /\ Location \subseteq Bit
  BY LocationsAssumption DEF Location, Bit
<1>2. IsFiniteSet(Location) /\ Cardinality(Location) = Locations
  <2>1. 0 \in Int /\ Locations - 1 \in Int /\ ~ (0 > Locations - 1) /\ (Locations - 1) - 0 + 1 = Locations
    BY <1>1
  <2> QED BY <2>1, FS_Interval DEF Location
<1>3. ASSUME NEW S PROVE IsFiniteSet(S \cap Location) /\ Cardinality(S \cap Location) \in 0 .. Locations
  <2>1. S \cap Location \in SUBSET Location
    OBVIOUS
  <2>2. IsFiniteSet(S \cap Location) /\ Cardinality(S \cap Location) <= Locations
    BY <1>2, <2>1, FS_Subset
  <2>3. Cardinality(S \cap Location) \in Nat
    BY <2>2, FS_CardinalityType
  <2> QED BY <1>1, <2>2, <2>3
<1> QED BY <1>1, <1>2, <1>3

(* A bit search finds a location if a location is free: it looks at the    *)
(* bits that stand for no location last.                                   *)
LEMMA FirstFacts ==
  ASSUME NEW S \in SUBSET Bit, S \cap Location # {}
  PROVE  First(S) \in S \cap Location
<1> DEFINE i == First(S)
<1>1. \E k \in S : \A j \in S : k <= j
  BY LeastExists, LocationsAssumption DEF Bit
<1>2. i \in S /\ \A j \in S : i <= j
  BY <1>1 DEF First
<1> HIDE DEF i
<1>3. PICK l \in S \cap Location : i <= l
  BY <1>2
<1>4. i \in Nat /\ l \in 0 .. Locations - 1
  BY <1>2, LocationsAssumption DEF Bit, Location
<1>5. i \in Location
  BY <1>3, <1>4, LocationsAssumption DEF Location
<1> QED BY <1>2, <1>5 DEF i

(***************************************************************************)
(* GetPrivateLocation, of a bitmap whose free locations are counted, takes *)
(* one of them, or none if there is none.                                  *)
(***************************************************************************)
LEMMA TakenFacts ==
  ASSUME NEW bitmap \in SUBSET Bit, NEW free, free = Cardinality(bitmap \cap Location),
         GetPrivateLocation(bitmap, free)
  PROVE  \E taken \in SUBSET (bitmap \cap Location) :
           /\ PrivateBitmap' = bitmap \ taken /\ live' = live \cup taken
           /\ PrivateFree' = Cardinality(PrivateBitmap' \cap Location)
<1>1. CASE free = 0
  <2>1. PrivateBitmap' = bitmap /\ PrivateFree' = free /\ live' = live
    BY <1>1 DEF GetPrivateLocation
  <2>2. {} \in SUBSET (bitmap \cap Location) /\ bitmap \ {} = bitmap /\ live \cup {} = live
    OBVIOUS
  <2> QED BY <2>1, <2>2
<1>2. CASE free # 0
  <2> DEFINE l == First(bitmap)
  <2>1. bitmap \cap Location # {}
    BY <1>2, FS_EmptySet
  <2>2. l \in bitmap \cap Location
    BY <2>1, FirstFacts
  <2>3. PrivateBitmap' = bitmap \ {l} /\ live' = live \cup {l} /\ PrivateFree' = free - 1
    BY <1>2 DEF GetPrivateLocation
  <2> HIDE DEF l
  <2>4. PrivateBitmap' \cap Location = (bitmap \cap Location) \ {l} /\ {l} \in SUBSET (bitmap \cap Location)
    BY <2>2, <2>3
  <2>5. Cardinality((bitmap \cap Location) \ {l}) = Cardinality(bitmap \cap Location) - 1
    BY <2>2, LocationFacts, FS_RemoveElement
  <2> QED BY <2>3, <2>4, <2>5
<1> QED BY <1>1, <1>2

(* The owner of a group that is full has all its locations.                *)
LEMMA FullFacts ==
  ASSUME Inv, ThreadId # NoThread, PrivateFree = Locations
  PROVE  Location \subseteq PrivateBitmap
<1>1. Cardinality(PrivateBitmap \cap Location) = Cardinality(Location)
  BY LocationFacts DEF Inv, PrivateCounted
<1>2. PrivateBitmap \cap Location \in SUBSET Location
  OBVIOUS
<1>3. PrivateBitmap \cap Location = Location
  BY <1>1, <1>2, LocationFacts, FS_Subset
<1> QED BY <1>3

-----------------------------------------------------------------------------
(* The invariant is inductive.                                             *)

LEMMA InitInv == Init => Inv
<1> SUFFICES ASSUME Init PROVE Inv
  OBVIOUS
<1>1. TypeOK
  BY LocationsAssumption DEF Init, TypeOK, Holder, Zero, BitmapHolder
<1>2. WordCounted
  BY FS_EmptySet DEF Init, WordCounted, Zero, BitmapHolder
<1>3. PlacesApart /\ PlacesCover /\ PrivateCounted /\ MergeSound /\ ListedOnce /\ BackUnused
  BY NoThreadAssumption DEF Init, PlacesApart, PlacesCover, PrivateCounted, MergeSound, ListedOnce, BackUnused,
     Freeing, Merging, Zero, BitmapHolder
<1> QED BY <1>1, <1>2, <1>3 DEF Inv

(* The swaps, in the protocol without the two defects.                     *)
LEMMA SwapFacts ==
  ASSUME ~ AllOnes, ~ Wide, TypeOK
  PROVE  /\ None = [Bitmap |-> {}, Count |-> 0] /\ None \in Holder
         /\ \A h : Swapped(h) = h /\ Found(h) = {h}
         /\ \A a, b \in Holder : Equal(a, b) <=> a = b
         /\ \A t \in Thread : SwapSucceeds(t) <=> PublicBitmap = test[t]
<1>1. None = [Bitmap |-> {}, Count |-> 0] /\ None \in Holder
  BY LocationsAssumption DEF None, BitmapHolder, Holder
<1>2. \A a, b \in Holder : Equal(a, b) <=> a = b
  BY DEF Equal, Holder
<1> QED BY <1>1, <1>2 DEF Swapped, Found, SwapSucceeds, TypeOK

(* A step of the owner between its calls: InitializeUnused gives it every  *)
(* location.                                                               *)
LEMMA InitializeUnusedInv ==
  ASSUME Inv, NEW t \in Thread, InitializeUnused(t)
  PROVE  Inv'
<1>1. /\ ThreadId = NoThread /\ ThreadId' = t /\ PrivateFree' = Locations /\ PrivateBitmap' = Bit
      /\ UNCHANGED <<PublicBitmap, listed, live, pc, test, location>>
  BY DEF InitializeUnused, threadVars
<1>2. live = {} /\ PublicBitmap.Bitmap = {} /\ \A u \in Thread : ~ Freeing(u) /\ ~ Merging(u)
  BY <1>1 DEF Inv, BackUnused, Freeing, Merging
<1>3. Bit \cap Location = Location /\ Location \subseteq Bit
  BY LocationFacts
<1>4. Cardinality(Bit \cap Location) = Locations /\ Locations \in 0 .. Locations
  BY <1>3, LocationFacts
<1>5. TypeOK'
  BY <1>1, <1>4 DEF Inv, TypeOK
<1>6. PlacesApart' /\ PlacesCover' /\ WordCounted' /\ MergeSound' /\ ListedOnce' /\ BackUnused'
  BY <1>1, <1>2, <1>3, NoThreadAssumption DEF Inv, PlacesApart, PlacesCover, WordCounted, MergeSound, ListedOnce,
     BackUnused, Freeing, Merging
<1>7. PrivateCounted'
  BY <1>1, <1>2, <1>4 DEF PrivateCounted
<1> QED BY <1>5, <1>6, <1>7 DEF Inv

LEMMA GetLocationInv ==
  ASSUME Inv, NEW t \in Thread, GetLocation(t)
  PROVE  Inv'
<1>1. /\ ThreadId = t /\ ThreadId # NoThread /\ pc[t] = "idle"
      /\ UNCHANGED <<ThreadId, PublicBitmap, listed, pc, test, location>>
  BY NoThreadAssumption DEF GetLocation, threadVars
<1>2. PrivateFree = Cardinality(PrivateBitmap \cap Location) /\ PrivateBitmap \in SUBSET Bit
  BY <1>1 DEF Inv, PrivateCounted, TypeOK
<1>3. PICK taken \in SUBSET (PrivateBitmap \cap Location) :
        /\ PrivateBitmap' = PrivateBitmap \ taken /\ live' = live \cup taken
        /\ PrivateFree' = Cardinality(PrivateBitmap' \cap Location)
  BY <1>2, TakenFacts DEF GetLocation
<1>4. TypeOK'
  <2>1. PrivateFree' \in 0 .. Locations
    BY <1>3, LocationFacts
  <2> QED BY <1>1, <1>3, <2>1 DEF Inv, TypeOK
<1>5. PlacesApart'
  BY <1>1, <1>3 DEF Inv, PlacesApart, PrivateCounted, Freeing
<1>6. PlacesCover'
  BY <1>1, <1>3 DEF Inv, PlacesCover, Freeing
<1>7. WordCounted' /\ PrivateCounted'
  BY <1>1, <1>3 DEF Inv, WordCounted, PrivateCounted
<1>8. MergeSound' /\ ListedOnce' /\ BackUnused'
  BY <1>1 DEF Inv, MergeSound, ListedOnce, BackUnused, Merging
<1> QED BY <1>4, <1>5, <1>6, <1>7, <1>8 DEF Inv

(***************************************************************************)
(* The owner begins to merge, if the group it took from the public list    *)
(* has public locations; it always has.                                    *)
(***************************************************************************)
LEMMA GetPublicLocationInv ==
  ASSUME ~ AllOnes, ~ Wide, Inv, NEW t \in Thread, GetPublicLocation(t)
  PROVE  Inv'
<1>1. /\ ThreadId = t /\ ThreadId # NoThread /\ pc[t] = "idle" /\ PrivateFree = 0 /\ listed' = listed - 1
      /\ listed > 0 /\ UNCHANGED <<ThreadId, PrivateFree, PrivateBitmap, PublicBitmap, live>>
  BY NoThreadAssumption DEF GetPublicLocation, ownerVars
<1>2. /\ pc \in [Thread -> {"idle", "MergeBitmaps", "ReturnPublicLocation"}]
      /\ test \in [Thread -> Holder] /\ location \in [Thread -> 0 .. Locations] /\ PublicBitmap \in Holder
  BY DEF Inv, TypeOK
<1>3. PublicBitmap.Bitmap # {} /\ listed' = 0 /\ \A u \in Thread : ~ Merging(u)
  BY <1>1 DEF Inv, ListedOnce
<1>4. ~ Equal(PublicBitmap, None)
  BY <1>3, SwapFacts DEF Inv, Equal
<1>5. /\ pc' = [pc EXCEPT ![t] = "MergeBitmaps"] /\ test' = [test EXCEPT ![t] = PublicBitmap]
      /\ location' = [location EXCEPT ![t] = Locations]
  BY <1>4 DEF GetPublicLocation, Enter
<1>6. /\ pc'[t] = "MergeBitmaps" /\ \A u \in Thread \ {t} : pc'[u] = pc[u] /\ location'[u] = location[u]
      /\ \A u \in Thread : (Freeing(u)' <=> Freeing(u)) /\ (Merging(u)' <=> u = t) /\ (Freeing(u) => u # t)
  BY <1>1, <1>2, <1>3, <1>5 DEF Freeing, Merging
<1>7. TypeOK'
  <2>1. Locations \in 0 .. Locations /\ 0 \in Nat
    BY LocationsAssumption
  <2>2. /\ pc' \in [Thread -> {"idle", "MergeBitmaps", "ReturnPublicLocation"}]
        /\ test' \in [Thread -> Holder] /\ location' \in [Thread -> 0 .. Locations]
    BY <1>2, <1>5, <2>1
  <2> QED BY <1>1, <1>3, <2>1, <2>2 DEF Inv, TypeOK
<1>8. PlacesApart' /\ PlacesCover'
  BY <1>1, <1>6 DEF Inv, PlacesApart, PlacesCover
<1>9. WordCounted' /\ PrivateCounted' /\ MergeSound' /\ ListedOnce' /\ BackUnused'
  BY <1>1, <1>3, <1>6 DEF Inv, WordCounted, PrivateCounted, MergeSound, ListedOnce, BackUnused
<1> QED BY <1>7, <1>8, <1>9 DEF Inv

(***************************************************************************)
(* The swap of the owner: the public locations become its own, and their   *)
(* number is what is added.                                                *)
(***************************************************************************)
LEMMA MergeBitmapsInv ==
  ASSUME ~ AllOnes, ~ Wide, Inv, NEW t \in Thread, MergeBitmaps(t)
  PROVE  Inv'
<1> DEFINE merged == PrivateBitmap \cup PublicBitmap.Bitmap
<1>1. /\ Merging(t) /\ ThreadId = t /\ ThreadId # NoThread /\ PrivateFree = 0 /\ test[t] = PublicBitmap
      /\ PublicBitmap' = None /\ None = [Bitmap |-> {}, Count |-> 0] /\ None \in Holder
      /\ GetPrivateLocation(merged, PrivateFree + PublicBitmap.Count)
      /\ pc' = [pc EXCEPT ![t] = "idle"] /\ test' = [test EXCEPT ![t] = Zero]
      /\ location' = [location EXCEPT ![t] = Locations]
      /\ UNCHANGED <<ThreadId, listed>>
  BY SwapFacts, NoThreadAssumption DEF MergeBitmaps, Leave, Inv, MergeSound, Merging
<1>2. /\ pc \in [Thread -> {"idle", "MergeBitmaps", "ReturnPublicLocation"}]
      /\ test \in [Thread -> Holder] /\ location \in [Thread -> 0 .. Locations]
      /\ PublicBitmap.Bitmap \subseteq Location /\ PrivateBitmap \subseteq Bit /\ Location \subseteq Bit
      /\ PublicBitmap.Count = Cardinality(PublicBitmap.Bitmap) /\ PublicBitmap.Count \in Nat
  BY LocationFacts DEF Inv, TypeOK, WordCounted, Holder
<1>3. merged \cap Location = PublicBitmap.Bitmap /\ merged \in SUBSET Bit
  <2>1. Cardinality(PrivateBitmap \cap Location) = 0
    BY <1>1 DEF Inv, PrivateCounted
  <2>2. PrivateBitmap \cap Location = {}
    BY <2>1, LocationFacts, FS_EmptySet
  <2> QED BY <1>2, <2>2
<1>4. PrivateFree + PublicBitmap.Count = Cardinality(merged \cap Location)
  <2>1. PrivateFree + PublicBitmap.Count = PublicBitmap.Count
    BY <1>1, <1>2
  <2>2. Cardinality(merged \cap Location) = Cardinality(PublicBitmap.Bitmap)
    BY <1>3
  <2> QED BY <1>2, <2>1, <2>2
<1> HIDE DEF merged
<1>5. PICK taken \in SUBSET (merged \cap Location) :
        /\ PrivateBitmap' = merged \ taken /\ live' = live \cup taken
        /\ PrivateFree' = Cardinality(PrivateBitmap' \cap Location)
  BY <1>1, <1>3, <1>4, TakenFacts
<1>6. /\ pc'[t] = "idle" /\ \A u \in Thread \ {t} : pc'[u] = pc[u] /\ location'[u] = location[u]
      /\ \A u \in Thread : /\ Freeing(u)' <=> Freeing(u)
                           /\ ~ Merging(u)'
                           /\ Freeing(u) => u # t /\ location'[u] = location[u]
      /\ listed = 0
  <2>1. \A u \in Thread : Merging(u) => u = t
    BY <1>1 DEF Inv, MergeSound
  <2>2. listed = 0
    BY <1>1 DEF Inv, ListedOnce
  <2> QED BY <1>1, <1>2, <2>1, <2>2 DEF Freeing, Merging
<1>7. TypeOK'
  <2>1. Locations \in 0 .. Locations /\ 0 \in 0 .. Locations /\ Zero \in Holder
    BY LocationsAssumption DEF Zero, BitmapHolder, Holder
  <2>2. /\ pc' \in [Thread -> {"idle", "MergeBitmaps", "ReturnPublicLocation"}]
        /\ test' \in [Thread -> Holder] /\ location' \in [Thread -> 0 .. Locations]
    BY <1>1, <1>2, <2>1
  <2>3. PrivateFree' \in 0 .. Locations
    BY <1>5, LocationFacts
  <2> QED BY <1>1, <1>3, <1>5, <2>2, <2>3 DEF Inv, TypeOK
<1>8. PublicBitmap'.Bitmap = {} /\ PublicBitmap'.Count = 0
  BY <1>1
<1>9. PlacesApart'
  BY <1>1, <1>3, <1>5, <1>6, <1>8 DEF Inv, PlacesApart, PrivateCounted, merged
<1>10. PlacesCover'
  BY <1>1, <1>5, <1>6, <1>8 DEF Inv, PlacesCover, merged
<1>11. WordCounted' /\ PrivateCounted' /\ MergeSound' /\ ListedOnce' /\ BackUnused'
  BY <1>1, <1>5, <1>6, <1>8, FS_EmptySet
     DEF Inv, WordCounted, PrivateCounted, MergeSound, ListedOnce, BackUnused
<1> QED BY <1>7, <1>9, <1>10, <1>11 DEF Inv

LEMMA ReturnPrivateLocationInv ==
  ASSUME Inv, NEW t \in Thread, ReturnPrivateLocation(t)
  PROVE  Inv'
<1>1. PICK l \in live :
        /\ ThreadId = t /\ ThreadId # NoThread /\ pc[t] = "idle"
        /\ PrivateBitmap' = PrivateBitmap \cup {l} /\ PrivateFree' = PrivateFree + 1
        /\ live' = live \ {l}
        /\ UNCHANGED <<ThreadId, PublicBitmap, listed, pc, test, location>>
  BY NoThreadAssumption DEF ReturnPrivateLocation, threadVars
<1>2. /\ l \in Location /\ l \notin PrivateBitmap /\ l \notin PublicBitmap.Bitmap /\ l \in Bit
      /\ live \subseteq Location /\ PrivateBitmap \subseteq Bit
      /\ \A u \in Thread : Freeing(u) => location[u] # l
  BY <1>1, LocationFacts DEF Inv, PlacesApart, TypeOK
<1>3. PrivateFree' = Cardinality(PrivateBitmap' \cap Location) /\ PrivateFree' \in 0 .. Locations
  <2>1. PrivateBitmap' \cap Location = (PrivateBitmap \cap Location) \cup {l}
    BY <1>1, <1>2
  <2>2. Cardinality((PrivateBitmap \cap Location) \cup {l}) = Cardinality(PrivateBitmap \cap Location) + 1
    BY <1>2, LocationFacts, FS_AddElement
  <2>3. PrivateFree' = Cardinality(PrivateBitmap' \cap Location)
    BY <1>1, <2>1, <2>2 DEF Inv, PrivateCounted
  <2> QED BY <2>3, LocationFacts
<1>4. TypeOK'
  BY <1>1, <1>2, <1>3 DEF Inv, TypeOK
<1>5. PlacesApart' /\ PlacesCover'
  BY <1>1, <1>2 DEF Inv, PlacesApart, PlacesCover, Freeing
<1>6. WordCounted' /\ PrivateCounted' /\ MergeSound' /\ ListedOnce' /\ BackUnused'
  BY <1>1, <1>2, <1>3 DEF Inv, WordCounted, PrivateCounted, MergeSound, ListedOnce, BackUnused, Merging
<1> QED BY <1>4, <1>5, <1>6 DEF Inv

(* All locations are free with the owner, so none is anywhere else.        *)
LEMMA GiveBackInv ==
  ASSUME ~ AllOnes, ~ Wide, Inv, NEW t \in Thread, GiveBack(t)
  PROVE  Inv'
<1>1. /\ ThreadId = t /\ ThreadId # NoThread /\ pc[t] = "idle" /\ ThreadId' = NoThread
      /\ PrivateFree = Locations /\ PublicBitmap.Bitmap = {}
      /\ UNCHANGED <<PrivateFree, PrivateBitmap, PublicBitmap, listed, live, pc, test, location>>
  BY SwapFacts, NoThreadAssumption DEF GiveBack, IsFull, threadVars, Inv, TypeOK
<1>2. Location \subseteq PrivateBitmap
  BY <1>1, FullFacts
<1>3. live = {} /\ \A u \in Thread : ~ Freeing(u) /\ ~ Merging(u)
  BY <1>1, <1>2 DEF Inv, PlacesApart, MergeSound
<1>4. \A u \in Thread : pc[u] = "idle"
  BY <1>3 DEF Freeing, Merging, Inv, TypeOK
<1>5. TypeOK'
  BY <1>1 DEF Inv, TypeOK
<1>6. PlacesApart' /\ PlacesCover' /\ WordCounted' /\ PrivateCounted' /\ MergeSound' /\ ListedOnce' /\ BackUnused'
  BY <1>1, <1>3, <1>4 DEF Inv, PlacesApart, PlacesCover, WordCounted, PrivateCounted, MergeSound, ListedOnce,
     BackUnused, Freeing, Merging
<1> QED BY <1>5, <1>6 DEF Inv

(***************************************************************************)
(* Another thread takes a location from its client, and reads the word.    *)
(***************************************************************************)
LEMMA ReturnPublicLocationInv ==
  ASSUME Inv, NEW t \in Thread, ReturnPublicLocation(t)
  PROVE  Inv'
<1>1. PICK l \in live :
        /\ ThreadId # NoThread /\ pc[t] = "idle" /\ live' = live \ {l}
        /\ pc' = [pc EXCEPT ![t] = "ReturnPublicLocation"]
        /\ test' = [test EXCEPT ![t] = PublicBitmap] /\ location' = [location EXCEPT ![t] = l]
        /\ UNCHANGED <<ThreadId, PrivateFree, PrivateBitmap, PublicBitmap, listed>>
  BY DEF ReturnPublicLocation, Enter, ownerVars
<1>2. /\ pc \in [Thread -> {"idle", "MergeBitmaps", "ReturnPublicLocation"}]
      /\ test \in [Thread -> Holder] /\ location \in [Thread -> 0 .. Locations] /\ PublicBitmap \in Holder
  BY DEF Inv, TypeOK
<1>3. /\ l \in Location /\ l \notin PrivateBitmap \cup PublicBitmap.Bitmap /\ l \in 0 .. Locations
      /\ live \subseteq Location
      /\ \A u \in Thread : Freeing(u) => location[u] # l
  BY <1>1, LocationsAssumption DEF Inv, PlacesApart, Location
<1>4. /\ location'[t] = l /\ \A u \in Thread \ {t} : location'[u] = location[u]
      /\ \A u \in Thread : /\ Freeing(u)' <=> Freeing(u) \/ u = t
                           /\ Merging(u)' <=> Merging(u)
                           /\ Freeing(u) => u # t
      /\ \A u \in Thread \ {t} : pc'[u] = pc[u]
  BY <1>1, <1>2 DEF Freeing, Merging
<1>5. TypeOK'
  <2>1. /\ pc' \in [Thread -> {"idle", "MergeBitmaps", "ReturnPublicLocation"}]
        /\ test' \in [Thread -> Holder] /\ location' \in [Thread -> 0 .. Locations]
    BY <1>1, <1>2, <1>3
  <2> QED BY <1>1, <2>1 DEF Inv, TypeOK
<1>6. PlacesApart' /\ PlacesCover'
  <2>1. PlacesApart'
    <3>1. live' \subseteq Location /\ live' \cap (PrivateBitmap \cup PublicBitmap.Bitmap) = {}
      BY <1>1, <1>3 DEF Inv, PlacesApart
    <3>2. ASSUME NEW u \in Thread, Freeing(u)'
          PROVE  /\ location'[u] \in Location \ (live' \cup PrivateBitmap \cup PublicBitmap.Bitmap)
                 /\ \A v \in Thread : Freeing(v)' /\ location'[v] = location'[u] => v = u
      BY <1>1, <1>3, <1>4, <3>2 DEF Inv, PlacesApart
    <3> QED BY <1>1, <3>1, <3>2 DEF PlacesApart
  <2>2. ASSUME NEW k \in Location
        PROVE  \/ k \in live' \cup PrivateBitmap \cup PublicBitmap.Bitmap
               \/ \E u \in Thread : Freeing(u)' /\ location'[u] = k
    <3>1. CASE k = l
      BY <1>4, <3>1
    <3>2. CASE k # l
      BY <1>1, <1>4, <3>2 DEF Inv, PlacesCover
    <3> QED BY <3>1, <3>2
  <2>3. PlacesCover'
    BY <1>1, <2>2 DEF PlacesCover
  <2> QED BY <2>1, <2>3
<1>7. WordCounted' /\ PrivateCounted' /\ MergeSound' /\ ListedOnce' /\ BackUnused'
  BY <1>1, <1>4 DEF Inv, WordCounted, PrivateCounted, MergeSound, ListedOnce, BackUnused
<1> QED BY <1>5, <1>6, <1>7 DEF Inv

(***************************************************************************)
(* Its swap: the bit was not set, so one bit more is one location more,    *)
(* and the first one of all, unless it is being merged, lists the group.   *)
(***************************************************************************)
LEMMA PushLocationInv ==
  ASSUME ~ AllOnes, ~ Wide, Inv, NEW t \in Thread, PushLocation(t)
  PROVE  Inv'
<1> DEFINE b == PublicBitmap.Bitmap
           n == PublicBitmap.Count
<1>0. /\ pc \in [Thread -> {"idle", "MergeBitmaps", "ReturnPublicLocation"}]
      /\ test \in [Thread -> Holder] /\ location \in [Thread -> 0 .. Locations] /\ PublicBitmap \in Holder
      /\ listed \in Nat
  BY DEF Inv, TypeOK
<1>1. PICK l \in Location : /\ l = location[t] /\ l \notin live \cup PrivateBitmap \cup b
                            /\ \A u \in Thread : Freeing(u) /\ location[u] = l => u = t
  BY DEF PushLocation, Inv, PlacesApart, Freeing
<1>2. /\ Freeing(t) /\ ThreadId # NoThread
      /\ PublicBitmap' = [Bitmap |-> b \cup {l}, Count |-> n + 1]
      /\ listed' = listed + (IF n + 1 = 1 THEN 1 ELSE 0)
      /\ pc' = [pc EXCEPT ![t] = "idle"] /\ test' = [test EXCEPT ![t] = Zero]
      /\ location' = [location EXCEPT ![t] = Locations]
      /\ UNCHANGED <<ThreadId, PrivateFree, PrivateBitmap, live>>
  <2>1. test[t] = PublicBitmap /\ pc[t] = "ReturnPublicLocation"
    BY SwapFacts DEF PushLocation, Inv
  <2>2. ThreadId # NoThread
    BY <2>1 DEF Inv, BackUnused
  <2> QED BY <1>1, <2>1, <2>2, SwapFacts DEF PushLocation, Leave, ownerVars, Freeing, BitmapHolder, Inv
<1>3. /\ b \subseteq Location /\ IsFiniteSet(b) /\ n = Cardinality(b) /\ n \in Nat
      /\ b \cup {l} \subseteq Location /\ n + 1 = Cardinality(b \cup {l}) /\ n + 1 \in 0 .. Locations
  <2>1. b \subseteq Location /\ n = Cardinality(b) /\ b \cap Location = b /\ b \cup {l} \subseteq Location
        /\ (b \cup {l}) \cap Location = b \cup {l}
    BY DEF Inv, WordCounted
  <2>2. IsFiniteSet(b) /\ n \in Nat /\ Cardinality(b \cup {l}) \in 0 .. Locations
    BY <2>1, LocationFacts
  <2>3. Cardinality(b \cup {l}) = n + 1
    BY <1>1, <2>1, <2>2, FS_AddElement
  <2> QED BY <2>1, <2>2, <2>3
<1>4. n = 0 <=> b = {}
  BY <1>3, FS_EmptySet
<1> HIDE DEF b, n
<1>5. PublicBitmap'.Bitmap = b \cup {l} /\ PublicBitmap'.Count = n + 1
  BY <1>2
<1>6. /\ \A u \in Thread \ {t} : location'[u] = location[u] /\ pc'[u] = pc[u]
      /\ \A u \in Thread : /\ Freeing(u)' <=> Freeing(u) /\ u # t
                           /\ Merging(u)' <=> Merging(u)
  BY <1>0, <1>2 DEF Freeing, Merging
<1>7. \A u \in Thread : Merging(u) => b # {}
  BY DEF Inv, MergeSound, b
<1>8. listed' = IF \E u \in Thread : Merging(u) THEN 0 ELSE 1
  <2>1. listed = IF b = {} \/ \E u \in Thread : Merging(u) THEN 0 ELSE 1
    BY DEF Inv, ListedOnce, b
  <2>2. n + 1 = 1 <=> b = {}
    BY <1>3, <1>4
  <2>3. CASE b = {}
    BY <1>2, <1>7, <2>1, <2>2, <2>3
  <2>4. CASE b # {}
    BY <1>0, <1>2, <2>1, <2>2, <2>4
  <2> QED BY <2>3, <2>4
<1>9. TypeOK'
  <2>1. Locations \in 0 .. Locations /\ 0 \in 0 .. Locations /\ Zero \in Holder
    BY LocationsAssumption DEF Zero, BitmapHolder, Holder
  <2>2. /\ pc' \in [Thread -> {"idle", "MergeBitmaps", "ReturnPublicLocation"}]
        /\ test' \in [Thread -> Holder] /\ location' \in [Thread -> 0 .. Locations]
    BY <1>0, <1>2, <2>1
  <2>3. PublicBitmap' \in Holder
    BY <1>2, <1>3, LocationFacts DEF Holder
  <2> QED BY <1>2, <1>8, <2>2, <2>3 DEF Inv, TypeOK
<1>10. PlacesApart'
  BY <1>1, <1>2, <1>5, <1>6 DEF Inv, PlacesApart, b
<1>11. PlacesCover'
  BY <1>1, <1>2, <1>5, <1>6 DEF Inv, PlacesCover, b
<1>12. WordCounted' /\ PrivateCounted'
  BY <1>1, <1>2, <1>3, <1>5 DEF Inv, WordCounted, PrivateCounted, b
<1>13. MergeSound' /\ ListedOnce' /\ BackUnused'
  BY <1>2, <1>5, <1>6, <1>8 DEF Inv, MergeSound, ListedOnce, BackUnused
<1> QED BY <1>9, <1>10, <1>11, <1>12, <1>13 DEF Inv

LEMMA NextInv ==
  ASSUME ~ AllOnes, ~ Wide, Inv, [Next]_vars
  PROVE  Inv'
<1>1. ASSUME UNCHANGED <<ThreadId, PrivateFree, PrivateBitmap, PublicBitmap, listed, live, pc, location>>,
             test' \in [Thread -> Holder]
      PROVE  Inv'
  BY <1>1 DEF Inv, TypeOK, PlacesApart, PlacesCover, WordCounted, PrivateCounted, MergeSound, ListedOnce,
     BackUnused, Freeing, Merging
<1>2. ASSUME NEW t \in Thread, SwapFails(t) PROVE Inv'
  <2>1. test' = [test EXCEPT ![t] = PublicBitmap] /\ PublicBitmap \in Holder /\ test \in [Thread -> Holder]
    <3>1. Found(PublicBitmap) = {PublicBitmap}
      BY SwapFacts DEF Inv
    <3> QED BY <1>2, <3>1 DEF SwapFails, Retry, Inv, TypeOK
  <2> QED BY <1>1, <1>2, <2>1 DEF SwapFails, Retry, ownerVars
<1>3. CASE UNCHANGED vars
  BY <1>1, <1>3 DEF vars, ownerVars, threadVars, Inv, TypeOK
<1>4. CASE Next
  BY <1>2, <1>4, InitializeUnusedInv, GetLocationInv, GetPublicLocationInv, MergeBitmapsInv,
     ReturnPrivateLocationInv, GiveBackInv, ReturnPublicLocationInv, PushLocationInv DEF Next
<1> QED BY <1>3, <1>4

-----------------------------------------------------------------------------
(* The theorems.                                                           *)

(***************************************************************************)
(* The inductive invariant: where each location is and who counts it, for  *)
(* any number of threads and locations.                                    *)
(***************************************************************************)
THEOREM InvCorrect ==
  ASSUME ~ AllOnes, ~ Wide PROVE Spec => []Inv
<1>1. Inv /\ [Next]_vars => Inv'
  BY NextInv
<1> QED BY InitInv, <1>1, PTL DEF Spec

(* The public bitmap is empty when its number is zero.                     *)
LEMMA PublicFacts ==
  ASSUME Inv PROVE Public = PublicBitmap.Bitmap
<1>1. PublicBitmap.Bitmap = PublicBitmap.Bitmap \cap Location
  BY DEF Inv, WordCounted
<1>2. IsFiniteSet(PublicBitmap.Bitmap)
  BY <1>1, LocationFacts
<1> QED BY <1>2, FS_EmptySet DEF Public, Inv, WordCounted

(***************************************************************************)
(* A location that a client has, or a thread is giving back, is not free   *)
(* in a bitmap: nobody can hand it out a second time.                      *)
(***************************************************************************)
THEOREM ExclusiveCorrect ==
  ASSUME ~ AllOnes, ~ Wide PROVE Spec => []LocationsExclusive
<1>1. Inv => LocationsExclusive
  BY PublicFacts DEF Inv, PlacesApart, LocationsExclusive, InFlight, Freeing
<1> QED BY InvCorrect, <1>1, PTL

(***************************************************************************)
(* PrivateFree counts the free locations of the private bitmap, which has  *)
(* bits that stand for none, and to which merges add what others counted.  *)
(***************************************************************************)
THEOREM CountCorrect ==
  ASSUME ~ AllOnes, ~ Wide PROVE Spec => []FreeCounted
<1>1. Inv => FreeCounted
  BY DEF Inv, PrivateCounted, FreeCounted
<1> QED BY InvCorrect, <1>1, PTL

(***************************************************************************)
(* No location is forgotten, and the group is in the public list exactly   *)
(* while it has public locations that nobody merges.                       *)
(***************************************************************************)
THEOREM KnownCorrect ==
  ASSUME ~ AllOnes, ~ Wide PROVE Spec => []LocationsKnown
<1>1. Inv => LocationsKnown
  <2> SUFFICES ASSUME Inv PROVE LocationsKnown
    OBVIOUS
  <2>1. Public = PublicBitmap.Bitmap
    BY PublicFacts
  <2>2. ThreadId # NoThread => Location \subseteq live \cup InFlight \cup PrivateBitmap \cup Public
    BY <2>1 DEF Inv, PlacesCover, InFlight, Freeing
  <2>3. listed <= 1 /\ (Public # {} => listed = 1 \/ \E t \in Thread : pc[t] = "MergeBitmaps")
    BY <2>1 DEF Inv, ListedOnce, Merging
  <2> QED BY <2>2, <2>3 DEF LocationsKnown
<1> QED BY InvCorrect, <1>1, PTL

(***************************************************************************)
(* A group in the block has no location in use or on its way, and one with *)
(* all locations free with its owner counts as full.                       *)
(***************************************************************************)
THEOREM GivenBackCorrect ==
  ASSUME ~ AllOnes, ~ Wide PROVE Spec => []GivenBackUnused
<1>1. ASSUME Inv, ~ AllOnes, ~ Wide PROVE GivenBackUnused
  <2>1. ThreadId = NoThread => live = {} /\ InFlight = {} /\ listed = 0
    BY <1>1 DEF Inv, BackUnused, ListedOnce, InFlight
  <2>2. ASSUME ThreadId # NoThread, PrivateFree = Locations PROVE IsFull
    <3>1. Location \subseteq PrivateBitmap
      BY <1>1, <2>2, FullFacts
    <3>2. PublicBitmap.Bitmap = {}
      BY <1>1, <2>2, <3>1 DEF Inv, PrivateCounted, WordCounted
    <3>3. PublicBitmap.Count = 0
      BY <1>1, <3>2, FS_EmptySet DEF Inv, WordCounted
    <3>4. None.Bitmap = {} /\ None.Count = 0
      BY <1>1, SwapFacts DEF Inv
    <3> QED BY <2>2, <3>2, <3>3, <3>4 DEF IsFull, Equal
  <2> QED BY <2>1, <2>2 DEF GivenBackUnused
<1> QED BY InvCorrect, <1>1, PTL
=============================================================================
