---------------------------- MODULE GroupProofs ------------------------------
(***************************************************************************)
(* Proofs about module Group, for any number of threads and of locations.  *)
(* The invariants the runs check, taken together, are inductive: the lists *)
(* stay proper because no thread writes the first word of a location that  *)
(* is in a list (LocationsConserved), and LocationsConserved is preserved  *)
(* because the lists are proper.                                           *)
(***************************************************************************)
EXTENDS Group, ListProofs, FiniteSetTheorems

Inv ==
  /\ TypeOK
  /\ LocationsConserved
  /\ ListsProper
  /\ UsedCounted
  /\ GivenBackUnreferenced
  /\ CallsSound

USE LocationsAssumption, NoThreadAssumption, MarkerAssumption

-----------------------------------------------------------------------------
(* Facts about the sets the invariants speak of.                           *)

LEMMA PartitionFacts ==
  ASSUME NEW S, NEW A, NEW B, NEW C, NEW D, NEW E
  PROVE  IsPartition(<<A, B, C, D, E>>, S) <=>
           /\ A \cup B \cup C \cup D \cup E = S
           /\ A \cap B = {} /\ A \cap C = {} /\ A \cap D = {} /\ A \cap E = {}
           /\ B \cap C = {} /\ B \cap D = {} /\ B \cap E = {}
           /\ C \cap D = {} /\ C \cap E = {}
           /\ D \cap E = {}
<1> DEFINE P == <<A, B, C, D, E>>
<1>1. /\ DOMAIN P = {1, 2, 3, 4, 5}
      /\ P[1] = A /\ P[2] = B /\ P[3] = C /\ P[4] = D /\ P[5] = E
  OBVIOUS
<1>2. UNION {P[i] : i \in DOMAIN P} = A \cup B \cup C \cup D \cup E
  <2> HIDE DEF P
  <2>1. UNION {P[i] : i \in {1, 2, 3, 4, 5}} = P[1] \cup P[2] \cup P[3] \cup P[4] \cup P[5]
    OBVIOUS
  <2>2. QED
    BY <1>1, <2>1
<1>3. (\A i, j \in DOMAIN P : i # j => P[i] \cap P[j] = {}) <=>
           /\ A \cap B = {} /\ A \cap C = {} /\ A \cap D = {} /\ A \cap E = {}
           /\ B \cap C = {} /\ B \cap D = {} /\ B \cap E = {}
           /\ C \cap D = {} /\ C \cap E = {}
           /\ D \cap E = {}
  <2> HIDE DEF P
  <2>1. QED
    BY <1>1
<1>4. QED
  BY <1>2, <1>3 DEF IsPartition

LEMMA Counting ==
  ASSUME NEW S \in SUBSET Location
  PROVE  /\ IsFiniteSet(S)
         /\ Cardinality(S) \in 0 .. Locations
         /\ Cardinality(S) = 0 <=> S = {}
<1>1. IsFiniteSet(Location) /\ Cardinality(Location) = Locations
  BY FS_Interval DEF Location
<1>2. IsFiniteSet(S) /\ Cardinality(S) <= Locations
  BY <1>1, FS_Subset
<1>3. Cardinality(S) \in Nat
  BY <1>2, FS_CardinalityType
<1>4. QED
  BY <1>2, <1>3, FS_EmptySet

(* What the invariant says of the five places a location can be in.        *)
LEMMA Places ==
  ASSUME Inv
  PROVE  /\ LIST_END \notin Location /\ DOMAIN next = Location
         /\ Unallocated \subseteq Location /\ PrivateList \subseteq Location
         /\ PublicList \subseteq Location /\ live \subseteq Location
         /\ Freeing \subseteq Location
         /\ Unallocated \cup PrivateList \cup PublicList \cup live \cup Freeing = Location
         /\ Unallocated \cap PrivateList = {} /\ Unallocated \cap PublicList = {}
         /\ Unallocated \cap live = {} /\ Unallocated \cap Freeing = {}
         /\ PrivateList \cap PublicList = {} /\ PrivateList \cap live = {}
         /\ PrivateList \cap Freeing = {} /\ PublicList \cap live = {}
         /\ PublicList \cap Freeing = {} /\ live \cap Freeing = {}
<1>1. IsPartition(<<Unallocated, PrivateList, PublicList, live, Freeing>>, Location)
  BY DEF Inv, LocationsConserved
<1>2. LIST_END \notin Location /\ DOMAIN next = Location
  BY DEF Inv, TypeOK, Location
<1>3. QED
  BY <1>1, <1>2, PartitionFacts

(* A list is empty exactly when it has no first location.                  *)
LEMMA Heads ==
  ASSUME Inv
  PROVE  /\ PrivateStart \in Location => PrivateStart \in PrivateList
         /\ PrivateStart \notin Location => PrivateStart = LIST_END /\ PrivateList = {}
         /\ HasPublic => PublicStart.First \in PublicList
         /\ ~HasPublic => PublicList = {}
<1>1. /\ LIST_END \notin Location /\ DOMAIN next = Location
      /\ PrivateStart \in Location \cup {LIST_END}
      /\ PublicStart.First \in Location \cup {LIST_END}
      /\ PublicStart.Count = Cardinality(PublicList)
      /\ PublicList \in SUBSET Location
      /\ PublicStart = [Count |-> PublicStart.Count, First |-> PublicStart.First]
  BY Places DEF Inv, TypeOK, ListsProper, Link, ListHead
<1>2. PrivateStart \in Location => PrivateStart \in PrivateList
  BY <1>1, ReachClosed DEF PrivateList
<1>3. PrivateStart \notin Location => PrivateStart = LIST_END /\ PrivateList = {}
  BY <1>1, ReachNothing DEF PrivateList
<1>4. PublicStart.First \in Location => PublicStart.First \in PublicList
  BY <1>1, ReachClosed DEF PublicList
<1>5. PublicStart.First \notin Location => PublicList = {}
  BY <1>1, ReachNothing DEF PublicList
<1>6. HasPublic => PublicStart.First \in PublicList
  <2>1. SUFFICES ASSUME PublicStart.First \notin Location
                 PROVE  ~HasPublic
    BY <1>4
  <2>2. PublicStart.Count = 0 /\ PublicStart.First = LIST_END
    BY <1>1, <1>5, <2>1, Counting
  <2>3. QED
    BY <1>1, <2>2 DEF HasPublic, ListEnd
<1>7. ~HasPublic => PublicList = {}
  BY <1>1, <1>5 DEF HasPublic, ListEnd
<1>8. QED
  BY <1>2, <1>3, <1>6, <1>7

(* Conservation after a step, from the places after it.                    *)
LEMMA Conserved ==
  ASSUME (Unallocated \cup PrivateList \cup PublicList \cup live \cup Freeing)' = Location,
         (Unallocated \cap PrivateList)' = {}, (Unallocated \cap PublicList)' = {},
         (Unallocated \cap live)' = {}, (Unallocated \cap Freeing)' = {},
         (PrivateList \cap PublicList)' = {}, (PrivateList \cap live)' = {},
         (PrivateList \cap Freeing)' = {}, (PublicList \cap live)' = {},
         (PublicList \cap Freeing)' = {}, (live \cap Freeing)' = {},
         (\A t, u \in Thread :
            pc[t] \in Pushing /\ pc[u] \in Pushing /\ address[t] = address[u] => t = u)'
  PROVE  LocationsConserved'
<1>1. IsPartition(<<Unallocated', PrivateList', PublicList', live', Freeing'>>, Location)
  BY PartitionFacts
<1>2. QED
  BY <1>1 DEF LocationsConserved, Location

(* A step that writes outside both lists leaves them as they are.          *)
LEMMA ListsUntouched ==
  ASSUME Inv, DOMAIN next' = Location,
         UNCHANGED <<PrivateStart, PublicStart>>,
         \A m \in PrivateList \cup PublicList : next'[m] = next[m]
  PROVE  PrivateList' = PrivateList /\ PublicList' = PublicList /\ ListsProper'
<1>1. DOMAIN next = Location
  BY Places
<1>2. IsProperList(next, PrivateStart, LIST_END) /\ IsProperList(next, PublicStart.First, LIST_END)
  BY DEF Inv, ListsProper
<1>3. Reach(next', PrivateStart) = Reach(next, PrivateStart) /\ IsProperList(next', PrivateStart, LIST_END)
  <2>1. \A m \in Reach(next, PrivateStart) : next'[m] = next[m]
    BY DEF PrivateList
  <2>2. QED
    BY <1>1, <1>2, <2>1, ReachFrame, ProperFrame
<1>4. /\ Reach(next', PublicStart.First) = Reach(next, PublicStart.First)
      /\ IsProperList(next', PublicStart.First, LIST_END)
  <2>1. \A m \in Reach(next, PublicStart.First) : next'[m] = next[m]
    BY DEF PublicList
  <2>2. QED
    BY <1>1, <1>2, <2>1, ReachFrame, ProperFrame
<1>5. PrivateList' = PrivateList /\ PublicList' = PublicList
  BY <1>3, <1>4 DEF PrivateList, PublicList
<1>6. QED
  BY <1>3, <1>4, <1>5 DEF ListsProper, Inv

-----------------------------------------------------------------------------
(* The initial states.                                                     *)

LEMMA InitInv == Init => Inv
<1> SUFFICES ASSUME Init
             PROVE  Inv
  OBVIOUS
<1>1. TypeOK
  BY DEF Init, TypeOK, ListEnd, ListHead, Link, Location
<1>2. LIST_END \notin Location /\ DOMAIN next = Location
  BY DEF Init, Location
<1>3. /\ Unallocated = Location /\ PrivateList = {} /\ PublicList = {}
      /\ live = {} /\ Freeing = {}
  <2>1. Unallocated = Location /\ live = {}
    BY DEF Init, Unallocated, Location
  <2>2. PrivateList = {} /\ PublicList = {}
    BY <1>2, ReachNothing DEF Init, PrivateList, PublicList, ListEnd
  <2>3. Freeing = {}
    BY DEF Init, Freeing, Pushing
  <2>4. QED
    BY <2>1, <2>2, <2>3
<1>4. LocationsConserved
  <2>1. IsPartition(<<Location, {}, {}, {}, {}>>, Location)
    BY PartitionFacts
  <2>2. QED
    BY <1>3, <2>1 DEF LocationsConserved, Init, Pushing
<1>5. ListsProper
  BY <1>2, <1>3, Counting DEF Init, ListsProper, IsProperList, PrivateList, PublicList, ListEnd
<1>6. UsedCounted
  BY <1>3, FS_EmptySet DEF Init, UsedCounted
<1>7. GivenBackUnreferenced /\ CallsSound
  BY <1>3 DEF Init, GivenBackUnreferenced, CallsSound, Pushing, Copying
<1>8. QED
  BY <1>1, <1>4, <1>5, <1>6, <1>7 DEF Inv

-----------------------------------------------------------------------------
(* The steps of the owner.                                                 *)

LEMMA InitializeUnusedStep ==
  ASSUME Inv, NEW t \in Thread, InitializeUnused(t)
  PROVE  Inv' /\ Pool!Acquire(t)
<1>1. TypeOK'
  BY DEF Inv, InitializeUnused, TypeOK, ListEnd, ListHead, Link, Location, threadVars
<1>2. LIST_END \notin Location /\ DOMAIN next' = Location
  BY DEF InitializeUnused, Inv, TypeOK, Location
<1>3. /\ Unallocated' = Location /\ PrivateList' = {} /\ PublicList' = {}
      /\ live' = {} /\ Freeing' = {}
  <2>1. Unallocated' = Location
    BY DEF InitializeUnused, Unallocated, Location
  <2>2. PrivateList' = {} /\ PublicList' = {}
    BY <1>2, ReachNothing DEF InitializeUnused, PrivateList, PublicList, ListEnd
  <2>3. Freeing' = Freeing
    BY DEF InitializeUnused, Freeing, threadVars
  <2>4. live' = {} /\ Freeing = {}
    BY DEF InitializeUnused, Inv, GivenBackUnreferenced
  <2>5. QED
    BY <2>1, <2>2, <2>3, <2>4
<1>4. \A u \in Thread : pc[u] \notin Pushing \cup Copying
  <2>1. Freeing = {} /\ ThreadId = NoThread
    BY DEF InitializeUnused, Inv, GivenBackUnreferenced
  <2>2. QED
    BY <2>1 DEF Freeing, Inv, CallsSound
<1>5. pc' = pc
  BY DEF InitializeUnused, threadVars
<1>6. LocationsConserved'
  <2>1. \A v, u \in Thread :
          pc'[v] \in Pushing /\ pc'[u] \in Pushing /\ address'[v] = address'[u] => v = u
    BY <1>4, <1>5
  <2>2. QED
    BY <1>3, <2>1, Conserved
<1>7. ListsProper'
  BY <1>2, <1>3, Counting
  DEF InitializeUnused, ListsProper, IsProperList, PrivateList, PublicList, ListEnd
<1>8. UsedCounted'
  BY <1>3, FS_EmptySet DEF InitializeUnused, UsedCounted
<1>9. GivenBackUnreferenced' /\ CallsSound'
  BY <1>3, <1>4, <1>5 DEF GivenBackUnreferenced, CallsSound
<1>10. Pool!Acquire(t)
  <2>1. live = {} /\ Freeing = {} /\ PublicList = {} /\ Unallocated \cup PrivateList = Location
    BY Places DEF InitializeUnused, Inv, GivenBackUnreferenced
  <2>2. QED
    BY <1>3, <2>1 DEF InitializeUnused, Pool!Acquire
<1>11. QED
  BY <1>1, <1>6, <1>7, <1>8, <1>9, <1>10 DEF Inv

LEMMA GetNewLocationStep ==
  ASSUME Inv, NEW t \in Thread, GetNewLocation(t)
  PROVE  Inv' /\ Pool!Take(CurrentLocation)
<1> DEFINE l == CurrentLocation
<1>1. /\ l \in Location /\ l \in Unallocated
      /\ DOMAIN next' = Location
      /\ \A m \in Location \ {l} : next'[m] = next[m]
  BY DEF Inv, TypeOK, GetNewLocation, Location, Unallocated
<1>2. \A m \in PrivateList \cup PublicList : next'[m] = next[m]
  BY <1>1, Places
<1>3. PrivateList' = PrivateList /\ PublicList' = PublicList /\ ListsProper'
  BY <1>1, <1>2, ListsUntouched DEF GetNewLocation
<1>4. Unallocated' = Unallocated \ {l} /\ live' = live \cup {l} /\ Freeing' = Freeing
  BY DEF GetNewLocation, Inv, TypeOK, Unallocated, Freeing, threadVars
<1>5. LocationsConserved'
  <2>1. (\A v, u \in Thread :
           pc[v] \in Pushing /\ pc[u] \in Pushing /\ address[v] = address[u] => v = u)'
    BY DEF Inv, LocationsConserved, GetNewLocation, threadVars
  <2>2. QED
    BY <1>1, <1>3, <1>4, <2>1, Places, Conserved
<1>7. UsedCounted' /\ PrivateUsed' \in 0 .. Locations
  <2> DEFINE U == live \cup Freeing \cup PublicList
  <2>1. U \in SUBSET Location /\ l \notin U /\ U \cup {l} \in SUBSET Location
    BY <1>1, Places
  <2>2. Cardinality(U \cup {l}) = Cardinality(U) + 1 /\ Cardinality(U \cup {l}) \in 0 .. Locations
    BY <2>1, Counting, FS_AddElement
  <2>3. (live \cup Freeing \cup PublicList)' = U \cup {l}
    BY <1>3, <1>4
  <2>4. QED
    BY <2>2, <2>3 DEF UsedCounted, GetNewLocation, Inv
<1>8. TypeOK'
  BY <1>1, <1>7 DEF Inv, TypeOK, GetNewLocation, threadVars, Location
<1>9. GivenBackUnreferenced' /\ CallsSound'
  <2>1. ThreadId # NoThread /\ ThreadId' = ThreadId /\ \A u \in Thread : pc[u] \notin Copying
    BY DEF GetNewLocation, Inv, CallsSound, HasPrivate, TypeOK, Copying
  <2>2. QED
    BY <2>1 DEF GivenBackUnreferenced, CallsSound, GetNewLocation, Inv, threadVars
<1>10. Pool!Take(l)
  BY <1>1, <1>3, <1>4, Places DEF GetNewLocation, Pool!Take
<1>11. QED
  BY <1>3, <1>5, <1>7, <1>8, <1>9, <1>10 DEF Inv

LEMMA GetListLocationStep ==
  ASSUME Inv, NEW t \in Thread,
         pc[t] = "idle", ThreadId = t, CurrentLocation = Locations,
         PrivateStart # LIST_END, GetListLocation(PrivateStart, PrivateUsed),
         UNCHANGED <<ThreadId, CurrentLocation, PublicStart, threadVars>>
  PROVE  Inv' /\ Pool!Take(PrivateStart)
<1> DEFINE l == PrivateStart
<1>1. /\ l \in Location /\ l \in PrivateList
      /\ DOMAIN next' = Location
      /\ \A m \in Location \ {l} : next'[m] = next[m]
  BY Heads DEF Inv, TypeOK, GetListLocation, Link
<1>2. IsProperList(next, l, LIST_END) /\ IsProperList(next, PublicStart.First, LIST_END)
  BY DEF Inv, ListsProper
<1>3. /\ Reach(next, next[l]) = PrivateList \ {l}
      /\ IsProperList(next, next[l], LIST_END)
      /\ next[l] \in Link
  BY <1>1, <1>2, Places, PopFirst DEF PrivateList, Link
<1>4. /\ PrivateStart' = next[l]
      /\ \A m \in PublicList : next'[m] = next[m]
      /\ \A m \in Reach(next, next[l]) : next'[m] = next[m]
  BY <1>1, <1>3, Places DEF GetListLocation
<1>5. PrivateList' = PrivateList \ {l} /\ IsProperList(next', PrivateStart', LIST_END)
  BY <1>1, <1>3, <1>4, Places, ReachFrame, ProperFrame DEF PrivateList
<1>6. PublicList' = PublicList /\ IsProperList(next', PublicStart'.First, LIST_END)
  BY <1>1, <1>2, <1>4, Places, ReachFrame, ProperFrame DEF PublicList
<1>7. Unallocated' = Unallocated /\ live' = live \cup {l} /\ Freeing' = Freeing
  BY DEF GetListLocation, Unallocated, Freeing, threadVars
<1>8. LocationsConserved'
  <2>1. (\A v, u \in Thread :
           pc[v] \in Pushing /\ pc[u] \in Pushing /\ address[v] = address[u] => v = u)'
    BY DEF Inv, LocationsConserved, threadVars
  <2>2. QED
    BY <1>1, <1>5, <1>6, <1>7, <2>1, Places, Conserved
<1>9. ListsProper'
  BY <1>5, <1>6 DEF ListsProper, Inv
<1>10. UsedCounted' /\ PrivateUsed' \in 0 .. Locations
  <2> DEFINE U == live \cup Freeing \cup PublicList
  <2>1. U \in SUBSET Location /\ l \notin U /\ U \cup {l} \in SUBSET Location
    BY <1>1, Places
  <2>2. Cardinality(U \cup {l}) = Cardinality(U) + 1 /\ Cardinality(U \cup {l}) \in 0 .. Locations
    BY <2>1, Counting, FS_AddElement
  <2>3. (live \cup Freeing \cup PublicList)' = U \cup {l}
    BY <1>6, <1>7
  <2>4. QED
    BY <2>2, <2>3 DEF UsedCounted, GetListLocation, Inv
<1>11. TypeOK'
  BY <1>1, <1>3, <1>10 DEF Inv, TypeOK, GetListLocation, threadVars
<1>12. GivenBackUnreferenced' /\ CallsSound'
  <2>1. \A u \in Thread : pc[u] \notin Copying
    BY DEF Inv, CallsSound, HasPrivate, TypeOK, Copying
  <2>2. QED
    BY <2>1 DEF GivenBackUnreferenced, CallsSound, Inv, threadVars
<1>13. Pool!Take(l)
  BY <1>1, <1>5, <1>6, <1>7, Places DEF Pool!Take
<1>14. QED
  BY <1>8, <1>9, <1>10, <1>11, <1>12, <1>13 DEF Inv

LEMMA GetPublicLocationStep ==
  ASSUME Inv, NEW t \in Thread, GetPublicLocation(t)
  PROVE  Inv' /\ UNCHANGED Pool!vars
<1>1. /\ pc' = [pc EXCEPT ![t] = "copyCount"] /\ pc[t] = "idle"
      /\ UNCHANGED <<ownerVars, PublicStart, next, live, test, address>>
  BY DEF GetPublicLocation
<1>2. TypeOK'
  BY <1>1 DEF Inv, TypeOK, ownerVars, Copying
<1>3. PrivateList' = PrivateList /\ PublicList' = PublicList /\ ListsProper'
  BY <1>1, Places, ListsUntouched DEF ownerVars
<1>4. \A u \in Thread : pc'[u] \in Pushing <=> pc[u] \in Pushing
  BY <1>1 DEF Inv, TypeOK, Pushing
<1>5. Freeing' = Freeing
  BY <1>1, <1>4 DEF Freeing
<1>6. Unallocated' = Unallocated /\ live' = live
  BY <1>1 DEF Unallocated, ownerVars
<1>7. LocationsConserved'
  <2>1. \A v, u \in Thread :
          pc'[v] \in Pushing /\ pc'[u] \in Pushing /\ address'[v] = address'[u] => v = u
    BY <1>1, <1>4 DEF Inv, LocationsConserved
  <2>2. QED
    BY <1>3, <1>5, <1>6, <2>1, Places, Conserved
<1>8. UsedCounted' /\ GivenBackUnreferenced'
  BY <1>1, <1>3, <1>5 DEF Inv, UsedCounted, GivenBackUnreferenced, ownerVars
<1>9. CallsSound'
  <2>1. /\ ThreadId = t /\ HasPublic
        /\ CurrentLocation = Locations /\ PrivateStart = LIST_END
    BY LocationsAssumption DEF GetPublicLocation, HasPrivate, Inv, TypeOK
  <2>2. HasPublic' = HasPublic
    BY <1>1 DEF HasPublic, ownerVars
  <2>3. QED
    BY <1>1, <2>1, <2>2 DEF Inv, CallsSound, TypeOK, ownerVars, Pushing, Copying
<1>10. UNCHANGED Pool!vars
  BY <1>1, <1>3, <1>5, <1>6 DEF Pool!vars, ownerVars
<1>11. QED
  BY <1>2, <1>3, <1>7, <1>8, <1>9, <1>10 DEF Inv

LEMMA CopyFreeListsStep ==
  ASSUME Inv, NEW t \in Thread, CopyFreeLists(t)
  PROVE  Inv' /\ (Pool!Collect(PublicStart.First) \/ UNCHANGED Pool!vars)
<1>1. CASE SwapSucceeds(t)
  <2> DEFINE l == PublicStart.First
             n == PublicStart.Count
  <2>1. /\ ThreadId = t /\ HasPublic
        /\ CurrentLocation = Locations /\ PrivateStart = LIST_END
    BY DEF CopyFreeLists, Inv, CallsSound, Copying
  <2>2. /\ test[t] = PublicStart /\ PublicStart' = ListEnd
        /\ GetListLocation(l, PrivateUsed - n) /\ Return(t)
        /\ UNCHANGED <<ThreadId, CurrentLocation>>
    BY <1>1 DEF CopyFreeLists, SwapSucceeds
  <2>3. /\ l \in Location /\ l \in PublicList /\ PrivateList = {}
        /\ DOMAIN next' = Location
        /\ \A m \in Location \ {l} : next'[m] = next[m]
    BY <2>1, <2>2, Heads, Places DEF GetListLocation
  <2>4. IsProperList(next, l, LIST_END) /\ n = Cardinality(PublicList)
    BY DEF Inv, ListsProper
  <2>5. /\ Reach(next, next[l]) = PublicList \ {l}
        /\ IsProperList(next, next[l], LIST_END)
        /\ next[l] \in Link
    BY <2>3, <2>4, Places, PopFirst DEF PublicList, Link
  <2>6. PrivateStart' = next[l] /\ \A m \in Reach(next, next[l]) : next'[m] = next[m]
    BY <2>2, <2>3, <2>5, Places DEF GetListLocation
  <2>7. PrivateList' = PublicList \ {l} /\ IsProperList(next', PrivateStart', LIST_END)
    BY <2>3, <2>5, <2>6, Places, ReachFrame, ProperFrame DEF PrivateList
  <2>8. PublicList' = {} /\ IsProperList(next', PublicStart'.First, LIST_END)
    BY <2>2, <2>3, Places, ReachNothing DEF PublicList, ListEnd, IsProperList
  <2>9. \A u \in Thread : pc'[u] \in Pushing <=> pc[u] \in Pushing
    BY <2>2 DEF Return, CopyFreeLists, Inv, TypeOK, Pushing
  <2>10. \A u \in Thread : pc[u] \in Pushing => address'[u] = address[u]
    BY <2>2 DEF Return, CopyFreeLists, Inv, TypeOK, Pushing
  <2>11. Freeing' = Freeing
    BY <2>9, <2>10 DEF Freeing
  <2>12. Unallocated' = Unallocated /\ live' = live \cup {l}
    BY <2>2 DEF Unallocated, GetListLocation
  <2>13. LocationsConserved'
    <3>1. \A v, u \in Thread :
            pc'[v] \in Pushing /\ pc'[u] \in Pushing /\ address'[v] = address'[u] => v = u
      BY <2>9, <2>10 DEF Inv, LocationsConserved
    <3>2. QED
      BY <2>3, <2>7, <2>8, <2>11, <2>12, <3>1, Places, Conserved
  <2>14. ListsProper'
    BY <2>2, <2>7, <2>8, FS_EmptySet DEF ListsProper, ListEnd
  <2>15. UsedCounted' /\ PrivateUsed' \in 0 .. Locations
    <3> DEFINE U == live \cup Freeing \cup PublicList
               V == U \ PublicList
    <3>1. /\ U \in SUBSET Location /\ V \in SUBSET Location /\ l \notin V
          /\ V \cup {l} \in SUBSET Location /\ U \cap PublicList = PublicList
      BY <2>3, Places
    <3>2. Cardinality(V) = Cardinality(U) - Cardinality(PublicList)
      BY <3>1, Counting, FS_Difference
    <3>3. Cardinality(V \cup {l}) = Cardinality(V) + 1 /\ Cardinality(V \cup {l}) \in 0 .. Locations
      BY <3>1, Counting, FS_AddElement
    <3>4. (live \cup Freeing \cup PublicList)' = V \cup {l}
      BY <2>8, <2>11, <2>12, Places
    <3>5. PrivateUsed' = Cardinality(U) - Cardinality(PublicList) + 1
      BY <2>2, <2>4 DEF GetListLocation, Inv, UsedCounted
    <3>6. QED
      BY <3>2, <3>3, <3>4, <3>5 DEF UsedCounted
  <2>16. TypeOK'
    <3>1. next' \in [Location -> Link \cup {Data}] /\ live' \subseteq Location
      BY <2>2, <2>3 DEF GetListLocation, Inv, TypeOK
    <3>2. PublicStart' \in ListHead /\ ListEnd \in ListHead /\ LIST_END \in Link
      BY <2>2 DEF ListEnd, ListHead, Link
    <3>3. QED
      BY <2>2, <2>5, <2>6, <2>15, <3>1, <3>2 DEF Inv, TypeOK, Return
  <2>17. GivenBackUnreferenced'
    BY <2>1, <2>2 DEF GivenBackUnreferenced
  <2>18. CallsSound'
    <3>1. \A u \in Thread : pc'[u] \notin Copying
      BY <2>1, <2>2 DEF Inv, CallsSound, Return, TypeOK, Copying
    <3>2. QED
      BY <2>2, <2>9, <2>10, <3>1 DEF Inv, CallsSound
  <2>19. Pool!Collect(l)
    <3>1. Unallocated = {}
      BY <2>1 DEF Unallocated
    <3>2. QED
      BY <2>1, <2>2, <2>3, <2>7, <2>8, <2>11, <2>12, <3>1 DEF Pool!Collect
  <2>20. QED
    BY <2>13, <2>14, <2>15, <2>16, <2>17, <2>18, <2>19 DEF Inv
<1>2. CASE ~SwapSucceeds(t)
  <2>1. /\ TryAgain(t)
        /\ UNCHANGED <<ownerVars, PublicStart, next, live, pc, address>>
    BY <1>2 DEF CopyFreeLists
  <2>2. TypeOK'
    BY <2>1 DEF Inv, TypeOK, TryAgain, ownerVars
  <2>3. Inv'
    BY <2>1, <2>2 DEF Inv, LocationsConserved, ListsProper, UsedCounted,
       GivenBackUnreferenced, CallsSound, ownerVars, Unallocated, PrivateList,
       PublicList, Freeing, HasPrivate, HasPublic
  <2>4. UNCHANGED Pool!vars
    BY <2>1 DEF Pool!vars, ownerVars, Unallocated, PrivateList, PublicList, Freeing
  <2>5. QED
    BY <2>3, <2>4
<1>3. QED
  BY <1>1, <1>2

LEMMA ReturnPrivateLocationStep ==
  ASSUME Inv, NEW t \in Thread, NEW l \in Location, ReturnPrivateLocation(t, l)
  PROVE  Inv' /\ Pool!Put(l)
<1>1. /\ l \in live /\ live' = live \ {l}
      /\ DOMAIN next' = Location /\ next'[l] = PrivateStart
      /\ \A m \in Location \ {l} : next'[m] = next[m]
      /\ PrivateStart' = l /\ PrivateUsed' = PrivateUsed - 1
      /\ UNCHANGED <<CurrentLocation, PublicStart, threadVars>>
      /\ ThreadId = t
      /\ ThreadId' = t \/ (IsFull' /\ ThreadId' = NoThread)
  BY DEF ReturnPrivateLocation, Inv, TypeOK
<1>2. IsProperList(next, PrivateStart, LIST_END) /\ IsProperList(next, PublicStart.First, LIST_END)
  BY DEF Inv, ListsProper
<1>3. PrivateList' = PrivateList \cup {l} /\ IsProperList(next', PrivateStart', LIST_END)
  <2>1. l \notin Reach(next, PrivateStart)
    BY <1>1, Places DEF PrivateList
  <2>2. Reach(next', l) = Reach(next, PrivateStart) \cup {l} /\ IsProperList(next', l, LIST_END)
    BY <1>1, <1>2, <2>1, Places, PushFirst
  <2>3. QED
    BY <1>1, <2>2 DEF PrivateList
<1>4. PublicList' = PublicList /\ IsProperList(next', PublicStart'.First, LIST_END)
  <2>1. \A m \in Reach(next, PublicStart.First) : next'[m] = next[m]
    BY <1>1, Places DEF PublicList
  <2>2. Reach(next', PublicStart.First) = Reach(next, PublicStart.First)
        /\ IsProperList(next', PublicStart.First, LIST_END)
    BY <1>1, <1>2, <2>1, Places, ReachFrame, ProperFrame
  <2>3. QED
    BY <1>1, <2>2 DEF PublicList
<1>5. Unallocated' = Unallocated /\ Freeing' = Freeing
  BY <1>1 DEF Unallocated, Freeing, threadVars
<1>6. LocationsConserved'
  <2>1. \A v, u \in Thread :
          pc'[v] \in Pushing /\ pc'[u] \in Pushing /\ address'[v] = address'[u] => v = u
    BY <1>1 DEF Inv, LocationsConserved, threadVars
  <2>2. QED
    BY <1>1, <1>3, <1>4, <1>5, <2>1, Places, Conserved
<1>7. ListsProper'
  BY <1>1, <1>3, <1>4 DEF Inv, ListsProper
<1>8. UsedCounted' /\ PrivateUsed' \in 0 .. Locations
  <2> DEFINE U == live \cup Freeing \cup PublicList
  <2>1. U \in SUBSET Location /\ l \in U /\ U \ {l} \in SUBSET Location
    BY <1>1, Places
  <2>2. Cardinality(U \ {l}) = Cardinality(U) - 1 /\ Cardinality(U \ {l}) \in 0 .. Locations
    BY <2>1, Counting, FS_RemoveElement
  <2>3. (live \cup Freeing \cup PublicList)' = U \ {l}
    BY <1>1, <1>4, <1>5, Places
  <2>4. QED
    BY <1>1, <2>2, <2>3 DEF UsedCounted, Inv
<1>9. TypeOK'
  BY <1>1, <1>8 DEF Inv, TypeOK, ReturnPrivateLocation, threadVars, Link
<1>10. GivenBackUnreferenced'
  <2>1. SUFFICES ASSUME ThreadId' = NoThread
                 PROVE  (live \cup Freeing \cup PublicList)' = {}
    BY DEF GivenBackUnreferenced
  <2>2. PrivateUsed' = 0
    BY <1>1, <2>1 DEF IsFull
  <2>3. (live \cup Freeing \cup PublicList)' \in SUBSET Location
    BY <1>1, <1>4, <1>5, Places
  <2>4. QED
    BY <1>8, <2>2, <2>3, Counting DEF UsedCounted
<1>11. CallsSound'
  <2>1. \A u \in Thread : pc[u] \notin Copying
    BY <1>1 DEF ReturnPrivateLocation, Inv, CallsSound, Copying
  <2>2. pc' = pc /\ address' = address
    BY <1>1 DEF threadVars
  <2>3. \A u \in Thread : pc[u] \in Pushing => ThreadId' # u
    BY <1>1 DEF Inv, CallsSound
  <2>4. QED
    BY <2>1, <2>2, <2>3 DEF Inv, CallsSound
<1>12. Pool!Put(l)
  <2>1. ThreadId' = NoThread => Unallocated \cup PrivateList \cup {l} = Location
    <3>1. SUFFICES ASSUME ThreadId' = NoThread
                   PROVE  Location \subseteq Unallocated \cup PrivateList \cup {l}
      BY <1>1, Places
    <3>2. (live \cup Freeing \cup PublicList)' = {}
      BY <1>10, <3>1 DEF GivenBackUnreferenced
    <3>3. QED
      BY <1>1, <1>4, <1>5, <3>2, Places
  <2>2. ThreadId # NoThread
    BY <1>1
  <2>3. QED
    BY <1>1, <1>3, <1>4, <1>5, <2>1, <2>2 DEF Pool!Put
<1>13. QED
  BY <1>6, <1>7, <1>8, <1>9, <1>10, <1>11, <1>12 DEF Inv

-----------------------------------------------------------------------------
(* The steps of the other threads.                                         *)

LEMMA ReturnPublicLocationStep ==
  ASSUME Inv, NEW t \in Thread, NEW l \in Location, ReturnPublicLocation(t, l)
  PROVE  Inv' /\ Pool!GiveBack(l)
<1>1. /\ pc[t] = "idle" /\ ThreadId # t /\ l \in live
      /\ live' = live \ {l}
      /\ address' = [address EXCEPT ![t] = l]
      /\ pc' = [pc EXCEPT ![t] = "pushCount"]
      /\ UNCHANGED <<ownerVars, PublicStart, next, test>>
  BY DEF ReturnPublicLocation
<1>2. TypeOK'
  BY <1>1 DEF Inv, TypeOK, ownerVars, Pushing, Link
<1>3. PrivateList' = PrivateList /\ PublicList' = PublicList /\ ListsProper'
  BY <1>1, Places, ListsUntouched DEF ownerVars
<1>4. /\ \A u \in Thread \ {t} : pc'[u] = pc[u] /\ address'[u] = address[u]
      /\ pc'[t] = "pushCount" /\ address'[t] = l
  BY <1>1 DEF Inv, TypeOK
<1>5. Freeing' = Freeing \cup {l}
  BY <1>1, <1>4 DEF Freeing, Pushing
<1>6. Unallocated' = Unallocated
  BY <1>1 DEF Unallocated, ownerVars
<1>7. LocationsConserved'
  <2>1. \A u \in Thread : pc[u] \in Pushing => address[u] # l
    BY <1>1, Places DEF Freeing
  <2>2. \A v, u \in Thread :
          pc'[v] \in Pushing /\ pc'[u] \in Pushing /\ address'[v] = address'[u] => v = u
    BY <1>4, <2>1 DEF Inv, LocationsConserved
  <2>3. QED
    BY <1>1, <1>3, <1>5, <1>6, <2>2, Places, Conserved
<1>8. UsedCounted'
  <2>1. (live \cup Freeing \cup PublicList)' = live \cup Freeing \cup PublicList
    BY <1>1, <1>3, <1>5
  <2>2. QED
    BY <1>1, <2>1 DEF UsedCounted, Inv, ownerVars
<1>9. GivenBackUnreferenced'
  BY <1>1 DEF Inv, GivenBackUnreferenced, ownerVars
<1>10. CallsSound'
  BY <1>1, <1>4
  DEF Inv, CallsSound, Copying, Pushing, HasPublic, ownerVars
<1>11. Pool!GiveBack(l)
  BY <1>1, <1>3, <1>5, <1>6 DEF Pool!GiveBack, ownerVars
<1>12. QED
  BY <1>2, <1>3, <1>7, <1>8, <1>9, <1>10, <1>11 DEF Inv

(* The two reads change a local only.                                      *)
LEMMA ReadStep ==
  ASSUME Inv, NEW t \in Thread, ReadCount(t) \/ ReadFirst(t)
  PROVE  Inv' /\ UNCHANGED Pool!vars
<1>1. /\ UNCHANGED <<ownerVars, PublicStart, next, live, address>>
      /\ test' \in [Thread -> ListHead]
      /\ pc' \in [Thread -> {"idle"} \cup Pushing \cup Copying]
      /\ \A u \in Thread : /\ pc'[u] \in Pushing <=> pc[u] \in Pushing
                           /\ pc'[u] \in Copying <=> pc[u] \in Copying
  <2> pc \in [Thread -> {"idle"} \cup Pushing \cup Copying] /\ test \in [Thread -> ListHead]
    BY DEF Inv, TypeOK
  <2>1. CASE ReadCount(t)
    <3>1. PublicStart.Count \in 0 .. Locations
      BY DEF Inv, TypeOK, ListHead
    <3>2. test' \in [Thread -> ListHead]
      BY <2>1, <3>1 DEF ReadCount, ListHead
    <3>3. QED
      BY <2>1, <3>2 DEF ReadCount, Pushing, Copying
  <2>2. CASE ReadFirst(t)
    <3>1. PublicStart.First \in Link
      BY DEF Inv, TypeOK, ListHead
    <3>2. test' \in [Thread -> ListHead]
      BY <2>2, <3>1 DEF ReadFirst, ListHead
    <3>3. QED
      BY <2>2, <3>2 DEF ReadFirst, Pushing, Copying
  <2>3. QED
    BY <2>1, <2>2
<1>2. TypeOK'
  BY <1>1 DEF Inv, TypeOK, ownerVars
<1>3. PrivateList' = PrivateList /\ PublicList' = PublicList /\ ListsProper'
  BY <1>1, Places, ListsUntouched DEF ownerVars
<1>4. Freeing' = Freeing /\ Unallocated' = Unallocated
  BY <1>1 DEF Freeing, Unallocated, ownerVars
<1>5. LocationsConserved'
  <2>1. \A v, u \in Thread :
          pc'[v] \in Pushing /\ pc'[u] \in Pushing /\ address'[v] = address'[u] => v = u
    BY <1>1 DEF Inv, LocationsConserved
  <2>2. QED
    BY <1>1, <1>3, <1>4, <2>1, Places, Conserved
<1>6. UsedCounted' /\ GivenBackUnreferenced'
  BY <1>1, <1>3, <1>4 DEF Inv, UsedCounted, GivenBackUnreferenced, ownerVars
<1>7. CallsSound'
  BY <1>1 DEF Inv, CallsSound, HasPublic, ownerVars
<1>8. UNCHANGED Pool!vars
  BY <1>1, <1>3, <1>4 DEF Pool!vars, ownerVars
<1>9. QED
  BY <1>2, <1>3, <1>5, <1>6, <1>7, <1>8 DEF Inv

LEMMA PushLocationStep ==
  ASSUME Inv, NEW t \in Thread, PushLocation(t)
  PROVE  Inv' /\ (Pool!Arrive(address[t]) \/ UNCHANGED Pool!vars)
<1> DEFINE l == address[t]
<1>1. /\ pc[t] = "pushCAS" /\ l \in Location /\ l \in Freeing
      /\ next' = [next EXCEPT ![l] = test[t].First]
      /\ UNCHANGED <<ownerVars, live>>
  BY DEF PushLocation, Inv, CallsSound, Pushing, Freeing
<1>2. /\ DOMAIN next' = Location /\ next'[l] = test[t].First
      /\ \A m \in Location \ {l} : next'[m] = next[m]
      /\ next' \in [Location -> Link \cup {Data}]
  BY <1>1 DEF Inv, TypeOK, ListHead
<1>3. Unallocated' = Unallocated /\ live' = live
  BY <1>1 DEF Unallocated, ownerVars
<1>4. IsProperList(next, PrivateStart, LIST_END) /\ IsProperList(next, PublicStart.First, LIST_END)
  BY DEF Inv, ListsProper
<1>5. PrivateList' = PrivateList /\ IsProperList(next', PrivateStart', LIST_END)
  <2>1. \A m \in Reach(next, PrivateStart) : next'[m] = next[m]
    BY <1>1, <1>2, Places DEF PrivateList
  <2>2. Reach(next', PrivateStart) = Reach(next, PrivateStart) /\ IsProperList(next', PrivateStart, LIST_END)
    BY <1>2, <1>4, <2>1, Places, ReachFrame, ProperFrame
  <2>3. QED
    BY <1>1, <2>2 DEF PrivateList, ownerVars
<1>6. CASE SwapSucceeds(t)
  <2>1. /\ test[t] = PublicStart /\ Return(t)
        /\ PublicStart' = [Count |-> PublicStart.Count + 1, First |-> l]
    BY <1>6 DEF PushLocation, SwapSucceeds
  <2>2. PublicList' = PublicList \cup {l} /\ IsProperList(next', PublicStart'.First, LIST_END)
    <3>1. l \notin Reach(next, PublicStart.First)
      BY <1>1, Places DEF PublicList
    <3>2. /\ DOMAIN next = Location /\ DOMAIN next' = DOMAIN next /\ l \in DOMAIN next
          /\ LIST_END \notin DOMAIN next
          /\ next'[l] = PublicStart.First
          /\ \A m \in DOMAIN next \ {l} : next'[m] = next[m]
      BY <1>1, <1>2, <2>1, Places
    <3>3. Reach(next', l) = Reach(next, PublicStart.First) \cup {l} /\ IsProperList(next', l, LIST_END)
      <4> HIDE DEF l
      <4>1. QED
        BY <1>4, <3>1, <3>2, PushFirst
    <3>4. QED
      BY <2>1, <3>3 DEF PublicList
  <2>3. /\ \A u \in Thread \ {t} : pc'[u] = pc[u] /\ address'[u] = address[u]
        /\ pc'[t] = "idle"
    BY <2>1 DEF Return, Inv, TypeOK
  <2>4. Freeing' = Freeing \ {l}
    <3>1. \A u \in Thread \ {t} : pc[u] \in Pushing => address[u] # l
      BY <1>1 DEF Inv, LocationsConserved, Pushing
    <3>2. QED
      BY <2>3, <3>1 DEF Freeing, Pushing
  <2>5. LocationsConserved'
    <3>1. \A v, u \in Thread :
            pc'[v] \in Pushing /\ pc'[u] \in Pushing /\ address'[v] = address'[u] => v = u
      BY <2>3 DEF Inv, LocationsConserved, Pushing
    <3>2. QED
      BY <1>1, <1>3, <1>5, <2>2, <2>4, <3>1, Places, Conserved
  <2>6. ListsProper' /\ PublicStart'.Count \in 0 .. Locations
    <3>1. l \notin PublicList /\ PublicList \cup {l} \in SUBSET Location
      BY <1>1, Places
    <3>2. Cardinality(PublicList \cup {l}) = Cardinality(PublicList) + 1
      BY <3>1, Places, Counting, FS_AddElement
    <3>3. Cardinality(PublicList \cup {l}) \in 0 .. Locations
      BY <3>1, Counting
    <3>4. PublicStart'.Count = Cardinality(PublicList')
      BY <2>1, <2>2, <3>2 DEF Inv, ListsProper
    <3>5. QED
      BY <1>5, <2>2, <3>3, <3>4 DEF ListsProper
  <2>7. TypeOK'
    <3>1. PublicStart' \in ListHead
      BY <1>1, <2>1, <2>6 DEF ListHead, Link
    <3>2. ListEnd \in ListHead /\ LIST_END \in Link
      BY DEF ListEnd, ListHead, Link
    <3>3. QED
      BY <1>1, <1>2, <2>1, <3>1, <3>2 DEF Inv, TypeOK, Return, ownerVars
  <2>8. UsedCounted' /\ GivenBackUnreferenced'
    <3>1. (live \cup Freeing \cup PublicList)' = live \cup Freeing \cup PublicList
      BY <1>1, <1>3, <2>2, <2>4
    <3>2. QED
      BY <1>1, <1>3, <2>4, <3>1 DEF Inv, UsedCounted, GivenBackUnreferenced, ownerVars
  <2>9. CallsSound'
    <3>1. HasPublic'
      <4>1. PublicStart.Count \in 0 .. Locations
        BY DEF Inv, TypeOK, ListHead
      <4>2. PublicStart'.Count = PublicStart.Count + 1 /\ ListEnd.Count = 0
        BY <2>1 DEF ListEnd
      <4>3. QED
        BY <1>1, <4>1, <4>2 DEF HasPublic, ownerVars
    <3>2. QED
      BY <1>1, <2>3, <3>1 DEF Inv, CallsSound, Pushing, Copying, ownerVars
  <2>10. Pool!Arrive(l)
    BY <1>1, <1>3, <1>5, <2>2, <2>4 DEF Pool!Arrive, ownerVars
  <2>11. QED
    BY <2>5, <2>6, <2>7, <2>8, <2>9, <2>10 DEF Inv
<1>7. CASE ~SwapSucceeds(t)
  <2>1. TryAgain(t) /\ UNCHANGED <<PublicStart, pc, address>>
    BY <1>7 DEF PushLocation
  <2>2. PublicList' = PublicList /\ ListsProper'
    <3>1. \A m \in PrivateList \cup PublicList : next'[m] = next[m]
      BY <1>1, <1>2, Places
    <3>2. QED
      BY <1>1, <1>2, <2>1, <3>1, ListsUntouched DEF ownerVars
  <2>3. Freeing' = Freeing
    BY <2>1 DEF Freeing
  <2>4. LocationsConserved'
    <3>1. \A v, u \in Thread :
            pc'[v] \in Pushing /\ pc'[u] \in Pushing /\ address'[v] = address'[u] => v = u
      BY <2>1 DEF Inv, LocationsConserved
    <3>2. QED
      BY <1>3, <1>5, <2>2, <2>3, <3>1, Places, Conserved
  <2>5. TypeOK'
    BY <1>1, <1>2, <2>1 DEF Inv, TypeOK, TryAgain, ownerVars
  <2>6. UsedCounted' /\ GivenBackUnreferenced' /\ CallsSound'
    BY <1>1, <2>1, <2>2, <2>3
    DEF Inv, UsedCounted, GivenBackUnreferenced, CallsSound, HasPublic, ownerVars
  <2>7. UNCHANGED Pool!vars
    BY <1>1, <1>3, <1>5, <2>2, <2>3 DEF Pool!vars, ownerVars
  <2>8. QED
    BY <2>2, <2>4, <2>5, <2>6, <2>7 DEF Inv
<1>8. QED
  BY <1>6, <1>7

-----------------------------------------------------------------------------
(* The invariants of the runs, for any number of threads and locations.    *)

LEMMA NextInv == Inv /\ [Next]_vars => Inv' /\ [Pool!Next]_Pool!vars
<1>1. ASSUME Inv, NEW t \in Thread, Call(t) \/ Continue(t)
      PROVE  Inv' /\ [Pool!Next]_Pool!vars
  <2>1. CASE InitializeUnused(t)
    BY <1>1, <2>1, InitializeUnusedStep DEF Pool!Next
  <2>2. CASE GetNewLocation(t)
    <3>1. CurrentLocation \in Location
      BY <1>1, <2>2 DEF GetNewLocation, Inv, TypeOK, Location
    <3>2. QED
      BY <1>1, <2>2, <3>1, GetNewLocationStep DEF Pool!Next
  <2>3. CASE GetPrivateLocation(t) /\ ~GetNewLocation(t)
    <3>1. /\ pc[t] = "idle" /\ ThreadId = t /\ CurrentLocation = Locations
          /\ PrivateStart # LIST_END /\ GetListLocation(PrivateStart, PrivateUsed)
          /\ UNCHANGED <<ThreadId, CurrentLocation, PublicStart, threadVars>>
      BY <2>3 DEF GetPrivateLocation
    <3>2. PrivateStart \in Location
      BY <1>1, <3>1 DEF Inv, TypeOK, Link
    <3>3. QED
      BY <1>1, <3>1, <3>2, GetListLocationStep DEF Pool!Next
  <2>4. CASE GetPublicLocation(t)
    BY <1>1, <2>4, GetPublicLocationStep
  <2>5. ASSUME NEW l \in Location, ReturnPrivateLocation(t, l)
        PROVE  Inv' /\ [Pool!Next]_Pool!vars
    BY <1>1, <2>5, ReturnPrivateLocationStep DEF Pool!Next
  <2>6. ASSUME NEW l \in Location, ReturnPublicLocation(t, l)
        PROVE  Inv' /\ [Pool!Next]_Pool!vars
    BY <1>1, <2>6, ReturnPublicLocationStep DEF Pool!Next
  <2>7. CASE ReadCount(t) \/ ReadFirst(t)
    BY <1>1, <2>7, ReadStep
  <2>8. CASE PushLocation(t)
    <3>1. address[t] \in Location
      BY <1>1, <2>8 DEF PushLocation, Inv, CallsSound, Pushing
    <3>2. QED
      BY <1>1, <2>8, <3>1, PushLocationStep DEF Pool!Next
  <2>9. CASE CopyFreeLists(t)
    <3>1. PublicStart.First \in Location
      BY <1>1, <2>9, Heads, Places DEF CopyFreeLists, Inv, CallsSound, Copying
    <3>2. QED
      BY <1>1, <2>9, <3>1, CopyFreeListsStep DEF Pool!Next
  <2>10. QED
    BY <1>1, <2>1, <2>2, <2>3, <2>4, <2>5, <2>6, <2>7, <2>8, <2>9
    DEF Call, Continue, GetPrivateLocation
<1>2. ASSUME Inv, UNCHANGED vars
      PROVE  Inv' /\ UNCHANGED Pool!vars
  <2>1. /\ Unallocated' = Unallocated /\ PrivateList' = PrivateList
        /\ PublicList' = PublicList /\ live' = live /\ Freeing' = Freeing
        /\ HasPublic' = HasPublic
    BY <1>2 DEF vars, ownerVars, threadVars, Unallocated, PrivateList, PublicList,
       Freeing, HasPublic
  <2>2. TypeOK'
    BY <1>2 DEF vars, ownerVars, threadVars, Inv, TypeOK
  <2>3. LocationsConserved' /\ CallsSound'
    BY <1>2, <2>1 DEF vars, ownerVars, threadVars, Inv, LocationsConserved, CallsSound
  <2>4. ListsProper' /\ UsedCounted' /\ GivenBackUnreferenced'
    BY <1>2, <2>1 DEF vars, ownerVars, threadVars, Inv, ListsProper, UsedCounted,
       GivenBackUnreferenced
  <2>5. UNCHANGED Pool!vars
    BY <1>2, <2>1 DEF vars, ownerVars, Pool!vars
  <2>6. QED
    BY <2>2, <2>3, <2>4, <2>5 DEF Inv
<1>3. QED
  BY <1>1, <1>2 DEF Next

(* All the invariants together.                                            *)
THEOREM InvCorrect == Spec => []Inv
<1>1. Inv /\ [Next]_vars => Inv'
  BY NextInv
<1>2. QED
  BY InitInv, <1>1, PTL DEF Spec

(* Every field of the group keeps its type: in particular the two counters *)
(* never go below 0 or above the number of locations.                      *)
THEOREM TypeCorrect == Spec => []TypeOK
<1>1. Inv => TypeOK
  BY DEF Inv
<1>2. QED
  BY <1>1, InvCorrect, PTL

(***************************************************************************)
(* No location is ever handed out twice or lost, whatever the              *)
(* interleaving of the owner's calls with the pushes of other threads.     *)
(***************************************************************************)
THEOREM ConservationCorrect == Spec => []LocationsConserved
<1>1. Inv => LocationsConserved
  BY DEF Inv
<1>2. QED
  BY <1>1, InvCorrect, PTL

(* The lists are well formed and the public one has the length it records. *)
THEOREM ListsCorrect == Spec => []ListsProper
<1>1. Inv => ListsProper
  BY DEF Inv
<1>2. QED
  BY <1>1, InvCorrect, PTL

(* PrivateUsed counts the locations the owner cannot hand out at once.     *)
THEOREM CountCorrect == Spec => []UsedCounted
<1>1. Inv => UsedCounted
  BY DEF Inv
<1>2. QED
  BY <1>1, InvCorrect, PTL

(* No client and no thread knows a location of a group that is given back. *)
THEOREM GiveBackCorrect == Spec => []GivenBackUnreferenced
<1>1. Inv => GivenBackUnreferenced
  BY DEF Inv
<1>2. QED
  BY <1>1, InvCorrect, PTL

(***************************************************************************)
(* The private list is empty whenever the owner overwrites it, and a push  *)
(* never runs in a group its thread owns.                                  *)
(***************************************************************************)
THEOREM CallsCorrect == Spec => []CallsSound
<1>1. Inv => CallsSound
  BY DEF Inv
<1>2. QED
  BY <1>1, InvCorrect, PTL

(***************************************************************************)
(* A group is a pool of locations: every call of every thread amounts to   *)
(* one step of LocationPool, at the moment its compare-and-swap succeeds   *)
(* or its unsynchronised write is made.                                    *)
(***************************************************************************)
THEOREM PoolCorrect == Spec => ImplementsPool
<1>1. Init => Pool!Init
  <2> SUFFICES ASSUME Init
               PROVE  Pool!Init
    OBVIOUS
  <2>1. /\ ThreadId = NoThread /\ live = {}
        /\ Unallocated = Location
        /\ Freeing = {}
    BY DEF Init, Unallocated, Location, Freeing, Pushing
  <2>2. PrivateList = {} /\ PublicList = {}
    <3>1. LIST_END \notin DOMAIN next
      BY DEF Init, Location
    <3>2. QED
      BY <3>1, ReachNothing DEF Init, PrivateList, PublicList, ListEnd
  <2>3. QED
    BY <2>1, <2>2 DEF Pool!Init
<1>2. Inv /\ [Next]_vars => [Pool!Next]_Pool!vars
  BY NextInv
<1>3. QED
  BY <1>1, <1>2, InvCorrect, PTL DEF Spec, ImplementsPool, Pool!Spec
=============================================================================
