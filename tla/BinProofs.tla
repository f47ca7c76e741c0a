------------------------------ MODULE BinProofs ------------------------------
(***************************************************************************)
(* Proofs about module Bin, for the protocol in which PublicLock is        *)
(* released once by the thread that acquired it (~ReleaseTwice).  With     *)
(* ReleaseTwice the theorems do not hold: run bin_shared.                  *)
(*                                                                         *)
(* First the lock by itself: it says neither who holds it nor for how      *)
(* long, and does give the public list of a bin to one thread at a time.   *)
(* Then the invariant Inv that relates the bins, their public lists and    *)
(* the locations in flight, with a lemma for each action that changes one  *)
(* of them; then the theorems, which all follow from it.                   *)
(***************************************************************************)
EXTENDS Bin, ListProofs

(* What the lock relies on: a call keeps the bin it wants until it ends,   *)
(* and a bin that is wanted is the bin of a thread.                        *)
LockTypes ==
  /\ PublicLock \in [Thread -> {0, 1}]
  /\ ParentBin \in [Group -> Thread \cup {NoBin}]
  /\ pc \in [Thread -> PC]
  /\ target \in [Thread -> Thread \cup {NoBin}]

(* A thread on the way to the lock of another's bin knows which.           *)
TargetKnown ==
  \A t \in Thread : pc[t] \in {"push", "addLock"} \cup AddHolds => target[t] \in Thread

(* While somebody is inside, the lock is taken, and there is nobody else.  *)
LockTaken == \A b \in Thread : Holders(b) # {} => PublicLock[b] = 1
HeldOnce == \A b \in Thread : \A t, u \in Holders(b) : t = u

LockInv == LockTypes /\ TargetKnown /\ LockTaken /\ HeldOnce

(***************************************************************************)
(* A thread that takes the lock finds it free, so nobody is inside.        *)
(***************************************************************************)
LEMMA LockStep ==
  ASSUME LockInv, NEW b \in Thread, NEW t \in Thread, Lock(b),
         LockTypes', TargetKnown',
         \A u \in Thread \ {t} : pc'[u] = pc[u] /\ target'[u] = target[u],
         Holders(b)' \subseteq Holders(b) \cup {t},
         \A c \in Thread \ {b} : t \notin Holders(c)'
  PROVE  LockInv'
<1>1. Holders(b) = {} /\ PublicLock'[b] = 1
  BY DEF LockInv, LockTypes, LockTaken, Lock
<1>2. ASSUME NEW c \in Thread \ {b} PROVE Holders(c)' \subseteq Holders(c) /\ PublicLock'[c] = PublicLock[c]
  BY <1>2 DEF LockInv, LockTypes, Lock, Holders
<1>3. LockTaken'
  BY <1>1, <1>2 DEF LockInv, LockTaken
<1>4. HeldOnce'
  BY <1>1, <1>2 DEF LockInv, HeldOnce
<1> QED BY <1>3, <1>4 DEF LockInv

(***************************************************************************)
(* The one thread that is inside releases the lock and leaves.             *)
(***************************************************************************)
LEMMA UnlockStep ==
  ASSUME LockInv, NEW b \in Thread, NEW t \in Holders(b), Unlock(b),
         LockTypes', TargetKnown',
         \A u \in Thread \ {t} : pc'[u] = pc[u] /\ target'[u] = target[u],
         \A c \in Thread : t \notin Holders(c)'
  PROVE  LockInv'
<1>1. \A c \in Thread : Holders(c)' \subseteq Holders(c) \ {t}
  BY DEF Holders
<1>2. Holders(b)' = {}
  BY <1>1 DEF LockInv, HeldOnce
<1>3. \A c \in Thread \ {b} : PublicLock'[c] = PublicLock[c]
  BY DEF LockInv, LockTypes, Unlock
<1>4. LockTaken' /\ HeldOnce'
  BY <1>1, <1>2, <1>3 DEF LockInv, LockTaken, HeldOnce
<1> QED BY <1>4 DEF LockInv

(***************************************************************************)
(* Any other step leaves the lock alone, and nobody comes in by it.        *)
(***************************************************************************)
LEMMA OtherStep ==
  ASSUME LockInv, UNCHANGED PublicLock, LockTypes', TargetKnown',
         \A b \in Thread : Holders(b)' \subseteq Holders(b)
  PROVE  LockInv'
BY DEF LockInv, LockTaken, HeldOnce

-----------------------------------------------------------------------------
LEMMA InitLockInv == Init => LockInv
<1> SUFFICES ASSUME Init PROVE LockInv
  OBVIOUS
<1>1. LockTypes /\ TargetKnown
  BY DEF Init, LockTypes, TargetKnown, PC, AddHolds
<1>2. \A b \in Thread : Holders(b) = {}
  BY DEF Init, Holders, PopHolds, AddHolds
<1> QED BY <1>1, <1>2 DEF LockInv, LockTaken, HeldOnce

(***************************************************************************)
(* A step changes the locals of its own thread only.                       *)
(***************************************************************************)
LEMMA StepsLocal ==
  ASSUME LockInv, NEW t \in Thread, Call(t) \/ Continue(t)
  PROVE  \A u \in Thread \ {t} : pc'[u] = pc[u] /\ target'[u] = target[u]
<1> USE DEF LockInv, LockTypes, Goto, Return
<1>1. CASE Call(t)
  BY <1>1 DEF Call, TakeFromActive, TakeFromSecond, LookForPublic, DeallocateOwn,
              DeallocatePublic, threadVars
<1>2. CASE Continue(t)
  <2>1. CASE PopLock(t) \/ PopRead(t) \/ PopWrite(t) \/ PopUnlock(t) \/ Collect(t)
    BY <2>1 DEF PopLock, PopRead, PopWrite, PopUnlock, Collect
  <2>2. CASE ScopeEnd(t) \/ NewGroup(t) \/ OutOfMemory(t) \/ ReturnUnusedGroup(t)
    BY <2>2 DEF ScopeEnd, NewGroup, OutOfMemory, ReturnUnusedGroup
  <2>3. CASE Push(t) \/ AddLock(t) \/ AddLink(t) \/ AddWrite(t) \/ AddUnlock(t)
    BY <2>3 DEF Push, AddLock, AddLink, AddWrite, AddUnlock
  <2> QED BY <1>2, <2>1, <2>2, <2>3 DEF Continue
<1> QED BY <1>1, <1>2

LEMMA StepTypes ==
  ASSUME LockInv, NEW t \in Thread, Call(t) \/ Continue(t)
  PROVE  LockTypes' /\ TargetKnown'
<1> USE DEF LockInv, LockTypes, TargetKnown, Goto, Return, PC, PopHolds, AddHolds
<1>1. CASE Call(t)
  <2>1. CASE TakeFromActive(t) \/ TakeFromSecond(t) \/ LookForPublic(t)
    BY <2>1 DEF TakeFromActive, TakeFromSecond, LookForPublic, listVars, groupVars, threadVars
  <2>2. CASE \E g \in Group : DeallocateOwn(t, g)
    BY <2>2 DEF DeallocateOwn, listVars
  <2>3. CASE \E g \in Group : DeallocatePublic(t, g)
    BY <2>3 DEF DeallocatePublic, listVars, groupVars
  <2> QED BY <1>1, <2>1, <2>2, <2>3 DEF Call
<1>2. CASE Continue(t)
  <2> USE DEF listVars, groupVars, Lock, Unlock
  <2>1. CASE PopLock(t) \/ PopRead(t) \/ PopWrite(t) \/ PopUnlock(t)
    BY <2>1 DEF PopLock, PopRead, PopWrite, PopUnlock
  <2>2. CASE Collect(t) \/ ScopeEnd(t) \/ OutOfMemory(t)
    BY <2>2 DEF Collect, ScopeEnd, OutOfMemory
  <2>3. CASE NewGroup(t)
    <3>1. PICK g \in available : ParentBin' = [ParentBin EXCEPT ![g] = t]
      BY <2>3 DEF NewGroup
    <3>2. ParentBin' \in [Group -> Thread \cup {NoBin}]
      BY <3>1
    <3> QED BY <2>3, <3>2 DEF NewGroup
  <2>4. CASE ReturnUnusedGroup(t)
    BY <2>4 DEF ReturnUnusedGroup
  <2>5. CASE Push(t) \/ AddLock(t) \/ AddLink(t)
    BY <2>5 DEF Push, AddLock, AddLink
  <2>6. CASE AddWrite(t) \/ AddUnlock(t)
    BY <2>6 DEF AddWrite, AddUnlock
  <2> QED BY <1>2, <2>1, <2>2, <2>3, <2>4, <2>5, <2>6 DEF Continue
<1> QED BY <1>1, <1>2

LEMMA NextLockInv ==
  ASSUME ~ReleaseTwice, LockInv, NEW t \in Thread, Call(t) \/ Continue(t)
  PROVE  LockInv'
<1>1. LockTypes' /\ TargetKnown'
  BY StepTypes
<1>2. \A u \in Thread \ {t} : pc'[u] = pc[u] /\ target'[u] = target[u]
  BY StepsLocal
<1> USE DEF Goto, Return
<1>3. CASE PopLock(t)
  <2>1. Lock(t) /\ pc'[t] = "popRead" /\ target'[t] = target[t]
    BY <1>3 DEF PopLock, LockInv, LockTypes
  <2>2. Holders(t)' \subseteq Holders(t) \cup {t} /\ \A c \in Thread \ {t} : t \notin Holders(c)'
    BY <1>2, <2>1 DEF Holders, AddHolds
  <2> QED BY <1>1, <1>2, <2>1, <2>2, LockStep
<1>4. CASE AddLock(t)
  <2>1. Lock(target[t]) /\ pc'[t] = "addLink" /\ target'[t] = target[t] /\ target[t] \in Thread
    BY <1>4 DEF AddLock, LockInv, LockTypes, TargetKnown
  <2>2. /\ Holders(target[t])' \subseteq Holders(target[t]) \cup {t}
        /\ \A c \in Thread \ {target[t]} : t \notin Holders(c)'
    BY <1>2, <2>1 DEF Holders, PopHolds
  <2> QED BY <1>1, <1>2, <2>1, <2>2, LockStep
<1>5. CASE PopUnlock(t)
  <2>1. Unlock(t) /\ pc'[t] = "collect" /\ t \in Holders(t)
    BY <1>5 DEF PopUnlock, Holders, PopHolds, LockInv, LockTypes
  <2>2. \A c \in Thread : t \notin Holders(c)'
    BY <2>1 DEF Holders, PopHolds, AddHolds
  <2> QED BY <1>1, <1>2, <2>1, <2>2, UnlockStep
<1>6. CASE AddUnlock(t)
  <2>1. /\ Unlock(target[t]) /\ pc'[t] = "idle"
        /\ target[t] \in Thread /\ t \in Holders(target[t])
    BY <1>6 DEF AddUnlock, Holders, AddHolds, LockInv, LockTypes, TargetKnown
  <2>2. \A c \in Thread : t \notin Holders(c)'
    BY <2>1 DEF Holders, PopHolds, AddHolds
  <2> QED BY <1>1, <1>2, <2>1, <2>2, UnlockStep
<1>7. CASE PopRead(t) \/ PopWrite(t) \/ AddLink(t) \/ AddWrite(t)
  <2>1. /\ UNCHANGED PublicLock /\ target'[t] = target[t]
        /\ \/ pc[t] \in {"popRead", "popWrite"} /\ pc'[t] \in PopHolds
           \/ pc[t] \in {"addLink", "addWrite"} /\ pc'[t] \in AddHolds
    BY <1>7 DEF PopRead, PopWrite, AddLink, AddWrite, listVars, PopHolds, AddHolds, LockInv, LockTypes
  <2>2. \A b \in Thread : Holders(b)' \subseteq Holders(b)
    BY <1>2, <2>1 DEF Holders, PopHolds, AddHolds
  <2> QED BY <1>1, <2>1, <2>2, OtherStep
<1>8. ASSUME UNCHANGED PublicLock, pc'[t] \notin PopHolds \cup AddHolds PROVE LockInv'
  <2>1. \A b \in Thread : Holders(b)' \subseteq Holders(b)
    BY <1>2, <1>8 DEF Holders
  <2> QED BY <1>1, <1>8, <2>1, OtherStep
<1>9. CASE Call(t)
  BY <1>8, <1>9 DEF Call, TakeFromActive, TakeFromSecond, LookForPublic, DeallocateOwn,
     DeallocatePublic, listVars, threadVars, PopHolds, AddHolds, LockInv, LockTypes
<1>10. CASE Collect(t) \/ ScopeEnd(t) \/ NewGroup(t) \/ OutOfMemory(t) \/ ReturnUnusedGroup(t)
            \/ Push(t)
  BY <1>8, <1>10 DEF Collect, ScopeEnd, NewGroup, OutOfMemory, ReturnUnusedGroup, Push,
     listVars, PopHolds, AddHolds, LockInv, LockTypes
<1> QED BY <1>3, <1>4, <1>5, <1>6, <1>7, <1>9, <1>10 DEF Continue

(***************************************************************************)
(* PublicLock, released once, lets one thread at a time into the section   *)
(* that updates the public list of a bin: for any number of threads and    *)
(* groups, owners and freeing threads alike.                               *)
(***************************************************************************)
THEOREM MutualExclusionCorrect ==
  ASSUME ~ReleaseTwice PROVE Spec => []MutualExclusion
<1>1. LockInv /\ [Next]_vars => LockInv'
  <2> SUFFICES ASSUME LockInv, [Next]_vars PROVE LockInv'
    OBVIOUS
  <2>1. CASE Next
    BY <2>1, NextLockInv DEF Next
  <2>2. CASE UNCHANGED vars
    BY <2>2 DEF vars, listVars, groupVars, threadVars, LockInv, LockTypes, TargetKnown,
                LockTaken, HeldOnce, Holders
  <2> QED BY <2>1, <2>2
<1>2. LockInv => MutualExclusion
  <2> SUFFICES ASSUME LockInv, NEW b \in Thread PROVE Cardinality(Holders(b)) <= 1
    BY DEF MutualExclusion
  <2>1. Holders(b) = {} \/ \E t \in Thread : Holders(b) = {t}
    BY DEF LockInv, HeldOnce, Holders
  <2>2. CASE Holders(b) = {}
    <3>1. Cardinality(Holders(b)) = 0
      BY <2>2, FS_EmptySet, Zenon
    <3> QED BY <3>1
  <2>3. ASSUME NEW t \in Thread, Holders(b) = {t} PROVE Cardinality(Holders(b)) <= 1
    <3>1. Cardinality(Holders(b)) = 1
      BY <2>3, FS_Singleton, Zenon
    <3> QED BY <3>1
  <2> QED BY <2>1, <2>2, <2>3
<1> QED BY InitLockInv, <1>1, <1>2, PTL DEF Spec

-----------------------------------------------------------------------------
(* The lists of groups.                                                    *)

(***************************************************************************)
(* MakeGroupActive puts a group in front of the others.                    *)
(***************************************************************************)
LEMMA ActivateFacts ==
  ASSUME NEW s \in Seq(Group), s # <<>>, Once(s), NEW g \in InList(s)
  PROVE  /\ MakeGroupActive(s, g) \in Seq(Group)
         /\ Once(MakeGroupActive(s, g))
         /\ InList(MakeGroupActive(s, g)) = InList(s)
         /\ Head(MakeGroupActive(s, g)) = g
<1> DEFINE first == Head(s)
           rest == Tail(s)
           rotated == Append(rest, first)
           others == Without(rotated, g)
<1>1. /\ rest \in Seq(Group) /\ Once(rest) /\ first \in Group
      /\ InList(rest) = InList(s) \ {first} /\ first \in InList(s)
  BY RemoveFirstFacts
<1> HIDE DEF first, rest
<1>2. rotated \in Seq(Group) /\ Once(rotated) /\ InList(rotated) = InList(s)
  <2>1. /\ rotated \in Seq(Group) /\ InList(rotated) = {first} \cup InList(rest)
        /\ Once(rest) /\ first \notin InList(rest) => Once(rotated)
    BY <1>1, AddLastFacts
  <2> QED BY <1>1, <2>1
<1> HIDE DEF rotated
<1>3. others \in Seq(Group) /\ Once(others) /\ InList(others) = InList(s) \ {g}
  BY <1>2, RemoveFacts
<1>4. g \in Group
  BY DEF InList
<1> HIDE DEF others
<1>5. /\ <<g>> \o others \in Seq(Group) /\ Once(<<g>> \o others)
      /\ InList(<<g>> \o others) = InList(s)
  <2>1. /\ <<g>> \o others \in Seq(Group) /\ InList(<<g>> \o others) = {g} \cup InList(others)
        /\ Once(others) /\ g \notin InList(others) => Once(<<g>> \o others)
    BY <1>3, <1>4, AddFirstFacts
  <2> QED BY <1>3, <2>1
<1>6. Head(<<g>> \o others) = g
  BY <1>3
<1> QED BY <1>5, <1>6 DEF MakeGroupActive, others, rotated, rest, first

(***************************************************************************)
(* The second group made active: the third one is now the second, and so   *)
(* on, and the one that was active comes last.                             *)
(***************************************************************************)
LEMMA ActivateSecondPlaces ==
  ASSUME NEW s \in Seq(Group), Len(s) >= 2, Once(s)
  PROVE  LET new == MakeGroupActive(s, s[2])
         IN  /\ Len(new) = Len(s)
             /\ \A i \in DOMAIN new : new[i] = IF i = Len(s) THEN s[1] ELSE s[i + 1]
<1> DEFINE n == Len(s)
           rotated == Append(Tail(s), Head(s))
           others == Without(rotated, s[2])
<1>1. n \in Nat /\ n >= 2 /\ DOMAIN s = 1 .. n /\ s # <<>> /\ 1 \in DOMAIN s /\ 2 \in DOMAIN s
  OBVIOUS
<1>2. /\ rotated \in Seq(Group) /\ Len(rotated) = n /\ DOMAIN rotated = 1 .. n
      /\ \A i \in 1 .. n : rotated[i] = IF i = n THEN s[1] ELSE s[i + 1]
  <2> DEFINE rest == Tail(s)
  <2>1. /\ rest \in Seq(Group) /\ Len(rest) = n - 1 /\ Head(s) = s[1] /\ s[1] \in Group
        /\ \A i \in 1 .. n - 1 : rest[i] = s[i + 1]
    BY <1>1
  <2> HIDE DEF rest, n
  <2>2. /\ Append(rest, s[1]) \in Seq(Group) /\ Len(Append(rest, s[1])) = n
        /\ \A i \in 1 .. n : Append(rest, s[1])[i] = IF i <= n - 1 THEN rest[i] ELSE s[1]
    BY <1>1, <2>1
  <2>3. rotated = Append(rest, s[1])
    BY <2>1 DEF rest
  <2> QED BY <1>1, <2>1, <2>2, <2>3
<1> HIDE DEF n, rotated
<1>3. rotated[1] = s[2] /\ s[2] \in InList(rotated)
  <2>1. 1 \in 1 .. n /\ 1 # n
    BY <1>1
  <2> QED BY <1>2, <2>1 DEF InList
<1>4. /\ Place(rotated, s[2]) \in 1 .. n /\ rotated[Place(rotated, s[2])] = s[2]
      /\ others \in Seq(Group) /\ Len(others) = n - 1
      /\ \A i \in 1 .. n - 1 :
           others[i] = IF i < Place(rotated, s[2]) THEN rotated[i] ELSE rotated[i + 1]
  BY <1>2, <1>3, RemovePlaces
<1>5. Place(rotated, s[2]) = 1
  <2> DEFINE k == Place(rotated, s[2])
  <2> HIDE DEF k
  <2>1. CASE k = n
    BY <1>1, <1>2, <1>4, <2>1 DEF Once, k
  <2>2. CASE k # n
    <3>1. s[k + 1] = s[2] /\ k + 1 \in DOMAIN s
      BY <1>1, <1>2, <1>4, <2>2 DEF k
    <3>2. k + 1 = 2
      BY <1>1, <3>1 DEF Once
    <3> QED BY <1>4, <3>2 DEF k
  <2> QED BY <2>1, <2>2 DEF k
<1>6. \A i \in 1 .. n - 1 : others[i] = rotated[i + 1]
  BY <1>1, <1>4, <1>5
<1> HIDE DEF others
<1> DEFINE new == <<s[2]>> \o others
<1>7. /\ Len(new) = n /\ DOMAIN new = 1 .. n /\ new[1] = s[2]
      /\ \A i \in 2 .. n : new[i] = others[i - 1]
  <2>1. s[2] \in Group
    BY <1>1
  <2> QED BY <1>1, <1>4, <2>1
<1> HIDE DEF new
<1>8. ASSUME NEW i \in 1 .. n PROVE new[i] = IF i = n THEN s[1] ELSE s[i + 1]
  <2>1. CASE i = 1
    BY <1>1, <1>7, <2>1
  <2>2. CASE i # 1
    <3>1. i \in 2 .. n /\ i - 1 \in 1 .. n - 1 /\ (i - 1) + 1 = i
      BY <1>1, <2>2
    <3>2. new[i] = rotated[i]
      BY <1>6, <1>7, <3>1
    <3> QED BY <1>2, <3>2
  <2> QED BY <2>1, <2>2
<1>9. MakeGroupActive(s, s[2]) = new
  BY DEF MakeGroupActive, rotated, others, new
<1> QED BY <1>7, <1>8, <1>9 DEF n

(* Group h comes after group g, behind the active one.                     *)
Behind(s, g, h) == \E i, j \in DOMAIN s : 1 < i /\ i < j /\ s[i] = g /\ s[j] = h

(***************************************************************************)
(* A removal keeps the order of the other groups.                          *)
(***************************************************************************)
LEMMA RemoveOrder ==
  ASSUME NEW s \in Seq(Group), NEW g \in InList(s), NEW x, NEW y, Behind(Without(s, g), x, y)
  PROVE  Behind(s, x, y)
<1> DEFINE n == Len(s)
           k == Place(s, g)
           new == Without(s, g)
<1>1. /\ n \in Nat /\ DOMAIN s = 1 .. n /\ k \in 1 .. n
      /\ new \in Seq(Group) /\ Len(new) = n - 1
      /\ \A i \in 1 .. n - 1 : new[i] = IF i < k THEN s[i] ELSE s[i + 1]
  BY RemovePlaces
<1>2. DOMAIN new = 1 .. n - 1
  BY <1>1
<1> HIDE DEF n, k, new
<1>3. PICK i \in 1 .. n - 1, j \in 1 .. n - 1 : 1 < i /\ i < j /\ new[i] = x /\ new[j] = y
  BY <1>2 DEF Behind, new
<1> DEFINE i2 == IF i < k THEN i ELSE i + 1
           j2 == IF j < k THEN j ELSE j + 1
<1>4. /\ i2 \in 1 .. n /\ j2 \in 1 .. n /\ 1 < i2 /\ i2 < j2
      /\ s[i2] = x /\ s[j2] = y
  BY <1>1, <1>3
<1> QED BY <1>1, <1>4 DEF Behind

(***************************************************************************)
(* The group that was second, made active, leaves the old one behind the   *)
(* others.                                                                 *)
(***************************************************************************)
LEMMA ActivateSecondOrder ==
  ASSUME NEW s \in Seq(Group), Len(s) >= 2, Once(s), NEW x, NEW y,
         Behind(MakeGroupActive(s, s[2]), x, y)
  PROVE  y = s[1] \/ Behind(s, x, y)
<1> DEFINE n == Len(s)
           new == MakeGroupActive(s, s[2])
<1>1. n \in Nat /\ n >= 2 /\ DOMAIN s = 1 .. n /\ s # <<>> /\ 2 \in DOMAIN s
  OBVIOUS
<1>2. s[2] \in InList(s)
  BY <1>1 DEF InList
<1>3. new \in Seq(Group)
  BY <1>1, <1>2, ActivateFacts
<1>4. Len(new) = n /\ \A i \in DOMAIN new : new[i] = IF i = n THEN s[1] ELSE s[i + 1]
  BY ActivateSecondPlaces
<1>5. DOMAIN new = 1 .. n
  BY <1>3, <1>4
<1> HIDE DEF n, new
<1>6. PICK i \in 1 .. n, j \in 1 .. n : 1 < i /\ i < j /\ new[i] = x /\ new[j] = y
  BY <1>5 DEF Behind, new
<1>7. CASE j = n
  BY <1>4, <1>5, <1>6, <1>7
<1>8. CASE j # n
  <2>1. i + 1 \in 1 .. n /\ j + 1 \in 1 .. n /\ 1 < i + 1 /\ i + 1 < j + 1 /\ s[i + 1] = x /\ s[j + 1] = y
    BY <1>1, <1>4, <1>5, <1>6, <1>8
  <2> QED BY <1>1, <2>1 DEF Behind
<1> QED BY <1>7, <1>8

(***************************************************************************)
(* MoveToSecond puts a group among the first two, and keeps the order of   *)
(* the others.                                                             *)
(***************************************************************************)
LEMMA MoveToSecondFacts ==
  ASSUME NEW s \in Seq(Group), Once(s), NEW g \in InList(s)
  PROVE  LET new == MoveToSecond(s, g)
         IN  /\ new \in Seq(Group) /\ Once(new) /\ InList(new) = InList(s)
             /\ \A x, y : Behind(new, x, y) => y # g /\ (x = g \/ Behind(s, x, y))
<1> DEFINE n == Len(s)
           new == MoveToSecond(s, g)
           w == Without(s, g)
           k == Place(s, g)
<1>1. n \in Nat /\ DOMAIN s = 1 .. n
  OBVIOUS
<1>2. /\ k \in 1 .. n /\ s[k] = g
      /\ w \in Seq(Group) /\ Len(w) = n - 1
      /\ \A i \in 1 .. n - 1 : w[i] = IF i < k THEN s[i] ELSE s[i + 1]
  BY <1>1, RemovePlaces
<1>3. w \in Seq(Group) /\ InList(w) = InList(s) \ {g} /\ Once(w)
  BY RemoveFacts
<1>4. g \in Group
  BY DEF InList
<1> HIDE DEF n, k, w
<1>5. CASE g = s[1] \/ g = s[2]
  <2>1. new = s
    BY <1>5 DEF MoveToSecond
  <2>2. ASSUME NEW x, NEW y, Behind(s, x, y) PROVE y # g
    <3>1. PICK i \in 1 .. n, j \in 1 .. n : 1 < i /\ i < j /\ s[j] = y
      BY <1>1, <2>2 DEF Behind
    <3>2. j # 1 /\ j # 2 /\ 1 \in 1 .. n /\ 2 \in 1 .. n
      BY <1>1, <3>1
    <3> QED BY <1>1, <1>5, <3>1, <3>2 DEF Once
  <2> QED BY <2>1, <2>2
<1>6. CASE ~ (g = s[1] \/ g = s[2])
  <2>1. k \in 3 .. n
    BY <1>1, <1>2, <1>6
  <2>2. w # <<>> /\ Head(w) = s[1] /\ w[1] = s[1]
    BY <1>1, <1>2, <2>1
  <2> DEFINE rest == Tail(w)
  <2>3. rest \in Seq(Group) /\ Once(rest) /\ InList(rest) = InList(w) \ {s[1]}
        /\ s[1] \in InList(w) /\ s[1] \in Group
    BY <1>3, <2>2, RemoveFirstFacts
  <2>4. Len(rest) = n - 2 /\ \A i \in 1 .. n - 2 : rest[i] = w[i + 1]
    BY <1>1, <1>2, <2>1, <2>2
  <2> HIDE DEF rest
  <2> DEFINE back == <<g>> \o rest
             whole == <<s[1]>> \o back
  <2>5. /\ back \in Seq(Group) /\ InList(back) = {g} \cup InList(rest)
        /\ Once(rest) /\ g \notin InList(rest) => Once(back)
    BY <1>4, <2>3, AddFirstFacts
  <2>6. Len(back) = n - 1 /\ \A i \in 1 .. n - 1 : back[i] = IF i = 1 THEN g ELSE rest[i - 1]
    BY <1>1, <1>4, <2>1, <2>3, <2>4
  <2>7. Once(back) /\ InList(back) = {g} \cup (InList(w) \ {s[1]})
    BY <1>3, <2>3, <2>5
  <2>8. new = whole
    <3>1. new = <<s[1], g>> \o rest
      BY <1>6 DEF MoveToSecond, w, rest
    <3>2. <<s[1], g>> \o rest = <<s[1]>> \o (<<g>> \o rest)
      BY <1>4, <2>3
    <3> QED BY <3>1, <3>2
  <2> HIDE DEF back
  <2>9. /\ whole \in Seq(Group) /\ InList(whole) = {s[1]} \cup InList(back)
        /\ Once(back) /\ s[1] \notin InList(back) => Once(whole)
    BY <2>3, <2>5, AddFirstFacts
  <2>10. Len(whole) = n /\ \A i \in 1 .. n : whole[i] = IF i = 1 THEN s[1] ELSE back[i - 1]
    BY <1>1, <2>1, <2>3, <2>5, <2>6
  <2>11. Once(whole) /\ InList(whole) = InList(s)
    BY <1>3, <1>6, <2>3, <2>7, <2>9
  <2> HIDE DEF whole
  <2>12. DOMAIN whole = 1 .. n
    BY <2>9, <2>10
  <2>13. ASSUME NEW i \in 3 .. n PROVE whole[i] = IF i <= k THEN s[i - 1] ELSE s[i]
    <3>2. /\ i \in 1 .. n /\ i - 1 \in 1 .. n - 1 /\ i - 2 \in 1 .. n - 2 /\ i # 1 /\ i - 1 # 1
          /\ (i - 1) - 1 = i - 2 /\ (i - 2) + 1 = i - 1
      BY <1>1
    <3>1. whole[i] = back[i - 1] /\ back[i - 1] = rest[i - 2] /\ rest[i - 2] = w[i - 1]
      BY <2>4, <2>6, <2>10, <3>2
    <3>3. w[i - 1] = IF i - 1 < k THEN s[i - 1] ELSE s[(i - 1) + 1]
      BY <1>2, <3>2
    <3> QED BY <1>1, <1>2, <3>1, <3>2, <3>3
  <2>14. whole[2] = g
    BY <1>1, <2>1, <2>6, <2>10
  <2>15. ASSUME NEW x, NEW y, Behind(whole, x, y) PROVE y # g /\ (x = g \/ Behind(s, x, y))
    <3>1. PICK i \in 1 .. n, j \in 1 .. n : 1 < i /\ i < j /\ whole[i] = x /\ whole[j] = y
      BY <2>12, <2>15 DEF Behind
    <3>2. j \in 3 .. n /\ 2 \in 1 .. n /\ j # 2
      BY <1>1, <3>1
    <3>3. y # g
      BY <2>11, <2>12, <2>14, <3>1, <3>2 DEF Once
    <3>4. CASE i = 2
      BY <2>14, <3>1, <3>3, <3>4
    <3>5. CASE i # 2
      <4> DEFINE i2 == IF i <= k THEN i - 1 ELSE i
                 j2 == IF j <= k THEN j - 1 ELSE j
      <4>1. i \in 3 .. n
        BY <1>1, <3>1, <3>5
      <4>2. s[i2] = x /\ s[j2] = y
        BY <2>13, <3>1, <3>2, <4>1
      <4>3. i2 \in 1 .. n /\ j2 \in 1 .. n /\ 1 < i2 /\ i2 < j2
        BY <1>1, <1>2, <3>1, <3>2, <4>1
      <4> QED BY <1>1, <3>3, <4>2, <4>3 DEF Behind
    <3> QED BY <3>4, <3>5
  <2> QED BY <2>8, <2>9, <2>11, <2>15
<1> QED BY <1>5, <1>6

-----------------------------------------------------------------------------
(* The public lists: the facts of ListProofs, with groups as nodes.        *)

(* A list holds its first group, and nothing if there is none.             *)
LEMMA LinksHead ==
  ASSUME NEW nxt \in [Group -> Group \cup {NoGroup}], NEW first \in Group \cup {NoGroup}
  PROVE  /\ Reach(nxt, first) \subseteq Group
         /\ first # NoGroup => first \in Reach(nxt, first)
         /\ first = NoGroup => Reach(nxt, first) = {}
BY ReachClosed, ReachNothing, NoGroupAssumption

(* Links of groups outside the list do not matter.                         *)
LEMMA LinksFrame ==
  ASSUME NEW nxt \in [Group -> Group \cup {NoGroup}], NEW nxt2 \in [Group -> Group \cup {NoGroup}],
         NEW first, \A g \in Reach(nxt, first) : nxt2[g] = nxt[g]
  PROVE  /\ Reach(nxt2, first) = Reach(nxt, first)
         /\ IsProperList(nxt, first, NoGroup) => IsProperList(nxt2, first, NoGroup)
<1>1. DOMAIN nxt = Group /\ DOMAIN nxt2 = Group
  OBVIOUS
<1>2. Reach(nxt2, first) = Reach(nxt, first)
  BY <1>1, ReachFrame
<1>3. IsProperList(nxt, first, NoGroup) => IsProperList(nxt2, first, NoGroup)
  BY <1>1, ProperFrame
<1> QED BY <1>2, <1>3

(* The list without its first group.                                       *)
LEMMA LinksPop ==
  ASSUME NEW nxt \in [Group -> Group \cup {NoGroup}], NEW first \in Group,
         IsProperList(nxt, first, NoGroup)
  PROVE  /\ Reach(nxt, nxt[first]) = Reach(nxt, first) \ {first}
         /\ IsProperList(nxt, nxt[first], NoGroup)
<1>1. DOMAIN nxt = Group /\ NoGroup \notin DOMAIN nxt /\ first \in DOMAIN nxt
  BY NoGroupAssumption
<1> QED BY <1>1, PopFirst

(* The list with a group more, which is linked to its first one.           *)
LEMMA LinksPush ==
  ASSUME NEW nxt \in [Group -> Group \cup {NoGroup}], NEW first, NEW new \in Group,
         IsProperList(nxt, first, NoGroup), new \notin Reach(nxt, first), nxt[new] = first
  PROVE  /\ Reach(nxt, new) = Reach(nxt, first) \cup {new}
         /\ IsProperList(nxt, new, NoGroup)
<1>1. DOMAIN nxt = Group /\ NoGroup \notin DOMAIN nxt /\ new \in DOMAIN nxt
  BY NoGroupAssumption
<1>2. \A g \in DOMAIN nxt \ {new} : nxt[g] = nxt[g]
  OBVIOUS
<1> QED BY <1>1, <1>2, PushFirst

-----------------------------------------------------------------------------
(* The inductive invariant.                                                *)

(* GroupsExclusive, and the groups on their way to the block allocator.    *)
GroupsApart ==
  /\ \A t \in Thread : Once(bin[t])
  /\ \A g \in Group, t \in Thread : ParentBin[g] = t <=> g \in InList(bin[t])
  /\ \A g \in available : ParentBin[g] = NoBin

GroupsReturned ==
  \A t \in Thread : pc[t] = "returnGroup" =>
    /\ group[t] \in Group \ available /\ ParentBin[group[t]] = NoBin
    /\ \A u \in Thread : pc[u] = "returnGroup" /\ group[u] = group[t] => u = t

(* The locations of a group in a bin are all somewhere: with the owner, in *)
(* the public free list, with a client, or with a thread that pushes one.  *)
Pushers(g) == {t \in Thread : pc[t] = "push" /\ group[t] = g}

LocationsCounted ==
  \A g \in Group :
    IF ParentBin[g] = NoBin
    THEN live[g] = 0 /\ public[g] = 0
    ELSE /\ IsFiniteSet(Pushers(g))
         /\ private[g] + public[g] + live[g] + Cardinality(Pushers(g)) = Locations

(* A group on the way to a public list stays in the bin of that list.      *)
Freeing == {"push", "addLock", "addLink", "addWrite"}

FreeingSound ==
  \A t \in Thread :
    /\ target[t] # NoBin <=> pc[t] \in Freeing \cup {"addUnlock"}
    /\ pc[t] \in Freeing => group[t] \in Group /\ ParentBin[group[t]] = target[t]

(* PublicListSound, its part about the lists.                              *)
PublicLists ==
  \A t \in Thread :
    /\ IsProperList(NextPublic, PublicGroup[t], NoGroup)
    /\ \A g \in PublicList(t) : ParentBin[g] = t /\ public[g] > 0

(* A group to be added is not in the list, and one thread adds it.         *)
AddingSound ==
  \A t \in Thread, g \in Group : Adding(t, g) =>
    /\ public[g] > 0 /\ g \notin PublicList(target[t])
    /\ \A u \in Thread : Adding(u, g) => u = t
    /\ pc[t] = "addWrite" => NextPublic[g] = PublicGroup[target[t]]

(* Nobody adds a group that its owner has taken.                           *)
TakenSound ==
  \A t \in Thread, g \in Group : Taken(t, g) =>
    /\ ParentBin[g] = t /\ public[g] > 0 /\ g \notin PublicList(t)
    /\ \A u \in Thread : ~ Adding(u, g)

PublicKnown ==
  \A g \in Group : public[g] > 0 =>
    \/ g \in PublicList(ParentBin[g])
    \/ \E t \in Thread : Adding(t, g) \/ Taken(t, g)

(* The owner, once it saw a public list that was not empty, finds a group. *)
PopSound ==
  \A t \in Thread :
    /\ pc[t] \in {"popLock", "popRead", "popWrite"} => PublicGroup[t] # NoGroup
    /\ pc[t] = "popWrite" => group[t] = PublicGroup[t]
    /\ pc[t] \in {"popUnlock", "collect"} => group[t] \in Group
    /\ pc[t] = "scopeEnd" => group[t] = NoGroup

(* A thread looks further only if all its groups are exhausted, not just   *)
(* the two it looks at.                                                    *)
Searching == {"newGroup", "popLock", "popRead", "popWrite", "popUnlock", "collect"}

Exhausted ==
  \A t \in Thread : pc[t] \in Searching => \A g \in InList(bin[t]) : private[g] = 0

FreeFirst ==
  \A t \in Thread, x, y \in Group : Behind(bin[t], x, y) /\ private[y] > 0 => private[x] > 0

Inv ==
  /\ TypeOK /\ LockInv
  /\ GroupsApart /\ GroupsReturned
  /\ LocationsCounted
  /\ FreeingSound
  /\ PublicLists /\ AddingSound /\ TakenSound /\ PublicKnown /\ PopSound
  /\ Exhausted /\ FreeFirst

LEMMA InitInv == Init => Inv
<1> SUFFICES ASSUME Init PROVE Inv
  OBVIOUS
<1>1. TypeOK
  BY LocationsAssumption DEF Init, TypeOK, PC
<1>2. \A t \in Thread : InList(bin[t]) = {} /\ Once(bin[t]) /\ \A x, y : ~ Behind(bin[t], x, y)
  BY DEF Init, InList, Once, Behind
<1>3. GroupsApart /\ GroupsReturned /\ Exhausted /\ FreeFirst
  BY <1>2, NoBinAssumption DEF Init, GroupsApart, GroupsReturned, Exhausted, FreeFirst, Searching
<1>4. \A t \in Thread : PublicList(t) = {} /\ IsProperList(NextPublic, PublicGroup[t], NoGroup)
  BY <1>1, LinksHead DEF Init, PublicList, IsProperList, TypeOK
<1>5. PublicLists /\ AddingSound /\ TakenSound /\ PublicKnown /\ PopSound
  BY <1>4 DEF Init, PublicLists, AddingSound, TakenSound, PublicKnown, PopSound, Adding, Taken
<1>6. LocationsCounted /\ FreeingSound
  BY DEF Init, LocationsCounted, FreeingSound, Freeing
<1> QED BY <1>1, <1>3, <1>5, <1>6, InitLockInv DEF Inv

-----------------------------------------------------------------------------
(* Parts of the invariant that a step leaves alone.                        *)

(***************************************************************************)
(* The public lists do not change if the groups that have an owner keep    *)
(* their links and those with public locations their owner, and nobody     *)
(* begins or ends to add or take a group.                                  *)
(***************************************************************************)
LEMMA PublicFrame ==
  ASSUME Inv, TypeOK', UNCHANGED <<PublicGroup, public>>,
         \A g \in Group : ParentBin[g] # NoBin => NextPublic'[g] = NextPublic[g],
         \A g \in Group : public[g] > 0 => ParentBin'[g] = ParentBin[g],
         \A u \in Thread, g \in Group :
           /\ Adding(u, g)' <=> Adding(u, g)
           /\ Taken(u, g)' <=> Taken(u, g)
           /\ Adding(u, g) => target'[u] = target[u] /\ (pc'[u] = "addWrite" => pc[u] = "addWrite")
  PROVE  PublicLists' /\ AddingSound' /\ TakenSound' /\ PublicKnown'
<1>1. \A g \in Group : public[g] > 0 => ParentBin[g] \in Thread
  BY DEF Inv, LocationsCounted, TypeOK
<1>2. ASSUME NEW b \in Thread
      PROVE  PublicList(b)' = PublicList(b) /\ IsProperList(NextPublic, PublicGroup[b], NoGroup)'
  <2>1. /\ NextPublic \in [Group -> Group \cup {NoGroup}]
        /\ NextPublic' \in [Group -> Group \cup {NoGroup}]
        /\ PublicGroup[b] \in Group \cup {NoGroup}
    BY DEF Inv, TypeOK
  <2>2. \A g \in PublicList(b) : g \in Group /\ ParentBin[g] = b
    BY <2>1, LinksHead DEF Inv, PublicLists, PublicList
  <2>3. \A g \in PublicList(b) : NextPublic'[g] = NextPublic[g]
    BY <2>2, NoBinAssumption
  <2>4. IsProperList(NextPublic, PublicGroup[b], NoGroup)
    BY DEF Inv, PublicLists
  <2> QED BY <2>1, <2>3, <2>4, LinksFrame DEF PublicList
<1>3. PublicLists'
  <2>1. \A b \in Thread : PublicList(b) \subseteq Group
    BY LinksHead DEF PublicList, Inv, TypeOK
  <2> QED BY <1>2, <2>1 DEF Inv, PublicLists
<1>4. \A u \in Thread, g \in Group : Adding(u, g) => ParentBin[g] = target[u] /\ target[u] \in Thread
  BY <1>1 DEF Inv, AddingSound, FreeingSound, Adding, Freeing
<1>5. AddingSound'
  BY <1>2, <1>4, NoBinAssumption DEF Inv, AddingSound
<1>6. TakenSound'
  BY <1>2 DEF Inv, TakenSound
<1>7. PublicKnown'
  BY <1>1, <1>2 DEF Inv, PublicKnown
<1> QED BY <1>3, <1>5, <1>6, <1>7

(***************************************************************************)
(* A step that touches no group and no location, a push apart: its thread  *)
(* keeps the bin it has read, and looks further only when it may.          *)
(***************************************************************************)
LEMMA QuietStep ==
  ASSUME Inv, LockInv', NEW t \in Thread, UNCHANGED <<binVars, locationVars, groupVars>>,
         PublicGroup' \in [Thread -> Group \cup {NoGroup}],
         NextPublic' \in [Group -> Group \cup {NoGroup}],
         NEW l \in PC, NEW h \in Group \cup {NoGroup}, NEW b \in Thread \cup {NoBin},
         pc' = [pc EXCEPT ![t] = l], group' = [group EXCEPT ![t] = h],
         target' = [target EXCEPT ![t] = b],
         pc[t] # "push", l \notin {"push", "returnGroup"},
         b # NoBin <=> l \in Freeing \cup {"addUnlock"},
         l \in Freeing => h \in Group /\ ParentBin[h] = b,
         l \in Searching => \A g \in InList(bin[t]) : private[g] = 0
  PROVE  /\ TypeOK' /\ GroupsApart' /\ GroupsReturned' /\ LocationsCounted'
         /\ FreeingSound' /\ Exhausted' /\ FreeFirst'
<1>0. /\ pc \in [Thread -> PC] /\ group \in [Thread -> Group \cup {NoGroup}]
      /\ target \in [Thread -> Thread \cup {NoBin}]
      /\ UNCHANGED <<bin, ReturnAllowed, private, public, live, ParentBin, available>>
  BY DEF Inv, TypeOK, binVars, locationVars, groupVars
<1>1. /\ pc'[t] = l /\ group'[t] = h /\ target'[t] = b
      /\ \A u \in Thread \ {t} : pc'[u] = pc[u] /\ group'[u] = group[u] /\ target'[u] = target[u]
  BY <1>0
<1>2. TypeOK'
  BY <1>0 DEF Inv, TypeOK, LockInv, LockTypes
<1>3. GroupsApart' /\ GroupsReturned'
  BY <1>0, <1>1 DEF Inv, GroupsApart, GroupsReturned
<1>4. LocationsCounted'
  <2>1. \A g \in Group : Pushers(g)' = Pushers(g)
    BY <1>1 DEF Pushers
  <2> QED BY <1>0, <2>1 DEF Inv, LocationsCounted
<1>5. FreeingSound'
  BY <1>0, <1>1 DEF Inv, FreeingSound
<1>6. Exhausted' /\ FreeFirst'
  BY <1>0, <1>1 DEF Inv, Exhausted, FreeFirst
<1> QED BY <1>2, <1>3, <1>4, <1>5, <1>6

(***************************************************************************)
(* A step that only goes on from one statement to the next: what it has to *)
(* show is that its own thread is right to be there.                       *)
(***************************************************************************)
LEMMA LocalStep ==
  ASSUME Inv, LockInv', NEW t \in Thread,
         UNCHANGED <<PublicGroup, NextPublic, binVars, locationVars, groupVars>>,
         NEW l \in PC, NEW h \in Group \cup {NoGroup}, NEW b \in Thread \cup {NoBin},
         pc' = [pc EXCEPT ![t] = l], group' = [group EXCEPT ![t] = h],
         target' = [target EXCEPT ![t] = b],
         pc[t] # "push", l \notin {"push", "returnGroup", "addWrite"},
         b # NoBin <=> l \in Freeing \cup {"addUnlock"},
         l \in Freeing => h \in Group /\ ParentBin[h] = b,
         l \in Searching => \A g \in InList(bin[t]) : private[g] = 0,
         \A g \in Group :
           /\ Adding(t, g)' <=> Adding(t, g)
           /\ Taken(t, g)' <=> Taken(t, g)
           /\ Adding(t, g) => b = target[t],
         l \in {"popLock", "popRead", "popWrite"} => PublicGroup[t] # NoGroup,
         l = "popWrite" => h = PublicGroup[t],
         l \in {"popUnlock", "collect"} => h \in Group,
         l = "scopeEnd" => h = NoGroup
  PROVE  Inv'
<1>0. /\ pc \in [Thread -> PC] /\ group \in [Thread -> Group \cup {NoGroup}]
      /\ target \in [Thread -> Thread \cup {NoBin}]
      /\ UNCHANGED <<ParentBin, public, PublicGroup, NextPublic>>
      /\ PublicGroup \in [Thread -> Group \cup {NoGroup}]
      /\ NextPublic \in [Group -> Group \cup {NoGroup}]
  BY DEF Inv, TypeOK, locationVars, groupVars
<1>1. /\ pc'[t] = l /\ group'[t] = h /\ target'[t] = b
      /\ \A u \in Thread \ {t} : pc'[u] = pc[u] /\ group'[u] = group[u] /\ target'[u] = target[u]
  BY <1>0
<1>2. /\ TypeOK' /\ GroupsApart' /\ GroupsReturned' /\ LocationsCounted'
      /\ FreeingSound' /\ Exhausted' /\ FreeFirst'
  BY <1>0, QuietStep
<1>3. PublicLists' /\ AddingSound' /\ TakenSound' /\ PublicKnown'
  <2>1. \A u \in Thread, g \in Group :
           /\ Adding(u, g)' <=> Adding(u, g)
           /\ Taken(u, g)' <=> Taken(u, g)
           /\ Adding(u, g) => target'[u] = target[u] /\ (pc'[u] = "addWrite" => pc[u] = "addWrite")
    <3>1. ASSUME NEW u \in Thread \ {t}, NEW g \in Group
          PROVE  (Adding(u, g)' <=> Adding(u, g)) /\ (Taken(u, g)' <=> Taken(u, g))
      BY <1>1 DEF Adding, Taken
    <3> QED BY <1>1, <3>1
  <2> QED BY <1>0, <1>2, <2>1, PublicFrame
<1>4. PopSound'
  BY <1>0, <1>1 DEF Inv, PopSound
<1> QED BY <1>2, <1>3, <1>4 DEF Inv

LEMMA LocalStepsInv ==
  ASSUME Inv, LockInv', ~ ReleaseTwice, NEW t \in Thread,
         \/ LookForPublic(t) \/ PopLock(t) \/ PopRead(t) \/ PopUnlock(t) \/ ScopeEnd(t)
         \/ OutOfMemory(t) \/ AddLock(t) \/ AddUnlock(t)
  PROVE  Inv'
<1>0. /\ pc \in [Thread -> PC] /\ group \in [Thread -> Group \cup {NoGroup}]
      /\ target \in [Thread -> Thread \cup {NoBin}] /\ PublicGroup \in [Thread -> Group \cup {NoGroup}]
      /\ group = [group EXCEPT ![t] = group[t]] /\ target = [target EXCEPT ![t] = target[t]]
      /\ NoBin \notin Thread
      /\ target[t] # NoBin <=> pc[t] \in Freeing \cup {"addUnlock"}
  BY NoBinAssumption DEF Inv, TypeOK, FreeingSound
<1> USE DEF Goto, Return, PC, AddHolds, PopHolds, Freeing, Searching
<1>1. CASE LookForPublic(t)
  <2> DEFINE l == IF PublicGroup[t] # NoGroup THEN "popLock" ELSE "newGroup"
  <2>1. ASSUME NEW g \in InList(bin[t]) PROVE private[g] = 0
    <3> DEFINE s == bin[t]
    <3>1. s \in Seq(Group) /\ Once(s)
      BY DEF Inv, TypeOK, GroupsApart
    <3>2. PICK i \in DOMAIN s : s[i] = g
      BY DEF InList
    <3>3. i \in Nat \ {0} /\ g \in Group /\ private[g] \in Nat
      BY <3>1, <3>2 DEF Inv, TypeOK
    <3>4. CASE i = 1
      BY <1>1, <3>1, <3>2, <3>4 DEF LookForPublic, OwnGroupsExhausted, ActiveExhausted
    <3>5. CASE i = 2
      <4>1. Len(s) >= 2
        BY <3>1, <3>2, <3>5
      <4> QED BY <1>1, <3>2, <3>3, <3>5, <4>1
              DEF LookForPublic, OwnGroupsExhausted, IsEmptyEnough
    <3>6. CASE i > 2
      <4>1. 2 \in DOMAIN s /\ s[2] \in Group /\ Len(s) >= 2
        BY <3>1, <3>2, <3>6
      <4>2. Behind(s, s[2], g)
        BY <3>2, <3>6, <4>1 DEF Behind
      <4>3. ~ (private[s[2]] > 0)
        BY <1>1, <4>1 DEF LookForPublic, OwnGroupsExhausted, IsEmptyEnough
      <4> QED BY <3>3, <4>1, <4>2, <4>3 DEF Inv, FreeFirst
    <3> QED BY <3>3, <3>4, <3>5, <3>6
  <2>2. /\ pc[t] = "idle" /\ pc' = [pc EXCEPT ![t] = l] /\ group' = group /\ target' = target
        /\ UNCHANGED <<PublicGroup, NextPublic, binVars, locationVars, groupVars>>
    BY <1>1 DEF LookForPublic, listVars
  <2>3. /\ pc'[t] = l /\ l \in {"popLock", "newGroup"}
        /\ l = "popLock" => PublicGroup[t] # NoGroup
    BY <1>0, <2>2
  <2> HIDE DEF l
  <2>4. \A g \in Group : ~ Adding(t, g)' /\ ~ Adding(t, g) /\ ~ Taken(t, g)' /\ ~ Taken(t, g)
    BY <2>2, <2>3 DEF Adding, Taken
  <2> QED BY <1>0, <2>1, <2>2, <2>3, <2>4, LocalStep
<1>2. CASE PopLock(t)
  <2>1. /\ pc[t] = "popLock" /\ pc' = [pc EXCEPT ![t] = "popRead"] /\ group' = group /\ target' = target
        /\ UNCHANGED <<PublicGroup, NextPublic, binVars, locationVars, groupVars>>
        /\ pc'[t] = "popRead" /\ PublicGroup[t] # NoGroup
        /\ \A g \in InList(bin[t]) : private[g] = 0
    BY <1>0, <1>2 DEF PopLock, Inv, PopSound, Exhausted
  <2>2. \A g \in Group : ~ Adding(t, g)' /\ ~ Adding(t, g) /\ ~ Taken(t, g)' /\ ~ Taken(t, g)
    BY <2>1 DEF Adding, Taken
  <2> QED BY <1>0, <2>1, <2>2, LocalStep
<1>3. CASE PopRead(t)
  <2>1. /\ pc[t] = "popRead" /\ pc' = [pc EXCEPT ![t] = "popWrite"] /\ target' = target
        /\ group' = [group EXCEPT ![t] = PublicGroup[t]]
        /\ UNCHANGED <<PublicGroup, NextPublic, binVars, locationVars, groupVars>>
        /\ pc'[t] = "popWrite" /\ PublicGroup[t] # NoGroup
        /\ \A g \in InList(bin[t]) : private[g] = 0
    BY <1>0, <1>3 DEF PopRead, listVars, Inv, PopSound, Exhausted
  <2>2. \A g \in Group : ~ Adding(t, g)' /\ ~ Adding(t, g) /\ ~ Taken(t, g)' /\ ~ Taken(t, g)
    BY <2>1 DEF Adding, Taken
  <2> QED BY <1>0, <2>1, <2>2, LocalStep
<1>4. CASE PopUnlock(t)
  <2>1. /\ pc[t] = "popUnlock" /\ pc' = [pc EXCEPT ![t] = "collect"] /\ group' = group /\ target' = target
        /\ UNCHANGED <<PublicGroup, NextPublic, binVars, locationVars, groupVars>>
        /\ pc'[t] = "collect" /\ group[t] \in Group
        /\ \A g \in InList(bin[t]) : private[g] = 0
    BY <1>0, <1>4 DEF PopUnlock, Inv, PopSound, Exhausted
  <2>2. \A g \in Group : ~ Adding(t, g)' /\ ~ Adding(t, g) /\ (Taken(t, g)' <=> Taken(t, g))
    BY <2>1 DEF Adding, Taken
  <2> QED BY <1>0, <2>1, <2>2, LocalStep
<1>5. CASE ScopeEnd(t) \/ OutOfMemory(t)
  <2>1. /\ pc[t] \in {"scopeEnd", "newGroup"} /\ pc' = [pc EXCEPT ![t] = "idle"] /\ target' = target
        /\ group' = [group EXCEPT ![t] = NoGroup] \/ group' = group
        /\ UNCHANGED <<PublicGroup, NextPublic, binVars, locationVars, groupVars>>
        /\ pc'[t] = "idle"
    BY <1>0, <1>5 DEF ScopeEnd, OutOfMemory, listVars, Inv, PopSound
  <2>2. \A g \in Group : ~ Adding(t, g)' /\ ~ Adding(t, g) /\ ~ Taken(t, g)' /\ ~ Taken(t, g)
    BY <2>1 DEF Adding, Taken
  <2>3. PICK h \in Group \cup {NoGroup} : group' = [group EXCEPT ![t] = h]
    BY <1>0, <2>1
  <2> QED BY <1>0, <2>1, <2>2, <2>3, LocalStep
<1>6. CASE AddLock(t)
  <2>1. /\ pc[t] = "addLock" /\ pc' = [pc EXCEPT ![t] = "addLink"] /\ group' = group /\ target' = target
        /\ UNCHANGED <<PublicGroup, NextPublic, binVars, locationVars, groupVars>>
        /\ pc'[t] = "addLink" /\ group[t] \in Group /\ ParentBin[group[t]] = target[t]
    BY <1>0, <1>6 DEF AddLock, Inv, FreeingSound
  <2>2. \A g \in Group : (Adding(t, g)' <=> Adding(t, g)) /\ ~ Taken(t, g)' /\ ~ Taken(t, g)
    BY <2>1 DEF Adding, Taken
  <2> QED BY <1>0, <2>1, <2>2, LocalStep
<1>7. CASE AddUnlock(t)
  <2>1. /\ pc[t] = "addUnlock" /\ pc' = [pc EXCEPT ![t] = "idle"]
        /\ group' = [group EXCEPT ![t] = NoGroup] /\ target' = [target EXCEPT ![t] = NoBin]
        /\ UNCHANGED <<PublicGroup, NextPublic, binVars, locationVars, groupVars>>
        /\ pc'[t] = "idle"
    BY <1>0, <1>7 DEF AddUnlock
  <2>2. \A g \in Group : ~ Adding(t, g)' /\ ~ Adding(t, g) /\ ~ Taken(t, g)' /\ ~ Taken(t, g)
    BY <2>1 DEF Adding, Taken
  <2> QED BY <1>0, <2>1, <2>2, LocalStep
<1> QED BY <1>1, <1>2, <1>3, <1>4, <1>5, <1>6, <1>7

-----------------------------------------------------------------------------
(* The steps that change a public list.                                    *)

(* The public list of a bin is changed by one thread at a time.            *)
LEMMA HoldsAlone ==
  ASSUME Inv, NEW t \in Thread, NEW u \in Thread, pc[u] \in AddHolds
  PROVE  /\ pc[t] \in PopHolds => target[u] # t
         /\ pc[t] \in AddHolds /\ target[t] = target[u] => t = u
<1>1. target[u] \in Thread
  BY DEF Inv, LockInv, TargetKnown
<1>2. \A b \in Thread : \A v, w \in Holders(b) : v = w
  BY DEF Inv, LockInv, HeldOnce
<1>3. PopHolds \cap AddHolds = {}
  BY DEF PopHolds, AddHolds
<1> QED BY <1>1, <1>2, <1>3 DEF Holders

(***************************************************************************)
(* The owner unlinks the first group: it has taken it, and nobody adds it. *)
(***************************************************************************)
LEMMA PopWriteInv ==
  ASSUME Inv, LockInv', NEW t \in Thread, PopWrite(t)
  PROVE  Inv'
<1> DEFINE g == group[t]
<1>0. /\ pc \in [Thread -> PC] /\ group \in [Thread -> Group \cup {NoGroup}]
      /\ target \in [Thread -> Thread \cup {NoBin}] /\ PublicGroup \in [Thread -> Group \cup {NoGroup}]
      /\ NextPublic \in [Group -> Group \cup {NoGroup}]
      /\ group = [group EXCEPT ![t] = group[t]] /\ target = [target EXCEPT ![t] = target[t]]
      /\ NoBin \notin Thread
  BY NoBinAssumption DEF Inv, TypeOK
<1>1. /\ pc[t] = "popWrite" /\ g \in Group /\ g = PublicGroup[t]
      /\ pc' = [pc EXCEPT ![t] = "popUnlock"] /\ group' = group /\ target' = target
      /\ PublicGroup' = [PublicGroup EXCEPT ![t] = NextPublic[g]] /\ NextPublic' = NextPublic
      /\ UNCHANGED <<binVars, locationVars, groupVars, ParentBin, public>>
  BY <1>0 DEF PopWrite, Goto, Inv, PopSound, locationVars, groupVars
<1>2. /\ pc'[t] = "popUnlock" /\ \A u \in Thread \ {t} : pc'[u] = pc[u]
      /\ PublicGroup' \in [Thread -> Group \cup {NoGroup}]
      /\ \A b \in Thread \ {t} : PublicGroup'[b] = PublicGroup[b]
      /\ PublicGroup'[t] = NextPublic[g]
  BY <1>0, <1>1
<1>3. /\ TypeOK' /\ GroupsApart' /\ GroupsReturned' /\ LocationsCounted'
      /\ FreeingSound' /\ Exhausted' /\ FreeFirst'
  <2>1. /\ target[t] = NoBin
        /\ \A h \in InList(bin[t]) : private[h] = 0
    BY <1>1 DEF Inv, FreeingSound, Freeing, Exhausted, Searching
  <2>2. /\ pc' = [pc EXCEPT ![t] = "popUnlock"]
        /\ group' = [group EXCEPT ![t] = g] /\ target' = [target EXCEPT ![t] = NoBin]
        /\ PublicGroup' \in [Thread -> Group \cup {NoGroup}]
        /\ NextPublic' \in [Group -> Group \cup {NoGroup}]
        /\ UNCHANGED <<binVars, locationVars, groupVars>>
        /\ pc[t] # "push" /\ g \in Group
    BY <1>0, <1>1, <1>2, <2>1
  <2>3. /\ "popUnlock" \in PC /\ "popUnlock" \notin {"push", "returnGroup"}
        /\ "popUnlock" \notin Freeing \cup {"addUnlock"}
    BY DEF PC, PopHolds, Freeing
  <2> HIDE DEF g
  <2> QED BY <2>1, <2>2, <2>3, QuietStep
<1> HIDE DEF g
<1>4. /\ IsProperList(NextPublic, PublicGroup[t], NoGroup)
      /\ g \in PublicList(t) /\ ParentBin[g] = t /\ public[g] > 0
  BY <1>0, <1>1, LinksHead, NoGroupAssumption DEF Inv, PublicLists, PublicList
<1>5. /\ PublicList(t)' = PublicList(t) \ {g}
      /\ IsProperList(NextPublic, PublicGroup[t], NoGroup)'
      /\ \A b \in Thread \ {t} : PublicList(b)' = PublicList(b)
  BY <1>0, <1>1, <1>2, <1>4, LinksPop DEF PublicList
<1>6. PublicLists'
  BY <1>1, <1>2, <1>5 DEF Inv, PublicLists
<1>7. /\ \A u \in Thread, h \in Group : Adding(u, h)' <=> Adding(u, h)
      /\ \A u \in Thread, h \in Group : Taken(u, h)' <=> Taken(u, h) \/ (u = t /\ h = g)
      /\ \A u \in Thread : pc'[u] = "addWrite" => pc[u] = "addWrite" /\ u # t
      /\ \A h \in Group : ~ Adding(t, h)
  BY <1>1, <1>2 DEF Adding, Taken, g
<1>8. \A u \in Thread, h \in Group : Adding(u, h) => target[u] = ParentBin[h] /\ target[u] \in Thread
  BY <1>0 DEF Inv, FreeingSound, Adding, Freeing
<1>9. \A u \in Thread \ {t} : pc[u] = "addWrite" => target[u] # t
  BY <1>1, HoldsAlone DEF PopHolds, AddHolds
<1>10. AddingSound'
  <2> SUFFICES ASSUME NEW u \in Thread, NEW h \in Group, Adding(u, h)
               PROVE  /\ public[h] > 0 /\ h \notin PublicList(target[u])'
                      /\ \A v \in Thread : Adding(v, h) => v = u
                      /\ pc'[u] = "addWrite" => NextPublic[h] = PublicGroup'[target[u]]
    BY <1>1, <1>7 DEF AddingSound
  <2>1. /\ public[h] > 0 /\ h \notin PublicList(target[u])
        /\ \A v \in Thread : Adding(v, h) => v = u
        /\ pc[u] = "addWrite" => NextPublic[h] = PublicGroup[target[u]]
    BY DEF Inv, AddingSound
  <2>2. target[u] \in Thread
    BY <1>8
  <2>3. pc'[u] = "addWrite" => target[u] # t /\ pc[u] = "addWrite"
    BY <1>7, <1>9
  <2> QED BY <1>1, <1>2, <1>5, <2>1, <2>2, <2>3
<1>11. TakenSound'
  <2>1. \A u \in Thread : ~ Adding(u, g)
    BY <1>4, <1>8, <1>1 DEF Inv, AddingSound
  <2> QED BY <1>1, <1>4, <1>5, <1>7, <2>1 DEF Inv, TakenSound
<1>12. PublicKnown'
  <2> SUFFICES ASSUME NEW h \in Group, public[h] > 0
               PROVE  \/ h \in PublicList(ParentBin[h])'
                      \/ \E u \in Thread : Adding(u, h)' \/ Taken(u, h)'
    BY <1>1 DEF PublicKnown
  <2>1. ParentBin[h] \in Thread
    BY DEF Inv, LocationsCounted, TypeOK
  <2>2. h \in PublicList(ParentBin[h]) \/ \E u \in Thread : Adding(u, h) \/ Taken(u, h)
    BY DEF Inv, PublicKnown
  <2> QED BY <1>1, <1>5, <1>7, <2>1, <2>2
<1>13. PopSound'
  BY <1>0, <1>1, <1>2 DEF Inv, PopSound, g
<1> QED BY <1>3, <1>6, <1>10, <1>11, <1>12, <1>13 DEF Inv

(***************************************************************************)
(* A freeing thread links its group to the first one: the group is in no   *)
(* list yet.                                                               *)
(***************************************************************************)
LEMMA AddLinkInv ==
  ASSUME Inv, LockInv', NEW t \in Thread, AddLink(t)
  PROVE  Inv'
<1>0. /\ pc \in [Thread -> PC] /\ group \in [Thread -> Group \cup {NoGroup}]
      /\ target \in [Thread -> Thread \cup {NoBin}] /\ PublicGroup \in [Thread -> Group \cup {NoGroup}]
      /\ NextPublic \in [Group -> Group \cup {NoGroup}]
      /\ group = [group EXCEPT ![t] = group[t]] /\ target = [target EXCEPT ![t] = target[t]]
      /\ NoBin \notin Thread
  BY NoBinAssumption DEF Inv, TypeOK
<1>pick. PICK g \in Group, b \in Thread : g = group[t] /\ b = target[t] /\ ParentBin[g] = b
  BY <1>0 DEF AddLink, Inv, FreeingSound, Freeing
<1>1. /\ pc[t] = "addLink" /\ Adding(t, g)
      /\ g = group[t] /\ b = target[t] /\ ParentBin[g] = b
      /\ pc' = [pc EXCEPT ![t] = "addWrite"] /\ group' = group /\ target' = target
      /\ NextPublic' = [NextPublic EXCEPT ![g] = PublicGroup[b]] /\ PublicGroup' = PublicGroup
      /\ UNCHANGED <<binVars, locationVars, groupVars, ParentBin, public>>
  BY <1>0, <1>pick DEF AddLink, Goto, locationVars, groupVars, Adding
<1>2. /\ pc'[t] = "addWrite" /\ \A u \in Thread \ {t} : pc'[u] = pc[u]
      /\ NextPublic' \in [Group -> Group \cup {NoGroup}]
      /\ \A h \in Group \ {g} : NextPublic'[h] = NextPublic[h]
      /\ NextPublic'[g] = PublicGroup[b]
  BY <1>0, <1>1
<1>3. /\ TypeOK' /\ GroupsApart' /\ GroupsReturned' /\ LocationsCounted'
      /\ FreeingSound' /\ Exhausted' /\ FreeFirst'
  <2>1. /\ pc' = [pc EXCEPT ![t] = "addWrite"]
        /\ group' = [group EXCEPT ![t] = g] /\ target' = [target EXCEPT ![t] = b]
        /\ PublicGroup' \in [Thread -> Group \cup {NoGroup}]
        /\ NextPublic' \in [Group -> Group \cup {NoGroup}]
        /\ UNCHANGED <<binVars, locationVars, groupVars>>
        /\ pc[t] # "push" /\ b # NoBin /\ ParentBin[g] = b
    BY <1>0, <1>1, <1>2
  <2>2. /\ "addWrite" \in PC /\ "addWrite" \notin {"push", "returnGroup"}
        /\ "addWrite" \in Freeing \cup {"addUnlock"} /\ "addWrite" \notin Searching
    BY DEF PC, AddHolds, Freeing, Searching
  <2> QED BY <2>1, <2>2, QuietStep
<1>4. \A c \in Thread : g \notin PublicList(c)
  <2>1. g \notin PublicList(b)
    BY <1>1 DEF Inv, AddingSound
  <2> QED BY <1>1, <2>1 DEF Inv, PublicLists
<1>5. \A c \in Thread : PublicList(c)' = PublicList(c) /\ IsProperList(NextPublic, PublicGroup[c], NoGroup)'
  <2> SUFFICES ASSUME NEW c \in Thread
               PROVE  /\ Reach(NextPublic', PublicGroup[c]) = Reach(NextPublic, PublicGroup[c])
                      /\ IsProperList(NextPublic', PublicGroup[c], NoGroup)
    BY <1>1 DEF PublicList
  <2>1. \A h \in Reach(NextPublic, PublicGroup[c]) : NextPublic'[h] = NextPublic[h]
    BY <1>0, <1>2, <1>4, LinksHead DEF PublicList
  <2>2. IsProperList(NextPublic, PublicGroup[c], NoGroup)
    BY DEF Inv, PublicLists
  <2> QED BY <1>0, <1>2, <2>1, <2>2, LinksFrame
<1>6. PublicLists'
  BY <1>1, <1>5 DEF Inv, PublicLists
<1>7. /\ \A u \in Thread, h \in Group : Adding(u, h)' <=> Adding(u, h)
      /\ \A u \in Thread, h \in Group : Taken(u, h)' <=> Taken(u, h)
      /\ \A h \in Group : Adding(t, h) => h = g
  BY <1>1, <1>2 DEF Adding, Taken
<1>8. \A u \in Thread, h \in Group : Adding(u, h) => target[u] \in Thread
  BY <1>0 DEF Inv, FreeingSound, Adding, Freeing
<1>9. AddingSound'
  <2> SUFFICES ASSUME NEW u \in Thread, NEW h \in Group, Adding(u, h)
               PROVE  /\ public[h] > 0 /\ h \notin PublicList(target[u])'
                      /\ \A v \in Thread : Adding(v, h) => v = u
                      /\ pc'[u] = "addWrite" => NextPublic'[h] = PublicGroup[target[u]]
    BY <1>1, <1>7 DEF AddingSound
  <2>1. /\ public[h] > 0 /\ h \notin PublicList(target[u])
        /\ \A v \in Thread : Adding(v, h) => v = u
        /\ pc[u] = "addWrite" => NextPublic[h] = PublicGroup[target[u]]
    BY DEF Inv, AddingSound
  <2>2. CASE u = t
    BY <1>2, <1>5, <1>7, <1>1, <1>8, <2>1, <2>2
  <2>3. CASE u # t
    BY <1>1, <1>2, <1>5, <1>8, <2>1, <2>3
  <2> QED BY <2>2, <2>3
<1>10. TakenSound' /\ PublicKnown'
  <2>1. \A h \in Group : public[h] > 0 => ParentBin[h] \in Thread
    BY DEF Inv, LocationsCounted, TypeOK
  <2> QED BY <1>1, <1>5, <1>7, <2>1 DEF Inv, TakenSound, PublicKnown
<1>11. PopSound'
  BY <1>1, <1>2 DEF Inv, PopSound
<1> QED BY <1>3, <1>6, <1>9, <1>10, <1>11 DEF Inv

(***************************************************************************)
(* The group becomes the first of the list: nobody else changes that list  *)
(* meanwhile, and the owner does not look at it under the lock.            *)
(***************************************************************************)
LEMMA AddWriteInv ==
  ASSUME Inv, LockInv', NEW t \in Thread, AddWrite(t)
  PROVE  Inv'
<1>0. /\ pc \in [Thread -> PC] /\ group \in [Thread -> Group \cup {NoGroup}]
      /\ target \in [Thread -> Thread \cup {NoBin}] /\ PublicGroup \in [Thread -> Group \cup {NoGroup}]
      /\ NextPublic \in [Group -> Group \cup {NoGroup}]
      /\ group = [group EXCEPT ![t] = group[t]] /\ target = [target EXCEPT ![t] = target[t]]
      /\ NoBin \notin Thread
  BY NoBinAssumption DEF Inv, TypeOK
<1>pick. PICK g \in Group, b \in Thread : g = group[t] /\ b = target[t] /\ ParentBin[g] = b
  BY <1>0 DEF AddWrite, Inv, FreeingSound, Freeing
<1>1. /\ pc[t] = "addWrite" /\ Adding(t, g)
      /\ g = group[t] /\ b = target[t] /\ ParentBin[g] = b
      /\ pc' = [pc EXCEPT ![t] = "addUnlock"] /\ group' = group /\ target' = target
      /\ PublicGroup' = [PublicGroup EXCEPT ![b] = g] /\ NextPublic' = NextPublic
      /\ UNCHANGED <<binVars, locationVars, groupVars, ParentBin, public>>
  BY <1>0, <1>pick DEF AddWrite, Goto, locationVars, groupVars, Adding
<1>2. /\ pc'[t] = "addUnlock" /\ \A u \in Thread \ {t} : pc'[u] = pc[u]
      /\ PublicGroup' \in [Thread -> Group \cup {NoGroup}]
      /\ \A c \in Thread \ {b} : PublicGroup'[c] = PublicGroup[c]
      /\ PublicGroup'[b] = g
  BY <1>0, <1>1
<1>3. /\ TypeOK' /\ GroupsApart' /\ GroupsReturned' /\ LocationsCounted'
      /\ FreeingSound' /\ Exhausted' /\ FreeFirst'
  <2>1. /\ pc' = [pc EXCEPT ![t] = "addUnlock"]
        /\ group' = [group EXCEPT ![t] = g] /\ target' = [target EXCEPT ![t] = b]
        /\ PublicGroup' \in [Thread -> Group \cup {NoGroup}]
        /\ NextPublic' \in [Group -> Group \cup {NoGroup}]
        /\ UNCHANGED <<binVars, locationVars, groupVars>>
        /\ pc[t] # "push" /\ b # NoBin /\ ParentBin[g] = b
    BY <1>0, <1>1, <1>2
  <2>2. /\ "addUnlock" \in PC /\ "addUnlock" \notin {"push", "returnGroup"}
        /\ "addUnlock" \in Freeing \cup {"addUnlock"} /\ "addUnlock" \notin Searching
    BY DEF PC, AddHolds, Freeing, Searching
  <2> QED BY <2>1, <2>2, QuietStep
<1>4. /\ g \notin PublicList(b) /\ public[g] > 0 /\ NextPublic[g] = PublicGroup[b]
      /\ IsProperList(NextPublic, PublicGroup[b], NoGroup)
      /\ \A u \in Thread : Adding(u, g) => u = t
  BY <1>1 DEF Inv, AddingSound, PublicLists
<1>5. /\ PublicList(b)' = PublicList(b) \cup {g}
      /\ IsProperList(NextPublic, PublicGroup[b], NoGroup)'
      /\ \A c \in Thread \ {b} : PublicList(c)' = PublicList(c)
  BY <1>0, <1>1, <1>2, <1>4, LinksPush DEF PublicList
<1>6. PublicLists'
  BY <1>1, <1>2, <1>4, <1>5 DEF Inv, PublicLists
<1>7. /\ \A u \in Thread, h \in Group : Adding(u, h)' <=> Adding(u, h) /\ u # t
      /\ \A u \in Thread, h \in Group : Taken(u, h)' <=> Taken(u, h)
      /\ \A h \in Group : Adding(t, h) => h = g
  BY <1>1, <1>2 DEF Adding, Taken
<1>8. \A u \in Thread, h \in Group : Adding(u, h) => target[u] \in Thread
  BY <1>0 DEF Inv, FreeingSound, Adding, Freeing
<1>9. /\ \A u \in Thread \ {t} : pc[u] = "addWrite" => target[u] # b
      /\ pc[b] \notin PopHolds
  BY <1>1, HoldsAlone DEF PopHolds, AddHolds
<1>10. AddingSound'
  <2> SUFFICES ASSUME NEW u \in Thread, NEW h \in Group, Adding(u, h), u # t
               PROVE  /\ public[h] > 0 /\ h \notin PublicList(target[u])'
                      /\ \A v \in Thread : Adding(v, h) => v = u
                      /\ pc'[u] = "addWrite" => NextPublic[h] = PublicGroup'[target[u]]
    BY <1>1, <1>7 DEF AddingSound
  <2>1. /\ public[h] > 0 /\ h \notin PublicList(target[u])
        /\ \A v \in Thread : Adding(v, h) => v = u
        /\ pc[u] = "addWrite" => NextPublic[h] = PublicGroup[target[u]]
    BY DEF Inv, AddingSound
  <2>2. h # g
    BY <1>4
  <2> QED BY <1>1, <1>2, <1>5, <1>8, <1>9, <2>1, <2>2
<1>11. TakenSound'
  <2>1. \A u \in Thread : ~ Taken(u, g)
    BY <1>1 DEF Inv, TakenSound
  <2> QED BY <1>1, <1>5, <1>7, <2>1 DEF Inv, TakenSound
<1>12. PublicKnown'
  <2> SUFFICES ASSUME NEW h \in Group, public[h] > 0
               PROVE  \/ h \in PublicList(ParentBin[h])'
                      \/ \E u \in Thread : Adding(u, h)' \/ Taken(u, h)'
    BY <1>1 DEF PublicKnown
  <2>1. ParentBin[h] \in Thread
    BY DEF Inv, LocationsCounted, TypeOK
  <2>2. h \in PublicList(ParentBin[h]) \/ \E u \in Thread : Adding(u, h) \/ Taken(u, h)
    BY DEF Inv, PublicKnown
  <2>3. h = g => h \in PublicList(ParentBin[h])'
    BY <1>1, <1>5
  <2> QED BY <1>1, <1>5, <1>7, <2>1, <2>2, <2>3
<1>13. PopSound'
  <2>1. \A u \in Thread : pc[u] = "popWrite" => u # b
    BY <1>9 DEF PopHolds
  <2> QED BY <1>1, <1>2, <2>1, NoGroupAssumption DEF Inv, PopSound
<1> QED BY <1>3, <1>6, <1>10, <1>11, <1>12, <1>13 DEF Inv

-----------------------------------------------------------------------------
(* The steps that move locations or groups.                                *)

LEMMA CountFacts ==
  ASSUME Inv, NEW g \in Group, ParentBin[g] # NoBin
  PROVE  /\ IsFiniteSet(Pushers(g)) /\ Cardinality(Pushers(g)) \in Nat
         /\ private[g] \in Nat /\ public[g] \in Nat /\ live[g] \in Nat /\ Locations \in Nat \ {0}
         /\ private[g] + public[g] + live[g] + Cardinality(Pushers(g)) = Locations
<1>1. /\ IsFiniteSet(Pushers(g))
      /\ private[g] + public[g] + live[g] + Cardinality(Pushers(g)) = Locations
  BY DEF Inv, LocationsCounted
<1>2. Cardinality(Pushers(g)) \in Nat
  BY <1>1, FS_CardinalityType
<1> QED BY <1>1, <1>2, LocationsAssumption DEF Inv, TypeOK

(* A bin has the groups that name it, and no other bin has them.           *)
LEMMA BinFacts ==
  ASSUME Inv, NEW t \in Thread
  PROVE  /\ bin[t] \in Seq(Group) /\ Once(bin[t])
         /\ \A g \in InList(bin[t]) : /\ g \in Group /\ ParentBin[g] = t
                                      /\ \A u \in Thread \ {t} : g \notin InList(bin[u])
<1>1. bin[t] \in Seq(Group)
  BY DEF Inv, TypeOK
<1>2. InList(bin[t]) \subseteq Group
  BY <1>1 DEF InList
<1> QED BY <1>1, <1>2 DEF Inv, GroupsApart

LEMMA BehindFacts ==
  ASSUME NEW s \in Seq(Group), Once(s), NEW x, NEW y, Behind(s, x, y)
  PROVE  x \in InList(s) /\ y \in InList(s) /\ x # Head(s) /\ y # Head(s)
<1>1. PICK i \in DOMAIN s, j \in DOMAIN s : 1 < i /\ i < j /\ s[i] = x /\ s[j] = y
  BY DEF Behind
<1>2. 1 \in DOMAIN s /\ Head(s) = s[1] /\ i # 1 /\ j # 1
  BY <1>1
<1>3. x # s[1] /\ y # s[1]
  BY <1>1, <1>2 DEF Once
<1> QED BY <1>1, <1>2, <1>3 DEF InList

(***************************************************************************)
(* The owner hands out a location of one of its groups, having changed the *)
(* order of its bin or not.                                                *)
(***************************************************************************)
LEMMA TakeStep ==
  ASSUME Inv, LockInv', NEW t \in Thread, NEW g \in InList(bin[t]), private[g] > 0, pc[t] = "idle",
         private' = [private EXCEPT ![g] = @ - 1], live' = [live EXCEPT ![g] = @ + 1],
         UNCHANGED <<ReturnAllowed, listVars, public, groupVars, threadVars>>,
         NEW s \in Seq(Group), bin' = [bin EXCEPT ![t] = s], Once(s), InList(s) = InList(bin[t]),
         \A x, y \in Group : Behind(s, x, y) /\ private[y] > 0 => Behind(bin[t], x, y) /\ x # g
  PROVE  Inv'
<1>0. /\ UNCHANGED <<PublicGroup, NextPublic, ParentBin, available, pc, group, target>>
      /\ g \in Group /\ ParentBin[g] = t
      /\ bin \in [Thread -> Seq(Group)]
  BY BinFacts DEF listVars, groupVars, threadVars, Inv, TypeOK
<1>1. /\ bin'[t] = s /\ \A u \in Thread \ {t} : bin'[u] = bin[u]
      /\ \A u \in Thread : InList(bin'[u]) = InList(bin[u]) /\ Once(bin'[u])
  BY <1>0 DEF Inv, GroupsApart
<1>2. /\ private \in [Group -> 0 .. Locations] /\ live \in [Group -> 0 .. Locations]
      /\ private[g] \in Nat /\ live[g] \in Nat /\ ParentBin[g] # NoBin
  BY <1>0, LocationsAssumption, NoBinAssumption DEF Inv, TypeOK
<1>3. /\ private[g] - 1 \in 0 .. Locations /\ live[g] + 1 \in 0 .. Locations
      /\ IsFiniteSet(Pushers(g))
      /\ (private[g] - 1) + public[g] + (live[g] + 1) + Cardinality(Pushers(g)) = Locations
  <2> DEFINE p == private[g]
             q == public[g]
             l == live[g]
             c == Cardinality(Pushers(g))
  <2>1. IsFiniteSet(Pushers(g)) /\ c \in Nat /\ p \in Nat /\ q \in Nat /\ l \in Nat
        /\ Locations \in Nat /\ p > 0 /\ p + q + l + c = Locations
    BY <1>0, <1>2, CountFacts
  <2> HIDE DEF p, q, l, c
  <2>2. p - 1 \in 0 .. Locations /\ l + 1 \in 0 .. Locations /\ (p - 1) + q + (l + 1) + c = Locations
    BY <2>1
  <2> QED BY <2>1, <2>2 DEF p, q, l, c
<1>4. /\ private'[g] = private[g] - 1 /\ live'[g] = live[g] + 1
      /\ \A h \in Group \ {g} : private'[h] = private[h] /\ live'[h] = live[h]
  BY <1>2, <1>0
<1>5. TypeOK'
  <2>1. private' \in [Group -> 0 .. Locations] /\ live' \in [Group -> 0 .. Locations]
    BY <1>2, <1>3
  <2>2. bin' \in [Thread -> Seq(Group)]
    BY <1>0
  <2> QED BY <1>0, <2>1, <2>2 DEF Inv, TypeOK, listVars
<1>6. GroupsApart' /\ GroupsReturned' /\ FreeingSound' /\ PopSound'
  BY <1>0, <1>1 DEF Inv, GroupsApart, GroupsReturned, FreeingSound, PopSound
<1>7. LocationsCounted'
  <2>1. \A h \in Group : Pushers(h)' = Pushers(h)
    BY <1>0 DEF Pushers
  <2> QED BY <1>0, <1>2, <1>3, <1>4, <2>1 DEF Inv, LocationsCounted
<1>8. PublicLists' /\ AddingSound' /\ TakenSound' /\ PublicKnown'
  <2>1. \A u \in Thread, h \in Group : (Adding(u, h)' <=> Adding(u, h)) /\ (Taken(u, h)' <=> Taken(u, h))
    BY <1>0 DEF Adding, Taken
  <2> QED BY <1>0, <1>5, <2>1, PublicFrame
<1>9. Exhausted'
  <2>1. \A u \in Thread : pc[u] \in Searching => u # t
    BY DEF Searching
  <2> QED BY <1>0, <1>1, <1>4, <2>1, BinFacts DEF Inv, Exhausted
<1>10. FreeFirst'
  <2> SUFFICES ASSUME NEW u \in Thread, NEW x \in Group, NEW y \in Group, Behind(bin'[u], x, y), private'[y] > 0
               PROVE  private'[x] > 0
    BY DEF FreeFirst
  <2>1. private[y] > 0
    BY <1>2, <1>4, <1>0
  <2>2. CASE u = t
    BY <1>1, <1>4, <2>1, <2>2 DEF Inv, FreeFirst
  <2>3. CASE u # t
    <3>1. Behind(bin[u], x, y)
      BY <1>1, <2>3
    <3>2. x \in InList(bin[u])
      BY <3>1, BinFacts, BehindFacts
    <3>3. x # g
      BY <2>3, <3>2, BinFacts
    <3> QED BY <1>4, <2>1, <3>1, <3>3 DEF Inv, FreeFirst
  <2> QED BY <2>2, <2>3
<1> QED BY <1>5, <1>6, <1>7, <1>8, <1>9, <1>10 DEF Inv

LEMMA TakeInv ==
  ASSUME Inv, LockInv', NEW t \in Thread, TakeFromActive(t) \/ TakeFromSecond(t)
  PROVE  Inv'
<1> DEFINE s == bin[t]
<1>0. s \in Seq(Group) /\ Once(s) /\ \A h \in InList(s) : h \in Group /\ private[h] \in Nat
  BY BinFacts DEF Inv, TypeOK
<1>1. CASE TakeFromActive(t)
  <2> DEFINE g == Head(s)
  <2>1. /\ pc[t] = "idle" /\ s # <<>> /\ private[g] > 0
        /\ private' = [private EXCEPT ![g] = @ - 1] /\ live' = [live EXCEPT ![g] = @ + 1]
        /\ UNCHANGED <<ReturnAllowed, bin, listVars, public, groupVars, threadVars>>
    BY <1>1 DEF TakeFromActive, binVars
  <2>2. g \in InList(s)
    BY <1>0, <2>1, RemoveFirstFacts
  <2>3. bin' = [bin EXCEPT ![t] = s]
    BY <2>1 DEF Inv, TypeOK
  <2>4. \A x, y \in Group : Behind(s, x, y) => x # g
    BY <1>0, BehindFacts
  <2> HIDE DEF g
  <2> QED BY <1>0, <2>1, <2>2, <2>3, <2>4, TakeStep
<1>2. CASE TakeFromSecond(t)
  <2> DEFINE g == s[2]
             new == MakeGroupActive(s, g)
  <2>1. /\ pc[t] = "idle" /\ Len(s) >= 2 /\ private[g] > 0 /\ private[Head(s)] = 0
        /\ private' = [private EXCEPT ![g] = @ - 1] /\ live' = [live EXCEPT ![g] = @ + 1]
        /\ bin' = [bin EXCEPT ![t] = new]
        /\ UNCHANGED <<ReturnAllowed, listVars, public, groupVars, threadVars>>
    BY <1>0, <1>2 DEF TakeFromSecond, ActiveExhausted, IsEmptyEnough, Inv, TypeOK
  <2>2. s # <<>> /\ g \in InList(s) /\ Head(s) = s[1]
    <3>1. 2 \in DOMAIN s
      BY <1>0, <2>1
    <3> QED BY <1>0, <3>1 DEF InList
  <2>3. new \in Seq(Group) /\ Once(new) /\ InList(new) = InList(s) /\ Head(new) = g
    BY <1>0, <2>2, ActivateFacts
  <2>4. ASSUME NEW x \in Group, NEW y \in Group, Behind(new, x, y), private[y] > 0
        PROVE  Behind(s, x, y) /\ x # g
    <3>1. y = s[1] \/ Behind(s, x, y)
      BY <1>0, <2>1, <2>4, ActivateSecondOrder
    <3>2. y # s[1]
      BY <2>1, <2>2, <2>4
    <3>3. x # g
      BY <2>3, <2>4, BehindFacts
    <3> QED BY <3>1, <3>2, <3>3
  <2> HIDE DEF g, new
  <2> QED BY <2>1, <2>2, <2>3, <2>4, TakeStep
<1> QED BY <1>1, <1>2

(***************************************************************************)
(* The owner uses the public locations of the group it has taken: there    *)
(* are some, and it had none of its own anywhere.                          *)
(***************************************************************************)
LEMMA CollectInv ==
  ASSUME Inv, LockInv', NEW t \in Thread, Collect(t)
  PROVE  Inv'
<1>0. /\ pc \in [Thread -> PC] /\ group \in [Thread -> Group \cup {NoGroup}]
      /\ bin \in [Thread -> Seq(Group)]
      /\ private \in [Group -> 0 .. Locations] /\ public \in [Group -> 0 .. Locations]
      /\ live \in [Group -> 0 .. Locations]
  BY DEF Inv, TypeOK
<1>1. pc[t] = "collect"
  BY DEF Collect
<1>2. PICK g \in Group : g = group[t] /\ Taken(t, g) /\ target[t] = NoBin
  BY <1>1 DEF Inv, PopSound, Taken, FreeingSound, Freeing
<1>3. /\ ParentBin[g] = t /\ public[g] > 0 /\ g \notin PublicList(t)
      /\ \A u \in Thread : ~ Adding(u, g)
  BY <1>2 DEF Inv, TakenSound
<1>4. g \in InList(bin[t]) /\ private[g] = 0 /\ \A h \in InList(bin[t]) : private[h] = 0
  BY <1>1, <1>3 DEF Inv, GroupsApart, Exhausted, Searching
<1>5. ParentBin[g] # NoBin
  BY <1>3, NoBinAssumption
<1>6. /\ public[g] \in Nat /\ live[g] \in Nat /\ IsFiniteSet(Pushers(g))
      /\ 0 + public[g] + live[g] + Cardinality(Pushers(g)) = Locations
      /\ public[g] - 1 \in 0 .. Locations /\ live[g] + 1 \in 0 .. Locations
      /\ (public[g] - 1) + 0 + (live[g] + 1) + Cardinality(Pushers(g)) = Locations
  BY <1>3, <1>4, <1>5, CountFacts
<1>7. /\ private' = [private EXCEPT ![g] = public[g] - 1] /\ public' = [public EXCEPT ![g] = 0]
      /\ live' = [live EXCEPT ![g] = live[g] + 1]
      /\ group' = [group EXCEPT ![t] = NoGroup] /\ pc' = [pc EXCEPT ![t] = "scopeEnd"]
      /\ bin' = [bin EXCEPT ![t] = IF g # Head(@) THEN MakeGroupActive(@, g) ELSE @]
      /\ UNCHANGED <<ReturnAllowed, PublicGroup, NextPublic, ParentBin, available, target>>
  BY <1>1, <1>2, <1>3, <1>4, <1>6 DEF Collect, Goto, listVars, groupVars
<1>8. PICK s \in Seq(Group) : /\ bin' = [bin EXCEPT ![t] = s] /\ Once(s) /\ InList(s) = InList(bin[t])
                              /\ Head(s) = g
  <2>1. bin[t] \in Seq(Group) /\ Once(bin[t]) /\ bin[t] # <<>>
    BY <1>4, BinFacts DEF InList
  <2>2. CASE g # Head(bin[t])
    BY <1>0, <1>4, <1>7, <2>1, <2>2, ActivateFacts
  <2>3. CASE g = Head(bin[t])
    BY <1>0, <1>7, <2>1, <2>3
  <2> QED BY <2>2, <2>3
<1>9. /\ bin'[t] = s /\ \A u \in Thread \ {t} : bin'[u] = bin[u]
      /\ \A u \in Thread : InList(bin'[u]) = InList(bin[u]) /\ Once(bin'[u])
      /\ pc'[t] = "scopeEnd" /\ group'[t] = NoGroup
      /\ \A u \in Thread \ {t} : pc'[u] = pc[u] /\ group'[u] = group[u]
      /\ private'[g] = public[g] - 1 /\ public'[g] = 0 /\ live'[g] = live[g] + 1
      /\ \A h \in Group \ {g} : private'[h] = private[h] /\ public'[h] = public[h] /\ live'[h] = live[h]
  BY <1>0, <1>7, <1>8 DEF Inv, GroupsApart
<1>10. TypeOK'
  <2>1. /\ private' \in [Group -> 0 .. Locations] /\ public' \in [Group -> 0 .. Locations]
        /\ live' \in [Group -> 0 .. Locations]
    BY <1>0, <1>6, <1>7, LocationsAssumption
  <2>2. /\ bin' \in [Thread -> Seq(Group)] /\ group' \in [Thread -> Group \cup {NoGroup}]
        /\ pc' \in [Thread -> PC]
    BY <1>0, <1>7, <1>8 DEF PC
  <2> QED BY <1>7, <2>1, <2>2 DEF Inv, TypeOK, LockInv, LockTypes
<1>11. GroupsApart' /\ GroupsReturned' /\ FreeingSound' /\ PopSound'
  BY <1>2, <1>7, <1>9 DEF Inv, GroupsApart, GroupsReturned, FreeingSound, Freeing, PopSound
<1>12. LocationsCounted'
  <2>1. \A h \in Group : Pushers(h)' = Pushers(h)
    BY <1>1, <1>9 DEF Pushers
  <2>2. private'[g] + public'[g] + live'[g] + Cardinality(Pushers(g)') = Locations /\ IsFiniteSet(Pushers(g)')
    BY <1>6, <1>9, <2>1
  <2>3. \A h \in Group \ {g} :
          /\ Pushers(h)' = Pushers(h) /\ ParentBin'[h] = ParentBin[h]
          /\ private'[h] = private[h] /\ public'[h] = public[h] /\ live'[h] = live[h]
    BY <1>7, <1>9, <2>1
  <2>4. ParentBin'[g] # NoBin
    BY <1>5, <1>7
  <2> QED BY <2>2, <2>3, <2>4 DEF Inv, LocationsCounted
<1>13. \A c \in Thread : PublicList(c)' = PublicList(c) /\ PublicList(c) \subseteq Group \ {g}
  <2>1. \A c \in Thread : g \notin PublicList(c)
    BY <1>3 DEF Inv, PublicLists
  <2> QED BY <1>7, <2>1, LinksHead DEF PublicList, Inv, TypeOK
<1>14. PublicLists'
  BY <1>7, <1>9, <1>13 DEF Inv, PublicLists
<1>15. /\ \A u \in Thread, h \in Group : Adding(u, h)' <=> Adding(u, h)
       /\ \A u \in Thread, h \in Group : Taken(u, h)' <=> Taken(u, h) /\ u # t
       /\ \A h \in Group : Taken(t, h) => h = g
  BY <1>1, <1>2, <1>9 DEF Adding, Taken
<1>16. AddingSound'
  <2>1. \A u \in Thread, h \in Group : Adding(u, h) => target[u] \in Thread /\ u # t
    BY <1>1, NoBinAssumption DEF Inv, FreeingSound, Adding, Freeing, TypeOK
  <2> QED BY <1>3, <1>7, <1>9, <1>13, <1>15, <2>1 DEF Inv, AddingSound
<1>17. TakenSound'
  BY <1>3, <1>7, <1>9, <1>13, <1>15 DEF Inv, TakenSound
<1>18. PublicKnown'
  <2> SUFFICES ASSUME NEW h \in Group \ {g}, public[h] > 0
               PROVE  \/ h \in PublicList(ParentBin[h])'
                      \/ \E u \in Thread : Adding(u, h)' \/ Taken(u, h)'
    BY <1>9 DEF PublicKnown
  <2>1. ParentBin[h] \in Thread
    BY DEF Inv, LocationsCounted, TypeOK
  <2>2. h \in PublicList(ParentBin[h]) \/ \E u \in Thread : Adding(u, h) \/ Taken(u, h)
    BY DEF Inv, PublicKnown
  <2> QED BY <1>7, <1>13, <1>15, <2>1, <2>2
<1>19. Exhausted'
  <2>1. \A u \in Thread : pc'[u] \in Searching => u # t
    BY <1>9 DEF Searching
  <2> QED BY <1>4, <1>9, <2>1, BinFacts DEF Inv, Exhausted
<1>20. FreeFirst'
  <2> SUFFICES ASSUME NEW u \in Thread, NEW x \in Group, NEW y \in Group, Behind(bin'[u], x, y), private'[y] > 0
               PROVE  private'[x] > 0
    BY DEF FreeFirst
  <2>1. CASE u = t
    <3>1. y \in InList(bin[t]) /\ y # g
      BY <1>8, <1>9, <2>1, BehindFacts
    <3> QED BY <1>4, <1>9, <3>1
  <2>2. CASE u # t
    <3>1. Behind(bin[u], x, y)
      BY <1>9, <2>2
    <3>2. x \in InList(bin[u]) /\ y \in InList(bin[u])
      BY <3>1, BinFacts, BehindFacts
    <3>3. x # g /\ y # g
      BY <1>4, <2>2, <3>2, BinFacts
    <3> QED BY <1>9, <3>1, <3>3 DEF Inv, FreeFirst
  <2> QED BY <2>1, <2>2
<1> QED BY <1>10, <1>11, <1>12, <1>14, <1>16, <1>17, <1>18, <1>19, <1>20 DEF Inv

(***************************************************************************)
(* A group of the block allocator enters the bin: nobody refers to it.     *)
(***************************************************************************)
LEMMA NewGroupInv ==
  ASSUME Inv, LockInv', NEW t \in Thread, NewGroup(t)
  PROVE  Inv'
<1>0. /\ pc \in [Thread -> PC] /\ bin \in [Thread -> Seq(Group)]
      /\ private \in [Group -> 0 .. Locations] /\ public \in [Group -> 0 .. Locations]
      /\ live \in [Group -> 0 .. Locations] /\ available \subseteq Group
      /\ ParentBin \in [Group -> Thread \cup {NoBin}] /\ NextPublic \in [Group -> Group \cup {NoGroup}]
      /\ Locations \in Nat \ {0} /\ NoBin \notin Thread
  BY LocationsAssumption, NoBinAssumption DEF Inv, TypeOK
<1>1. PICK g \in available :
        /\ pc[t] = "newGroup" /\ pc' = [pc EXCEPT ![t] = "idle"]
        /\ available' = available \ {g}
        /\ ParentBin' = [ParentBin EXCEPT ![g] = t]
        /\ NextPublic' = [NextPublic EXCEPT ![g] = NoGroup]
        /\ bin' = [bin EXCEPT ![t] = <<g>> \o @]
        /\ private' = [private EXCEPT ![g] = Locations - 1]
        /\ public' = [public EXCEPT ![g] = 0]
        /\ live' = [live EXCEPT ![g] = 1]
        /\ UNCHANGED <<PublicGroup, PublicLock, ReturnAllowed, group, target>>
  BY DEF NewGroup, Goto
<1>2. g \in Group /\ ParentBin[g] = NoBin /\ public[g] = 0
  BY <1>0 DEF Inv, GroupsApart, LocationsCounted
<1>3. \A u \in Thread : pc[u] \in Freeing => group[u] # g
  BY <1>0, <1>2 DEF Inv, LockInv, TargetKnown, FreeingSound, Freeing, AddHolds
<1>4. /\ pc'[t] = "idle" /\ \A u \in Thread \ {t} : pc'[u] = pc[u]
      /\ ParentBin'[g] = t /\ \A h \in Group \ {g} : ParentBin'[h] = ParentBin[h] /\ NextPublic'[h] = NextPublic[h]
      /\ private'[g] = Locations - 1 /\ public'[g] = 0 /\ live'[g] = 1
      /\ \A h \in Group \ {g} : private'[h] = private[h] /\ public'[h] = public[h] /\ live'[h] = live[h]
      /\ bin'[t] = <<g>> \o bin[t] /\ \A u \in Thread \ {t} : bin'[u] = bin[u]
  BY <1>0, <1>1, <1>2
<1>5. /\ bin'[t] \in Seq(Group) /\ InList(bin'[t]) = {g} \cup InList(bin[t]) /\ Once(bin'[t])
      /\ Head(bin'[t]) = g
  <2>1. bin[t] \in Seq(Group) /\ Once(bin[t]) /\ g \notin InList(bin[t])
    BY <1>0, <1>2, BinFacts
  <2>2. /\ <<g>> \o bin[t] \in Seq(Group) /\ InList(<<g>> \o bin[t]) = {g} \cup InList(bin[t])
        /\ Once(<<g>> \o bin[t])
    BY <1>2, <2>1, AddFirstFacts
  <2>3. Head(<<g>> \o bin[t]) = g
    BY <1>2, <2>1
  <2> QED BY <1>4, <2>2, <2>3
<1>6. TypeOK'
  <2>1. bin' \in [Thread -> Seq(Group)]
    BY <1>0, <1>1, <1>4, <1>5
  <2>2. Locations - 1 \in 0 .. Locations /\ 0 \in 0 .. Locations /\ 1 \in 0 .. Locations
    BY <1>0
  <2>3. /\ private' \in [Group -> 0 .. Locations] /\ public' \in [Group -> 0 .. Locations]
        /\ live' \in [Group -> 0 .. Locations]
    BY <1>0, <1>1, <2>2
  <2>4. /\ pc' \in [Thread -> PC] /\ available' \subseteq Group
        /\ ParentBin' \in [Group -> Thread \cup {NoBin}]
        /\ NextPublic' \in [Group -> Group \cup {NoGroup}]
    BY <1>0, <1>1 DEF PC
  <2> QED BY <1>1, <2>1, <2>3, <2>4 DEF Inv, TypeOK
<1>7. GroupsApart'
  <2>1. \A u \in Thread : Once(bin'[u])
    BY <1>4, <1>5 DEF Inv, GroupsApart
  <2>2. \A h \in Group, u \in Thread : ParentBin'[h] = u <=> h \in InList(bin'[u])
    <3>1. ASSUME NEW h \in Group, NEW u \in Thread PROVE ParentBin'[h] = u <=> h \in InList(bin'[u])
      <4>1. ParentBin[h] = u <=> h \in InList(bin[u])
        BY DEF Inv, GroupsApart
      <4>2. CASE u = t
        BY <1>4, <1>5, <4>1, <4>2
      <4>3. CASE u # t
        BY <1>0, <1>2, <1>4, <4>1, <4>3
      <4> QED BY <4>2, <4>3
    <3> QED BY <3>1
  <2>3. \A h \in available' : ParentBin'[h] = NoBin
    BY <1>0, <1>1, <1>4 DEF Inv, GroupsApart
  <2> QED BY <2>1, <2>2, <2>3 DEF GroupsApart
<1>8. GroupsReturned' /\ PopSound'
  BY <1>1, <1>2, <1>4 DEF Inv, GroupsReturned, PopSound
<1>9. FreeingSound'
  BY <1>1, <1>3, <1>4 DEF Inv, FreeingSound, Freeing
<1>10. LocationsCounted'
  <2>1. \A h \in Group : Pushers(h)' = Pushers(h)
    BY <1>1, <1>4 DEF Pushers
  <2>2. IsFiniteSet(Pushers(g)) /\ Cardinality(Pushers(g)) = 0
    <3>1. Pushers(g) = {}
      BY <1>3 DEF Pushers, Freeing
    <3> QED BY <3>1, FS_EmptySet
  <2>3. (Locations - 1) + 0 + 1 + 0 = Locations
    BY <1>0
  <2>4. private'[g] + public'[g] + live'[g] + Cardinality(Pushers(g)') = Locations /\ IsFiniteSet(Pushers(g)')
    BY <1>2, <1>4, <2>1, <2>2, <2>3
  <2>5. \A h \in Group \ {g} :
          /\ Pushers(h)' = Pushers(h) /\ ParentBin'[h] = ParentBin[h]
          /\ private'[h] = private[h] /\ public'[h] = public[h] /\ live'[h] = live[h]
    BY <1>4, <2>1
  <2>6. ParentBin'[g] # NoBin
    BY <1>0, <1>4
  <2> QED BY <2>4, <2>5, <2>6 DEF Inv, LocationsCounted
<1>11. PublicLists' /\ AddingSound' /\ TakenSound' /\ PublicKnown'
  <2>1. UNCHANGED <<PublicGroup, public>>
    BY <1>0, <1>1, <1>2
  <2>2. \A u \in Thread, h \in Group :
           /\ Adding(u, h)' <=> Adding(u, h)
           /\ Taken(u, h)' <=> Taken(u, h)
           /\ pc'[u] = "addWrite" => pc[u] = "addWrite"
    BY <1>1, <1>4 DEF Adding, Taken
  <2>3. \A h \in Group : ParentBin[h] # NoBin => NextPublic'[h] = NextPublic[h]
    BY <1>2, <1>4
  <2>4. \A h \in Group : public[h] > 0 => ParentBin'[h] = ParentBin[h]
    BY <1>2, <1>4
  <2> QED BY <1>1, <1>6, <2>1, <2>2, <2>3, <2>4, PublicFrame
<1>12. \A h \in InList(bin[t]) : private[h] = 0 /\ h # g
  BY <1>0, <1>1, <1>2, BinFacts DEF Inv, Exhausted, Searching
<1>13. \A u \in Thread : g \notin InList(bin[u])
  BY <1>0, <1>2, BinFacts
<1>14. Exhausted'
  <2>1. \A u \in Thread : pc'[u] \in Searching => u # t
    BY <1>4 DEF Searching
  <2> QED BY <1>4, <1>13, <2>1, BinFacts DEF Inv, Exhausted
<1>15. FreeFirst'
  <2> SUFFICES ASSUME NEW u \in Thread, NEW x \in Group, NEW y \in Group, Behind(bin'[u], x, y), private'[y] > 0
               PROVE  private'[x] > 0
    BY DEF FreeFirst
  <2>1. CASE u = t
    <3>1. y \in InList(bin[t]) /\ y # g
      BY <1>5, <2>1, BehindFacts
    <3> QED BY <1>4, <1>12, <3>1
  <2>2. CASE u # t
    <3>1. Behind(bin[u], x, y)
      BY <1>4, <2>2
    <3>2. x \in InList(bin[u]) /\ y \in InList(bin[u])
      BY <3>1, BinFacts, BehindFacts
    <3>3. x # g /\ y # g
      BY <1>13, <3>2
    <3> QED BY <1>4, <3>1, <3>3 DEF Inv, FreeFirst
  <2> QED BY <2>1, <2>2
<1> QED BY <1>6, <1>7, <1>8, <1>9, <1>10, <1>11, <1>14, <1>15 DEF Inv

(***************************************************************************)
(* The owner frees a location.  If the group leaves the bin, all its       *)
(* locations are with the owner, so no thread is on its way into it.       *)
(***************************************************************************)
LEMMA DeallocateOwnInv ==
  ASSUME Inv, LockInv', NEW t \in Thread, NEW g \in Group, DeallocateOwn(t, g)
  PROVE  Inv'
<1> DEFINE returned == IsGroupUnused(t, IsFull(g)')
<1>0. /\ pc \in [Thread -> PC] /\ bin \in [Thread -> Seq(Group)]
      /\ group \in [Thread -> Group \cup {NoGroup}]
      /\ private \in [Group -> 0 .. Locations] /\ public \in [Group -> 0 .. Locations]
      /\ live \in [Group -> 0 .. Locations] /\ available \subseteq Group
      /\ ParentBin \in [Group -> Thread \cup {NoBin}]
      /\ Locations \in Nat \ {0} /\ NoBin \notin Thread
  BY LocationsAssumption, NoBinAssumption DEF Inv, TypeOK
<1>1. /\ pc[t] = "idle" /\ live[g] > 0 /\ ParentBin[g] = t /\ ParentBin[g] # NoBin
      /\ live' = [live EXCEPT ![g] = @ - 1] /\ private' = [private EXCEPT ![g] = @ + 1]
      /\ UNCHANGED <<public, PublicGroup, NextPublic, ReturnAllowed, available, target>>
      /\ \/ /\ returned
            /\ ParentBin' = [ParentBin EXCEPT ![g] = NoBin]
            /\ bin' = [bin EXCEPT ![t] = Without(@, g)]
            /\ group' = [group EXCEPT ![t] = g]
            /\ pc' = [pc EXCEPT ![t] = "returnGroup"]
         \/ /\ bin' = [bin EXCEPT ![t] = MoveToSecond(@, g)]
            /\ UNCHANGED <<ParentBin, group, pc>>
  BY <1>0 DEF DeallocateOwn, Goto, listVars
<1>2. /\ private[g] + 1 \in 1 .. Locations /\ live[g] - 1 \in 0 .. Locations
      /\ IsFiniteSet(Pushers(g)) /\ Cardinality(Pushers(g)) \in Nat
      /\ private[g] \in Nat /\ public[g] \in Nat /\ live[g] \in Nat
      /\ (private[g] + 1) + public[g] + (live[g] - 1) + Cardinality(Pushers(g)) = Locations
  <2> DEFINE p == private[g]
             q == public[g]
             l == live[g]
             c == Cardinality(Pushers(g))
  <2>1. IsFiniteSet(Pushers(g)) /\ c \in Nat /\ p \in Nat /\ q \in Nat /\ l \in Nat
        /\ Locations \in Nat /\ l > 0 /\ p + q + l + c = Locations
    BY <1>1, CountFacts
  <2> HIDE DEF p, q, l, c
  <2>2. p + 1 \in 1 .. Locations /\ l - 1 \in 0 .. Locations /\ (p + 1) + q + (l - 1) + c = Locations
    BY <2>1
  <2> QED BY <2>1, <2>2 DEF p, q, l, c
<1>3. /\ private'[g] = private[g] + 1 /\ live'[g] = live[g] - 1
      /\ \A h \in Group \ {g} : private'[h] = private[h] /\ live'[h] = live[h]
      /\ private' \in [Group -> 0 .. Locations] /\ live' \in [Group -> 0 .. Locations]
      /\ \A h \in Group : private[h] > 0 => private'[h] > 0
  <2> DEFINE p == private[g] + 1
             l == live[g] - 1
  <2>1. /\ p \in 1 .. Locations /\ l \in 0 .. Locations /\ Locations \in Nat
        /\ private' = [private EXCEPT ![g] = p] /\ live' = [live EXCEPT ![g] = l]
    BY <1>0, <1>1, <1>2
  <2> HIDE DEF p, l
  <2>2. /\ private'[g] = p /\ live'[g] = l
        /\ \A h \in Group \ {g} : private'[h] = private[h] /\ live'[h] = live[h]
        /\ private' \in [Group -> 0 .. Locations] /\ live' \in [Group -> 0 .. Locations]
    BY <1>0, <2>1
  <2>3. p > 0
    BY <2>1
  <2> QED BY <2>2, <2>3 DEF p, l
<1>4. bin[t] \in Seq(Group) /\ Once(bin[t]) /\ g \in InList(bin[t])
  BY <1>1, BinFacts DEF Inv, GroupsApart
<1>5. ASSUME NEW u \in Thread \ {t}, NEW x \in Group, NEW y \in Group, Behind(bin[u], x, y), private'[y] > 0
      PROVE  private'[x] > 0
  <2>1. y # g
    BY <1>4, <1>5, BinFacts, BehindFacts
  <2> QED BY <1>3, <1>5, <2>1 DEF Inv, FreeFirst
<1> HIDE DEF returned
<1>6. CASE /\ returned
           /\ ParentBin' = [ParentBin EXCEPT ![g] = NoBin]
           /\ bin' = [bin EXCEPT ![t] = Without(@, g)]
           /\ group' = [group EXCEPT ![t] = g]
           /\ pc' = [pc EXCEPT ![t] = "returnGroup"]
  <2>1. /\ pc'[t] = "returnGroup" /\ group'[t] = g
        /\ \A u \in Thread \ {t} : pc'[u] = pc[u] /\ group'[u] = group[u] /\ bin'[u] = bin[u]
        /\ ParentBin'[g] = NoBin /\ \A h \in Group \ {g} : ParentBin'[h] = ParentBin[h]
        /\ bin'[t] = Without(bin[t], g)
    <3> DEFINE w == Without(bin[t], g)
    <3>1. bin' = [bin EXCEPT ![t] = w]
      BY <1>6
    <3> HIDE DEF w
    <3>2. bin'[t] = w /\ \A u \in Thread \ {t} : bin'[u] = bin[u]
      BY <1>0, <3>1
    <3>3. /\ pc'[t] = "returnGroup" /\ group'[t] = g
          /\ \A u \in Thread \ {t} : pc'[u] = pc[u] /\ group'[u] = group[u]
          /\ ParentBin'[g] = NoBin /\ \A h \in Group \ {g} : ParentBin'[h] = ParentBin[h]
      BY <1>0, <1>6
    <3> QED BY <3>2, <3>3 DEF w
  <2>2. /\ bin'[t] \in Seq(Group) /\ Once(bin'[t]) /\ InList(bin'[t]) = InList(bin[t]) \ {g}
    BY <1>4, <2>1, RemoveFacts
  <2>3. private'[g] = Locations /\ public[g] = 0
    BY <1>1, <1>6 DEF returned, IsGroupUnused, IsFull
  <2>4. live'[g] = 0 /\ Pushers(g) = {}
    <3>1. live[g] - 1 = 0 /\ Cardinality(Pushers(g)) = 0
      <4> DEFINE p == private[g] + 1
                 l == live[g] - 1
                 c == Cardinality(Pushers(g))
      <4>1. p = Locations /\ Locations \in Nat /\ l \in Nat /\ c \in Nat /\ p + 0 + l + c = Locations
        BY <1>0, <1>2, <1>3, <2>3
      <4> HIDE DEF p, l, c
      <4>2. l = 0 /\ c = 0
        BY <4>1
      <4> QED BY <4>2 DEF l, c
    <3>2. Pushers(g) = {}
      BY <1>2, <3>1, FS_EmptySet
    <3> QED BY <1>3, <3>1, <3>2
  <2>5. \A u \in Thread : pc[u] \in Freeing => group[u] # g
    <3>1. \A u \in Thread : pc[u] = "push" => group[u] # g
      BY <2>4 DEF Pushers
    <3>2. \A u \in Thread : ~ Adding(u, g)
      BY <2>3 DEF Inv, AddingSound
    <3> QED BY <3>1, <3>2 DEF Adding, Freeing
  <2>6. TypeOK'
    <3>1. /\ bin' \in [Thread -> Seq(Group)] /\ pc' \in [Thread -> PC]
          /\ group' \in [Thread -> Group \cup {NoGroup}] /\ ParentBin' \in [Group -> Thread \cup {NoBin}]
      BY <1>0, <1>6, <2>1, <2>2 DEF PC
    <3> QED BY <1>1, <1>3, <3>1 DEF Inv, TypeOK, LockInv, LockTypes
  <2>7. GroupsApart'
    <3>1. \A u \in Thread : Once(bin'[u])
      BY <2>1, <2>2 DEF Inv, GroupsApart
    <3>2. ASSUME NEW h \in Group, NEW u \in Thread PROVE ParentBin'[h] = u <=> h \in InList(bin'[u])
      <4>1. ParentBin[h] = u <=> h \in InList(bin[u])
        BY DEF Inv, GroupsApart
      <4>2. CASE u = t
        BY <1>0, <2>1, <2>2, <4>1, <4>2
      <4>3. CASE u # t
        BY <1>0, <1>1, <2>1, <4>1, <4>3
      <4> QED BY <4>2, <4>3
    <3>3. \A h \in available' : ParentBin'[h] = NoBin
      BY <1>0, <1>1, <2>1 DEF Inv, GroupsApart
    <3> QED BY <3>1, <3>2, <3>3 DEF GroupsApart
  <2>8. GroupsReturned'
    <3>1. g \notin available /\ \A u \in Thread : pc[u] = "returnGroup" => group[u] # g
      BY <1>1 DEF Inv, GroupsApart, GroupsReturned
    <3> QED BY <1>1, <2>1, <3>1 DEF Inv, GroupsReturned
  <2>9. FreeingSound'
    BY <1>1, <2>1, <2>5 DEF Inv, FreeingSound, Freeing
  <2>10. LocationsCounted'
    <3>1. \A h \in Group \ {g} : Pushers(h)' = Pushers(h)
      BY <1>1, <2>1 DEF Pushers
    <3> QED BY <1>1, <1>3, <2>1, <2>3, <2>4, <3>1 DEF Inv, LocationsCounted
  <2>11. PublicLists' /\ AddingSound' /\ TakenSound' /\ PublicKnown'
    <3>1. \A u \in Thread, h \in Group :
             /\ Adding(u, h)' <=> Adding(u, h)
             /\ Taken(u, h)' <=> Taken(u, h)
             /\ pc'[u] = "addWrite" => pc[u] = "addWrite"
      BY <1>1, <2>1 DEF Adding, Taken
    <3>2. \A h \in Group : public[h] > 0 => ParentBin'[h] = ParentBin[h]
      BY <2>1, <2>3
    <3> QED BY <1>1, <2>6, <3>1, <3>2, PublicFrame
  <2>12. PopSound'
    BY <1>1, <2>1 DEF Inv, PopSound
  <2>13. Exhausted'
    <3>1. \A u \in Thread : pc'[u] \in Searching => u # t
      BY <2>1 DEF Searching
    <3>2. \A u \in Thread \ {t} : \A h \in InList(bin[u]) : h \in Group \ {g}
      BY <1>4, BinFacts
    <3> QED BY <1>3, <2>1, <3>1, <3>2 DEF Inv, Exhausted
  <2>14. FreeFirst'
    <3> SUFFICES ASSUME NEW u \in Thread, NEW x \in Group, NEW y \in Group, Behind(bin'[u], x, y), private'[y] > 0
                 PROVE  private'[x] > 0
      BY DEF FreeFirst
    <3>1. CASE u = t
      <4>1. y # g
        BY <2>2, <3>1, BehindFacts
      <4>2. Behind(bin[t], x, y)
        BY <1>4, <2>1, <3>1, RemoveOrder
      <4> QED BY <1>3, <4>1, <4>2 DEF Inv, FreeFirst
    <3>2. CASE u # t
      BY <1>5, <2>1, <3>2
    <3> QED BY <3>1, <3>2
  <2> QED BY <2>6, <2>7, <2>8, <2>9, <2>10, <2>11, <2>12, <2>13, <2>14 DEF Inv
<1>7. CASE /\ bin' = [bin EXCEPT ![t] = MoveToSecond(@, g)]
           /\ UNCHANGED <<ParentBin, group, pc>>
  <2> DEFINE new == MoveToSecond(bin[t], g)
  <2>1. /\ new \in Seq(Group) /\ Once(new) /\ InList(new) = InList(bin[t])
        /\ \A x, y : Behind(new, x, y) => y # g /\ (x = g \/ Behind(bin[t], x, y))
    BY <1>4, MoveToSecondFacts
  <2> HIDE DEF new
  <2>2. /\ bin'[t] = new /\ \A u \in Thread \ {t} : bin'[u] = bin[u]
        /\ \A u \in Thread : InList(bin'[u]) = InList(bin[u]) /\ Once(bin'[u])
    BY <1>0, <1>7, <2>1 DEF new, Inv, GroupsApart
  <2>3. TypeOK'
    <3>1. bin' \in [Thread -> Seq(Group)]
      BY <1>0, <1>7, <2>1 DEF new
    <3> QED BY <1>1, <1>3, <1>7, <3>1 DEF Inv, TypeOK, LockInv, LockTypes
  <2>4. GroupsApart' /\ GroupsReturned' /\ FreeingSound' /\ PopSound'
    BY <1>1, <1>7, <2>2 DEF Inv, GroupsApart, GroupsReturned, FreeingSound, PopSound
  <2>5. LocationsCounted'
    <3>1. \A h \in Group : Pushers(h)' = Pushers(h)
      BY <1>7 DEF Pushers
    <3> QED BY <1>1, <1>2, <1>3, <1>7, <3>1 DEF Inv, LocationsCounted
  <2>6. PublicLists' /\ AddingSound' /\ TakenSound' /\ PublicKnown'
    <3>1. \A u \in Thread, h \in Group : (Adding(u, h)' <=> Adding(u, h)) /\ (Taken(u, h)' <=> Taken(u, h))
      BY <1>7 DEF Adding, Taken
    <3> QED BY <1>1, <1>7, <2>3, <3>1, PublicFrame
  <2>7. Exhausted'
    <3>1. \A u \in Thread : pc'[u] \in Searching => u # t
      BY <1>1, <1>7 DEF Searching
    <3>2. \A u \in Thread \ {t} : \A h \in InList(bin[u]) : h \in Group \ {g}
      BY <1>4, BinFacts
    <3> QED BY <1>3, <1>7, <2>2, <3>1, <3>2 DEF Inv, Exhausted
  <2>8. FreeFirst'
    <3> SUFFICES ASSUME NEW u \in Thread, NEW x \in Group, NEW y \in Group, Behind(bin'[u], x, y), private'[y] > 0
                 PROVE  private'[x] > 0
      BY DEF FreeFirst
    <3>1. CASE u = t
      <4>1. y # g /\ (x = g \/ Behind(bin[t], x, y))
        BY <2>1, <2>2, <3>1
      <4>2. private'[g] > 0
        BY <1>2, <1>3
      <4> QED BY <1>3, <4>1, <4>2 DEF Inv, FreeFirst
    <3>2. CASE u # t
      BY <1>5, <2>2, <3>2
    <3> QED BY <3>1, <3>2
  <2> QED BY <1>1, <2>3, <2>4, <2>5, <2>6, <2>7, <2>8 DEF Inv
<1> QED BY <1>1, <1>6, <1>7

(***************************************************************************)
(* The group of a thread goes to the block allocator: no other thread      *)
(* returns it as well.                                                     *)
(***************************************************************************)
LEMMA ReturnUnusedGroupInv ==
  ASSUME Inv, LockInv', NEW t \in Thread, ReturnUnusedGroup(t)
  PROVE  Inv'
<1>0. /\ pc \in [Thread -> PC] /\ group \in [Thread -> Group \cup {NoGroup}]
      /\ target \in [Thread -> Thread \cup {NoBin}] /\ bin \in [Thread -> Seq(Group)]
      /\ ReturnAllowed \in [Thread -> Nat \ {0}] /\ available \subseteq Group
  BY DEF Inv, TypeOK
<1>1. PICK g \in Group : g = group[t] /\ g \notin available /\ ParentBin[g] = NoBin
  BY DEF ReturnUnusedGroup, Inv, GroupsReturned
<1>2. \A u \in Thread \ {t} : pc[u] = "returnGroup" => group[u] # g
  BY <1>1 DEF ReturnUnusedGroup, Inv, GroupsReturned
<1>3. /\ pc[t] = "returnGroup" /\ available' = available \cup {g}
      /\ ReturnAllowed' =
           [ReturnAllowed EXCEPT ![t] = IF Len(bin[t]) = @ - 1 THEN @ + 1 ELSE @]
      /\ pc' = [pc EXCEPT ![t] = "idle"] /\ group' = [group EXCEPT ![t] = NoGroup]
      /\ target' = [target EXCEPT ![t] = NoBin]
      /\ UNCHANGED <<PublicGroup, NextPublic, bin, private, public, live, ParentBin>>
  BY <1>1 DEF ReturnUnusedGroup, Return, Goto, listVars, locationVars
<1>4. /\ pc'[t] = "idle" /\ target'[t] = NoBin
      /\ \A u \in Thread \ {t} : pc'[u] = pc[u] /\ group'[u] = group[u] /\ target'[u] = target[u]
  BY <1>0, <1>3
<1>5. TypeOK'
  <2>1. ReturnAllowed' \in [Thread -> Nat \ {0}]
    BY <1>0, <1>3
  <2>2. /\ pc' \in [Thread -> PC] /\ group' \in [Thread -> Group \cup {NoGroup}]
        /\ target' \in [Thread -> Thread \cup {NoBin}] /\ available' \subseteq Group
    BY <1>0, <1>3 DEF PC
  <2> QED BY <1>3, <2>1, <2>2 DEF Inv, TypeOK, LockInv, LockTypes
<1>6. GroupsApart'
  BY <1>1, <1>3 DEF Inv, GroupsApart
<1>7. GroupsReturned'
  BY <1>2, <1>3, <1>4 DEF Inv, GroupsReturned
<1>8. LocationsCounted'
  <2>1. \A h \in Group : Pushers(h)' = Pushers(h)
    BY <1>3, <1>4 DEF Pushers
  <2> QED BY <1>3, <2>1 DEF Inv, LocationsCounted
<1>9. FreeingSound'
  BY <1>3, <1>4 DEF Inv, FreeingSound, Freeing
<1>10. PublicLists' /\ AddingSound' /\ TakenSound' /\ PublicKnown'
  <2>1. \A u \in Thread, h \in Group :
           /\ Adding(u, h)' <=> Adding(u, h)
           /\ Taken(u, h)' <=> Taken(u, h)
           /\ Adding(u, h) => target'[u] = target[u] /\ (pc'[u] = "addWrite" => pc[u] = "addWrite")
    BY <1>3, <1>4 DEF Adding, Taken
  <2> QED BY <1>3, <1>5, <2>1, PublicFrame
<1>11. PopSound' /\ Exhausted' /\ FreeFirst'
  BY <1>3, <1>4 DEF Inv, PopSound, Exhausted, FreeFirst, Searching
<1> QED BY <1>5, <1>6, <1>7, <1>8, <1>9, <1>10, <1>11 DEF Inv

(***************************************************************************)
(* A thread that is not the owner takes the location of a client, and is   *)
(* now one of those that push into the group.                              *)
(***************************************************************************)
LEMMA DeallocatePublicInv ==
  ASSUME Inv, LockInv', NEW t \in Thread, NEW g \in Group, DeallocatePublic(t, g)
  PROVE  Inv'
<1>0. /\ pc \in [Thread -> PC] /\ group \in [Thread -> Group \cup {NoGroup}]
      /\ target \in [Thread -> Thread \cup {NoBin}]
      /\ private \in [Group -> 0 .. Locations] /\ public \in [Group -> 0 .. Locations]
      /\ live \in [Group -> 0 .. Locations]
      /\ ParentBin \in [Group -> Thread \cup {NoBin}]
  BY DEF Inv, TypeOK
<1>1. PICK b \in Thread : b = ParentBin[g] /\ b # NoBin
  BY <1>0, NoBinAssumption DEF DeallocatePublic
<1>2. /\ pc[t] = "idle" /\ live[g] > 0 /\ ParentBin[g] = b /\ b # NoBin
      /\ live' = [live EXCEPT ![g] = live[g] - 1]
      /\ group' = [group EXCEPT ![t] = g] /\ target' = [target EXCEPT ![t] = b]
      /\ pc' = [pc EXCEPT ![t] = "push"]
      /\ UNCHANGED <<bin, ReturnAllowed, PublicGroup, NextPublic, private, public, ParentBin, available>>
  BY <1>1 DEF DeallocatePublic, Goto, listVars, binVars, groupVars
<1>3. /\ pc'[t] = "push" /\ target'[t] = b /\ group'[t] = g
      /\ \A u \in Thread \ {t} : pc'[u] = pc[u] /\ group'[u] = group[u] /\ target'[u] = target[u]
  BY <1>0, <1>2
<1>4. /\ live[g] - 1 \in 0 .. Locations
      /\ IsFiniteSet(Pushers(g)')
      /\ private[g] + public[g] + (live[g] - 1) + Cardinality(Pushers(g)') = Locations
  <2> DEFINE p == private[g]
             q == public[g]
             l == live[g]
             c == Cardinality(Pushers(g))
             d == Cardinality(Pushers(g)')
  <2>1. IsFiniteSet(Pushers(g)) /\ c \in Nat /\ p \in Nat /\ q \in Nat /\ l \in Nat
        /\ Locations \in Nat /\ l > 0 /\ p + q + l + c = Locations
    BY <1>2, CountFacts
  <2>2. Pushers(g)' = Pushers(g) \cup {t} /\ t \notin Pushers(g)
    BY <1>2, <1>3 DEF Pushers
  <2>3. d = c + 1 /\ IsFiniteSet(Pushers(g)')
    BY <2>1, <2>2, FS_AddElement
  <2> HIDE DEF p, q, l, c, d
  <2>4. l - 1 \in 0 .. Locations /\ p + q + (l - 1) + d = Locations
    BY <2>1, <2>3
  <2> QED BY <2>3, <2>4 DEF p, q, l, d
<1>5. live' \in [Group -> 0 .. Locations] /\ live'[g] = live[g] - 1 /\ \A h \in Group \ {g} : live'[h] = live[h]
  BY <1>0, <1>2, <1>4
<1>6. TypeOK'
  <2>1. /\ pc' \in [Thread -> PC] /\ group' \in [Thread -> Group \cup {NoGroup}]
        /\ target' \in [Thread -> Thread \cup {NoBin}]
    BY <1>0, <1>2 DEF PC
  <2> QED BY <1>2, <1>5, <2>1 DEF Inv, TypeOK, LockInv, LockTypes
<1>7. GroupsApart' /\ GroupsReturned'
  BY <1>2, <1>3 DEF Inv, GroupsApart, GroupsReturned
<1>8. LocationsCounted'
  <2>1. \A h \in Group \ {g} : Pushers(h)' = Pushers(h)
    BY <1>2, <1>3 DEF Pushers
  <2> QED BY <1>2, <1>4, <1>5, <2>1 DEF Inv, LocationsCounted
<1>9. FreeingSound'
  BY <1>2, <1>3 DEF Inv, FreeingSound, Freeing
<1>10. PublicLists' /\ AddingSound' /\ TakenSound' /\ PublicKnown'
  <2>1. \A u \in Thread, h \in Group :
           /\ Adding(u, h)' <=> Adding(u, h)
           /\ Taken(u, h)' <=> Taken(u, h)
           /\ Adding(u, h) => target'[u] = target[u] /\ (pc'[u] = "addWrite" => pc[u] = "addWrite")
    BY <1>2, <1>3 DEF Adding, Taken
  <2> QED BY <1>2, <1>6, <2>1, PublicFrame
<1>11. PopSound' /\ Exhausted' /\ FreeFirst'
  BY <1>2, <1>3 DEF Inv, PopSound, Exhausted, FreeFirst, Searching
<1> QED BY <1>6, <1>7, <1>8, <1>9, <1>10, <1>11 DEF Inv

(***************************************************************************)
(* The location enters the public free list.  The thread that finds the    *)
(* list empty is the one that adds the group: nobody else adds it then,    *)
(* it is in no public list, and its owner has not taken it.                *)
(***************************************************************************)
LEMMA PushInv ==
  ASSUME Inv, LockInv', NEW t \in Thread, Push(t)
  PROVE  Inv'
<1>0. /\ pc \in [Thread -> PC] /\ group \in [Thread -> Group \cup {NoGroup}]
      /\ target \in [Thread -> Thread \cup {NoBin}]
      /\ private \in [Group -> 0 .. Locations] /\ public \in [Group -> 0 .. Locations]
      /\ live \in [Group -> 0 .. Locations]
      /\ ParentBin \in [Group -> Thread \cup {NoBin}] /\ NoBin \notin Thread
  BY NoBinAssumption DEF Inv, TypeOK
<1>1. PICK g \in Group, b \in Thread : g = group[t] /\ b = target[t] /\ ParentBin[g] = b
  BY <1>0 DEF Push, Inv, FreeingSound, Freeing, LockInv, TargetKnown
<1>2. /\ pc[t] = "push" /\ g = group[t] /\ b = target[t] /\ ParentBin[g] = b /\ b # NoBin
      /\ public' = [public EXCEPT ![g] = public[g] + 1]
      /\ \/ /\ public[g] = 0 /\ pc' = [pc EXCEPT ![t] = "addLock"]
            /\ UNCHANGED <<group, target>>
         \/ /\ public[g] # 0 /\ pc' = [pc EXCEPT ![t] = "idle"]
            /\ group' = [group EXCEPT ![t] = NoGroup] /\ target' = [target EXCEPT ![t] = NoBin]
      /\ UNCHANGED <<bin, ReturnAllowed, PublicGroup, NextPublic, private, live, ParentBin, available>>
  BY <1>0, <1>1 DEF Push, FirstPublic, Return, Goto, listVars, binVars, groupVars
<1>3. /\ \/ public[g] = 0 /\ pc'[t] = "addLock" /\ group'[t] = g /\ target'[t] = b
         \/ public[g] # 0 /\ pc'[t] = "idle" /\ group'[t] = NoGroup /\ target'[t] = NoBin
      /\ \A u \in Thread \ {t} : pc'[u] = pc[u] /\ group'[u] = group[u] /\ target'[u] = target[u]
  BY <1>0, <1>2
<1>4. /\ public[g] \in Nat /\ public[g] + 1 \in 1 .. Locations
      /\ IsFiniteSet(Pushers(g)')
      /\ private[g] + (public[g] + 1) + live[g] + Cardinality(Pushers(g)') = Locations
  <2> DEFINE p == private[g]
             q == public[g]
             l == live[g]
             c == Cardinality(Pushers(g))
             d == Cardinality(Pushers(g)')
  <2>1. IsFiniteSet(Pushers(g)) /\ c \in Nat /\ p \in Nat /\ q \in Nat /\ l \in Nat
        /\ Locations \in Nat /\ p + q + l + c = Locations
    BY <1>2, CountFacts
  <2>2. Pushers(g)' = Pushers(g) \ {t} /\ t \in Pushers(g)
    BY <1>2, <1>3 DEF Pushers
  <2>3. d = c - 1 /\ IsFiniteSet(Pushers(g)') /\ d \in Nat
    BY <2>1, <2>2, FS_RemoveElement, FS_CardinalityType
  <2> HIDE DEF p, q, l, c, d
  <2>4. q + 1 \in 1 .. Locations /\ p + (q + 1) + l + d = Locations
    BY <2>1, <2>3
  <2> QED BY <2>1, <2>3, <2>4 DEF p, q, l, d
<1>5. /\ public' \in [Group -> 0 .. Locations] /\ public'[g] = public[g] + 1 /\ public'[g] > 0
      /\ \A h \in Group \ {g} : public'[h] = public[h]
      /\ \A h \in Group : public[h] > 0 => public'[h] > 0
  <2> DEFINE q == public[g] + 1
  <2>1. q \in 1 .. Locations /\ Locations \in Nat /\ public' = [public EXCEPT ![g] = q]
    BY <1>2, <1>4, LocationsAssumption
  <2> HIDE DEF q
  <2>2. public' \in [Group -> 0 .. Locations] /\ public'[g] = q /\ \A h \in Group \ {g} : public'[h] = public[h]
    BY <1>0, <2>1
  <2>3. q > 0
    BY <2>1
  <2> QED BY <2>2, <2>3 DEF q
<1>6. TypeOK'
  <2>1. /\ pc' \in [Thread -> PC] /\ group' \in [Thread -> Group \cup {NoGroup}]
        /\ target' \in [Thread -> Thread \cup {NoBin}]
    BY <1>0, <1>2 DEF PC
  <2> QED BY <1>2, <1>5, <2>1 DEF Inv, TypeOK, LockInv, LockTypes
<1>7. GroupsApart' /\ GroupsReturned'
  BY <1>2, <1>3 DEF Inv, GroupsApart, GroupsReturned
<1>8. LocationsCounted'
  <2>1. \A h \in Group \ {g} : Pushers(h)' = Pushers(h)
    BY <1>2, <1>3 DEF Pushers
  <2>2. ParentBin'[g] # NoBin /\ private'[g] + public'[g] + live'[g] + Cardinality(Pushers(g)') = Locations
    BY <1>2, <1>4, <1>5
  <2>3. \A h \in Group \ {g} :
          ParentBin'[h] = ParentBin[h] /\ private'[h] = private[h] /\ public'[h] = public[h] /\ live'[h] = live[h]
    BY <1>2, <1>5
  <2> QED BY <1>4, <2>1, <2>2, <2>3 DEF Inv, LocationsCounted
<1>9. FreeingSound'
  BY <1>0, <1>2, <1>3 DEF Inv, FreeingSound, Freeing
<1>10. /\ UNCHANGED <<PublicGroup, NextPublic>>
       /\ \A c \in Thread : PublicList(c)' = PublicList(c) /\ PublicList(c) \subseteq Group
       /\ \A c \in Thread : IsProperList(NextPublic, PublicGroup[c], NoGroup)' <=> IsProperList(NextPublic, PublicGroup[c], NoGroup)
  BY <1>2, LinksHead DEF PublicList, Inv, TypeOK
<1>11. PublicLists'
  BY <1>2, <1>5, <1>10 DEF Inv, PublicLists
<1>12. public[g] = 0 => /\ \A c \in Thread : g \notin PublicList(c)
                        /\ \A u \in Thread : ~ Adding(u, g) /\ ~ Taken(u, g)
  BY DEF Inv, PublicLists, AddingSound, TakenSound
<1>13. /\ \A u \in Thread, h \in Group :
             /\ Adding(u, h)' <=> Adding(u, h) \/ (public[g] = 0 /\ u = t /\ h = g)
             /\ Taken(u, h)' <=> Taken(u, h)
             /\ Adding(u, h) => u # t
       /\ \A u \in Thread : pc'[u] = "addWrite" => u # t /\ pc[u] = "addWrite"
  BY <1>2, <1>3 DEF Adding, Taken
<1>14. AddingSound'
  <2> SUFFICES ASSUME NEW u \in Thread, NEW h \in Group, Adding(u, h)'
               PROVE  /\ public'[h] > 0 /\ h \notin PublicList(target[u])'
                      /\ \A v \in Thread : Adding(v, h)' => v = u
                      /\ pc'[u] = "addWrite" => NextPublic'[h] = PublicGroup'[target'[u]]
    BY DEF AddingSound
  <2>1. CASE Adding(u, h)
    <3>1. /\ public[h] > 0 /\ h \notin PublicList(target[u])
          /\ \A v \in Thread : Adding(v, h) => v = u
          /\ pc[u] = "addWrite" => NextPublic[h] = PublicGroup[target[u]]
      BY <2>1 DEF Inv, AddingSound
    <3>2. target[u] \in Thread /\ target'[u] = target[u] /\ u # t
      BY <1>3, <1>13, <2>1 DEF Inv, LockInv, TargetKnown, Adding, AddHolds
    <3>3. h # g \/ public[g] # 0
      BY <1>12, <2>1
    <3> QED BY <1>5, <1>10, <1>13, <3>1, <3>2, <3>3
  <2>2. CASE public[g] = 0 /\ u = t /\ h = g
    BY <1>2, <1>3, <1>5, <1>10, <1>12, <1>13, <2>2
  <2> QED BY <1>13, <2>1, <2>2
<1>15. TakenSound'
  BY <1>2, <1>5, <1>10, <1>12, <1>13 DEF Inv, TakenSound
<1>16. PublicKnown'
  <2> SUFFICES ASSUME NEW h \in Group, public'[h] > 0
               PROVE  \/ h \in PublicList(ParentBin[h])'
                      \/ \E u \in Thread : Adding(u, h)' \/ Taken(u, h)'
    BY DEF PublicKnown
  <2>1. CASE public[h] > 0
    <3>1. ParentBin[h] \in Thread
      BY <2>1 DEF Inv, LocationsCounted, TypeOK
    <3>2. h \in PublicList(ParentBin[h]) \/ \E u \in Thread : Adding(u, h) \/ Taken(u, h)
      BY <2>1 DEF Inv, PublicKnown
    <3> QED BY <1>2, <1>10, <1>13, <3>1, <3>2
  <2>2. CASE ~ (public[h] > 0)
    <3>1. h = g
      BY <1>5, <2>2
    <3>2. public[g] = 0
      BY <1>4, <2>2, <3>1
    <3> QED BY <1>13, <3>1, <3>2
  <2> QED BY <2>1, <2>2
<1>17. PopSound' /\ Exhausted' /\ FreeFirst'
  BY <1>2, <1>3 DEF Inv, PopSound, Exhausted, FreeFirst, Searching
<1> QED BY <1>6, <1>7, <1>8, <1>9, <1>11, <1>14, <1>15, <1>16, <1>17 DEF Inv

-----------------------------------------------------------------------------
(* The theorems.                                                           *)

LEMMA NextInv ==
  ASSUME ~ ReleaseTwice, Inv, [Next]_vars
  PROVE  Inv'
<1>1. CASE Next
  <2>1. PICK t \in Thread : Call(t) \/ Continue(t)
    BY <1>1 DEF Next
  <2>2. LockInv'
    BY <2>1, NextLockInv DEF Inv
  <2>3. CASE Call(t)
    BY <2>2, <2>3, TakeInv, LocalStepsInv, DeallocateOwnInv, DeallocatePublicInv DEF Call
  <2>4. CASE Continue(t)
    BY <2>2, <2>4, LocalStepsInv, PopWriteInv, CollectInv, NewGroupInv, ReturnUnusedGroupInv,
       PushInv, AddLinkInv, AddWriteInv DEF Continue
  <2> QED BY <2>1, <2>3, <2>4
<1>2. CASE UNCHANGED vars
  <2>1. UNCHANGED <<bin, ReturnAllowed, PublicGroup, PublicLock, NextPublic, private, public, live,
                    ParentBin, available, pc, group, target>>
    BY <1>2 DEF vars, listVars, binVars, locationVars, groupVars, threadVars
  <2>2. TypeOK' /\ LockInv'
    BY <2>1 DEF Inv, TypeOK, LockInv, LockTypes, TargetKnown, LockTaken, HeldOnce, Holders
  <2>3. GroupsApart' /\ GroupsReturned' /\ FreeingSound' /\ PopSound' /\ Exhausted' /\ FreeFirst'
    BY <2>1 DEF Inv, GroupsApart, GroupsReturned, FreeingSound, PopSound, Exhausted, FreeFirst
  <2>4. LocationsCounted'
    <3>1. \A g \in Group : Pushers(g)' = Pushers(g)
      BY <2>1 DEF Pushers
    <3> QED BY <2>1, <3>1 DEF Inv, LocationsCounted
  <2>5. PublicLists' /\ AddingSound' /\ TakenSound' /\ PublicKnown'
    <3>1. \A u \in Thread, h \in Group :
             /\ Adding(u, h)' <=> Adding(u, h)
             /\ Taken(u, h)' <=> Taken(u, h)
             /\ Adding(u, h) => target'[u] = target[u] /\ (pc'[u] = "addWrite" => pc[u] = "addWrite")
      BY <2>1 DEF Adding, Taken
    <3> QED BY <2>1, <2>2, <3>1, PublicFrame
  <2> QED BY <2>2, <2>3, <2>4, <2>5 DEF Inv
<1> QED BY <1>1, <1>2

(***************************************************************************)
(* The inductive invariant: the bins, the public lists and the locations   *)
(* in flight, for any number of threads, groups and locations.             *)
(***************************************************************************)
THEOREM InvCorrect ==
  ASSUME ~ ReleaseTwice PROVE Spec => []Inv
<1>1. Inv /\ [Next]_vars => Inv'
  BY NextInv
<1> QED BY InitInv, <1>1, PTL DEF Spec

(***************************************************************************)
(* The public list of a bin is a proper list of groups of the bin that     *)
(* have public locations, and its owner finds a group and a location in it *)
(* although it looked without the lock.                                    *)
(***************************************************************************)
THEOREM PublicListCorrect ==
  ASSUME ~ ReleaseTwice PROVE Spec => []PublicListSound
<1>1. Inv => PublicListSound
  <2> SUFFICES ASSUME Inv, NEW t \in Thread
               PROVE  /\ IsProperList(NextPublic, PublicGroup[t], NoGroup)
                      /\ \A g \in PublicList(t) : ParentBin[g] = t /\ public[g] > 0
                      /\ pc[t] = "popRead" => PublicGroup[t] # NoGroup
                      /\ pc[t] = "collect" => public[group[t]] > 0
    BY DEF PublicListSound
  <2>1. pc[t] = "collect" => group[t] \in Group /\ Taken(t, group[t])
    BY DEF Inv, PopSound, Taken
  <2>2. pc[t] = "collect" => public[group[t]] > 0
    BY <2>1 DEF Inv, TakenSound
  <2> QED BY <2>2 DEF Inv, PublicLists, PopSound
<1> QED BY InvCorrect, <1>1, PTL

(***************************************************************************)
(* Locations freed by other threads are never forgotten, and one thread    *)
(* at a time puts their group in the public list.                          *)
(***************************************************************************)
THEOREM PublicGroupCorrect ==
  ASSUME ~ ReleaseTwice PROVE Spec => []PublicGroupKnown
<1>1. Inv => PublicGroupKnown
  BY DEF Inv, PublicKnown, AddingSound, PublicGroupKnown
<1> QED BY InvCorrect, <1>1, PTL

(***************************************************************************)
(* A group stays with the bin that a freeing thread has read until that    *)
(* thread is done with it, and a group in use always has an owner.         *)
(***************************************************************************)
THEOREM LiveGroupCorrect ==
  ASSUME ~ ReleaseTwice PROVE Spec => []LiveGroupOwned
<1>1. Inv => LiveGroupOwned
  <2> SUFFICES ASSUME Inv PROVE LiveGroupOwned
    OBVIOUS
  <2>1. ASSUME NEW g \in Group, live[g] + public[g] > 0 PROVE ParentBin[g] # NoBin
    <3>1. CASE ParentBin[g] = NoBin
      <4>1. live[g] = 0 /\ public[g] = 0
        BY <3>1 DEF Inv, LocationsCounted
      <4> QED BY <2>1, <4>1
    <3> QED BY <3>1
  <2>2. ASSUME NEW t \in Thread, target[t] # NoBin, pc[t] # "addUnlock"
        PROVE  ParentBin[group[t]] = target[t]
    BY <2>2 DEF Inv, FreeingSound
  <2> QED BY <2>1, <2>2 DEF Inv, LiveGroupOwned
<1> QED BY InvCorrect, <1>1, PTL

(***************************************************************************)
(* A group is once in the one bin it names, or in none: no other bin and   *)
(* not the block allocator has it as well.                                 *)
(***************************************************************************)
THEOREM GroupsExclusiveCorrect ==
  ASSUME ~ ReleaseTwice PROVE Spec => []GroupsExclusive
<1>1. Inv => GroupsExclusive
  BY DEF Inv, GroupsApart, GroupsExclusive, Once, InList
<1> QED BY InvCorrect, <1>1, PTL

(***************************************************************************)
(* Behind the active group, the groups the owner can allocate from come    *)
(* first, so that Allocate is right to look at two groups only.            *)
(***************************************************************************)
THEOREM FreeGroupsFirstCorrect ==
  ASSUME ~ ReleaseTwice PROVE Spec => []FreeGroupsFirst
<1>1. Inv => FreeGroupsFirst
  <2> SUFFICES ASSUME Inv, NEW t \in Thread, NEW i \in DOMAIN bin[t], NEW j \in DOMAIN bin[t],
                      1 < i, i < j, private[bin[t][j]] > 0
               PROVE  private[bin[t][i]] > 0
    BY DEF FreeGroupsFirst
  <2>1. bin[t][i] \in Group /\ bin[t][j] \in Group
    BY DEF Inv, TypeOK
  <2>2. Behind(bin[t], bin[t][i], bin[t][j])
    BY DEF Behind
  <2> QED BY <2>1, <2>2 DEF Inv, FreeFirst
<1> QED BY InvCorrect, <1>1, PTL

(***************************************************************************)
(* A bin that has returned a group at the limit is never emptied by the    *)
(* return of another.                                                      *)
(***************************************************************************)
THEOREM LastGroupCorrect ==
  ASSUME ~ ReleaseTwice PROVE Spec => LastGroupRemovedOnce
<1>1. ASSUME Inv, [Next]_vars, NEW t \in Thread, ReturnAllowed[t] > 1, bin[t] # <<>>
      PROVE  bin'[t] # <<>>
  <2>1. /\ bin \in [Thread -> Seq(Group)] /\ ReturnAllowed[t] \in Nat
        /\ \A u \in Thread : bin[u] \in Seq(Group) /\ Once(bin[u])
    BY <1>1, BinFacts DEF Inv, TypeOK
  <2>2. ASSUME NEW u \in Thread, NEW s, bin' = [bin EXCEPT ![u] = s], u = t => s # <<>>
        PROVE  bin'[t] # <<>>
    BY <1>1, <2>1, <2>2
  <2>3. CASE UNCHANGED bin
    BY <1>1, <2>3
  <2>4. ASSUME NEW u \in Thread, NEW g \in InList(bin[u]), bin' = [bin EXCEPT ![u] = MakeGroupActive(@, g)]
        PROVE  bin'[t] # <<>>
    <3>1. bin[u] # <<>>
      BY <2>1 DEF InList
    <3>2. InList(MakeGroupActive(bin[u], g)) = InList(bin[u])
      BY <2>1, <3>1, ActivateFacts
    <3>3. MakeGroupActive(bin[u], g) # <<>>
      BY <3>2 DEF InList
    <3> QED BY <2>2, <2>4, <3>3
  <2>5. ASSUME NEW u \in Thread, TakeFromSecond(u) PROVE bin'[t] # <<>>
    <3>1. 2 \in DOMAIN bin[u]
      BY <2>1, <2>5 DEF TakeFromSecond
    <3>2. bin[u][2] \in InList(bin[u])
      BY <3>1 DEF InList
    <3> QED BY <2>4, <2>5, <3>2 DEF TakeFromSecond
  <2>6. ASSUME NEW u \in Thread, Collect(u) PROVE bin'[t] # <<>>
    <3>1. group[u] \in Group /\ ParentBin[group[u]] = u
      BY <1>1, <2>6 DEF Collect, Inv, PopSound, TakenSound, Taken
    <3>2. group[u] \in InList(bin[u])
      BY <1>1, <3>1 DEF Inv, GroupsApart
    <3>3. CASE group[u] # Head(bin[u])
      BY <2>1, <2>4, <2>6, <3>2, <3>3 DEF Collect
    <3>4. CASE group[u] = Head(bin[u])
      BY <2>1, <2>3, <2>6, <3>4 DEF Collect
    <3> QED BY <3>3, <3>4
  <2>7. ASSUME NEW u \in Thread, NewGroup(u) PROVE bin'[t] # <<>>
    <3>1. PICK g \in Group : bin' = [bin EXCEPT ![u] = <<g>> \o @]
      BY <1>1, <2>7 DEF NewGroup, Inv, TypeOK
    <3>2. <<g>> \o bin[u] # <<>>
      BY <2>1
    <3> QED BY <2>2, <3>1, <3>2
  <2>8. ASSUME NEW u \in Thread, NEW g \in Group, DeallocateOwn(u, g) PROVE bin'[t] # <<>>
    <3>1. g \in InList(bin[u])
      BY <1>1, <2>8 DEF DeallocateOwn, Inv, GroupsApart
    <3>2. CASE bin' = [bin EXCEPT ![u] = MoveToSecond(@, g)]
      <4>1. InList(MoveToSecond(bin[u], g)) = InList(bin[u])
        BY <2>1, <3>1, MoveToSecondFacts
      <4>2. MoveToSecond(bin[u], g) # <<>>
        BY <3>1, <4>1 DEF InList
      <4> QED BY <2>2, <3>2, <4>2
    <3>3. CASE Len(bin[u]) > ReturnAllowed[u] - 1 /\ bin' = [bin EXCEPT ![u] = Without(@, g)]
      <4>1. Len(Without(bin[u], g)) = Len(bin[u]) - 1
        BY <2>1, <3>1, RemoveFacts
      <4>2. Len(bin[u]) \in Nat
        BY <2>1
      <4>3. u = t => Len(bin[u]) > 1
        BY <1>1, <2>1, <3>3, <4>2
      <4> DEFINE n == Len(bin[u])
                 m == Len(Without(bin[u], g))
      <4>4. n \in Nat /\ m = n - 1 /\ (u = t => n > 1)
        BY <4>1, <4>2, <4>3
      <4> HIDE DEF n, m
      <4>5. u = t => m # 0
        BY <4>4
      <4>6. u = t => Without(bin[u], g) # <<>>
        BY <4>5 DEF m
      <4> QED BY <2>2, <3>3, <4>6
    <3> QED BY <2>8, <3>2, <3>3 DEF DeallocateOwn, IsGroupUnused
  <2>9. CASE Next
    <3>1. PICK u \in Thread : Call(u) \/ Continue(u)
      BY <2>9 DEF Next
    <3>2. CASE Call(u)
      BY <2>3, <2>5, <2>8, <3>2
         DEF Call, TakeFromActive, LookForPublic, DeallocatePublic, binVars
    <3>3. CASE Continue(u)
      BY <2>3, <2>6, <2>7, <3>3
         DEF Continue, PopLock, PopRead, PopWrite, PopUnlock, ScopeEnd, OutOfMemory,
             ReturnUnusedGroup, Push, AddLock, AddLink, AddWrite, AddUnlock, binVars
    <3> QED BY <3>1, <3>2, <3>3
  <2> QED BY <1>1, <2>3, <2>9 DEF vars, binVars
<1>2. Inv /\ [Next]_vars =>
        [\A t \in Thread : ReturnAllowed[t] > 1 /\ bin[t] # <<>> => bin'[t] # <<>>]_vars
  BY <1>1
<1> QED BY InvCorrect, <1>2, PTL DEF Spec, LastGroupRemovedOnce
=============================================================================
