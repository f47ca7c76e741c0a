----------------------------- MODULE ListProofs ------------------------------
(***************************************************************************)
(* Facts the proofs about several modules need.  About the lists of module *)
(* Lists, whatever their nodes: what an operation leaves in a list, and    *)
(* that it repeats nothing.  About bitmaps: that a search finds a bit.     *)
(* About the intrusive lists of module FreeList, for any memory: Reach is  *)
(* a least closed set, so each fact is proved by exhibiting closed sets,   *)
(* never by induction along the list.                                      *)
(***************************************************************************)
EXTENDS Lists, FreeList, SequenceTheorems, FiniteSetTheorems, WellFoundedInduction, TLAPS

Once(list) == \A i, j \in DOMAIN list : list[i] = list[j] => i = j

(***************************************************************************)
(* AddFirst: the list holds the new node in addition, and is still        *)
(* without repetition if the node was not in it.                          *)
(***************************************************************************)
LEMMA AddFirstFacts ==
  ASSUME NEW S, NEW list \in Seq(S), NEW b \in S
  PROVE  /\ <<b>> \o list \in Seq(S)
         /\ Len(<<b>> \o list) = Len(list) + 1
         /\ InList(<<b>> \o list) = {b} \cup InList(list)
         /\ Once(list) /\ b \notin InList(list) => Once(<<b>> \o list)
<1> DEFINE new == <<b>> \o list
<1>1. /\ new \in Seq(S) /\ Len(new) = Len(list) + 1 /\ DOMAIN new = 1 .. Len(list) + 1
      /\ DOMAIN list = 1 .. Len(list) /\ Len(list) \in Nat
      /\ \A i \in DOMAIN new : new[i] = IF i = 1 THEN b ELSE list[i - 1]
  OBVIOUS
<1> HIDE DEF new
<1>2. InList(new) = {b} \cup InList(list)
  <2>1. ASSUME NEW i \in DOMAIN list PROVE list[i] \in InList(new)
    <3>1. i + 1 \in DOMAIN new /\ new[i + 1] = list[i]
      BY <1>1
    <3> QED BY <3>1 DEF InList
  <2>2. b \in InList(new)
    <3>1. 1 \in DOMAIN new /\ new[1] = b
      BY <1>1
    <3> QED BY <3>1 DEF InList
  <2>3. InList(new) \subseteq {b} \cup InList(list)
    BY <1>1 DEF InList
  <2> QED BY <2>1, <2>2, <2>3 DEF InList
<1>3. ASSUME Once(list), b \notin InList(list) PROVE Once(new)
  BY <1>1, <1>3 DEF Once, InList
<1> QED BY <1>1, <1>2, <1>3 DEF new

(***************************************************************************)
(* AddLast: the same at the other end.                                     *)
(***************************************************************************)
LEMMA AddLastFacts ==
  ASSUME NEW S, NEW list \in Seq(S), NEW b \in S
  PROVE  /\ Append(list, b) \in Seq(S)
         /\ Len(Append(list, b)) = Len(list) + 1
         /\ InList(Append(list, b)) = {b} \cup InList(list)
         /\ Once(list) /\ b \notin InList(list) => Once(Append(list, b))
<1> DEFINE new == Append(list, b)
<1>1. /\ new \in Seq(S) /\ Len(new) = Len(list) + 1 /\ DOMAIN new = 1 .. Len(list) + 1
      /\ DOMAIN list = 1 .. Len(list) /\ Len(list) \in Nat
      /\ \A i \in DOMAIN list : i \in DOMAIN new /\ new[i] = list[i]
      /\ new[Len(list) + 1] = b
  OBVIOUS
<1> HIDE DEF new
<1>2. \A i \in DOMAIN new : i \in DOMAIN list \/ i = Len(list) + 1
  BY <1>1
<1>3. InList(new) = {b} \cup InList(list)
  <2>1. b \in InList(new)
    <3>1. Len(list) + 1 \in DOMAIN new
      BY <1>1
    <3> QED BY <1>1, <3>1 DEF InList
  <2>2. InList(list) \subseteq InList(new)
    BY <1>1 DEF InList
  <2>3. InList(new) \subseteq {b} \cup InList(list)
    BY <1>1, <1>2 DEF InList
  <2> QED BY <2>1, <2>2, <2>3
<1>4. ASSUME Once(list), b \notin InList(list) PROVE Once(new)
  BY <1>1, <1>2, <1>4 DEF Once, InList
<1> QED BY <1>1, <1>3, <1>4 DEF new

(***************************************************************************)
(* RemoveFirst: the list holds the other nodes, none of them the first.   *)
(***************************************************************************)
LEMMA RemoveFirstFacts ==
  ASSUME NEW S, NEW list \in Seq(S), list # <<>>, Once(list)
  PROVE  /\ Head(list) \in InList(list) /\ Head(list) \in S
         /\ Tail(list) \in Seq(S)
         /\ Len(Tail(list)) = Len(list) - 1
         /\ InList(Tail(list)) = InList(list) \ {Head(list)}
         /\ Once(Tail(list))
<1> DEFINE new == Tail(list)
<1>1. /\ new \in Seq(S) /\ DOMAIN new = 1 .. Len(list) - 1
      /\ DOMAIN list = 1 .. Len(list) /\ Len(list) \in Nat \ {0}
      /\ Head(list) = list[1] /\ Len(new) = Len(list) - 1
      /\ \A i \in DOMAIN new : new[i] = list[i + 1]
  OBVIOUS
<1> HIDE DEF new
<1>2. Head(list) \in InList(list)
  BY <1>1 DEF InList
<1>3. ASSUME NEW i \in DOMAIN list, list[i] # Head(list) PROVE list[i] \in InList(new)
  <2>1. i - 1 \in DOMAIN new /\ new[i - 1] = list[i]
    BY <1>1, <1>3
  <2> QED BY <2>1 DEF InList
<1>4. ASSUME NEW i \in DOMAIN new PROVE new[i] \in InList(list) \ {Head(list)}
  BY <1>1 DEF InList, Once
<1>5. InList(new) = InList(list) \ {Head(list)}
  BY <1>3, <1>4 DEF InList
<1>6. Once(new)
  <2> SUFFICES ASSUME NEW i \in DOMAIN new, NEW j \in DOMAIN new, new[i] = new[j] PROVE i = j
    BY DEF Once
  <2>1. i + 1 \in DOMAIN list /\ j + 1 \in DOMAIN list /\ list[i + 1] = list[j + 1]
    BY <1>1
  <2>2. i + 1 = j + 1
    BY <2>1 DEF Once
  <2> QED BY <1>1, <2>2
<1> QED BY <1>1, <1>2, <1>5, <1>6 DEF new

(***************************************************************************)
(* Remove: the nodes before the removed one keep their places, and those   *)
(* behind it move up by one.                                               *)
(***************************************************************************)
LEMMA RemovePlaces ==
  ASSUME NEW S, NEW list \in Seq(S), NEW b \in InList(list)
  PROVE  /\ Place(list, b) \in DOMAIN list /\ list[Place(list, b)] = b
         /\ Without(list, b) \in Seq(S)
         /\ Len(Without(list, b)) = Len(list) - 1
         /\ \A i \in 1 .. Len(list) - 1 :
              Without(list, b)[i] = IF i < Place(list, b) THEN list[i] ELSE list[i + 1]
<1> DEFINE k == Place(list, b)
           before == SubSeq(list, 1, k - 1)
           after == SubSeq(list, k + 1, Len(list))
           new == before \o after
<1>1. k \in DOMAIN list /\ list[k] = b
  BY DEF InList, Place
<1>2. new = Without(list, b)
  BY DEF Without
<1> HIDE DEF k
<1>3. Len(list) \in Nat /\ DOMAIN list = 1 .. Len(list) /\ k \in 1 .. Len(list)
  BY <1>1
<1>4. /\ new \in Seq(S) /\ Len(new) = Len(list) - 1 /\ DOMAIN new = 1 .. Len(list) - 1
      /\ \A i \in 1 .. Len(list) - 1 : new[i] = IF i < k THEN list[i] ELSE list[i + 1]
  <2>0. \A i \in 1 .. Len(list) : list[i] \in S
    OBVIOUS
  <2>1. /\ before \in Seq(S) /\ Len(before) = k - 1
        /\ \A i \in 1 .. k - 1 : before[i] = list[i]
    BY <1>3
  <2>2. /\ after \in Seq(S) /\ Len(after) = Len(list) - k
        /\ \A i \in 1 .. Len(list) - k : after[i] = list[k + i]
    <3>1. k + 1 \in Int /\ Len(list) \in Int /\ \A i \in k + 1 .. Len(list) : list[i] \in S
      BY <1>3, <2>0
    <3>2. /\ after \in Seq(S)
          /\ Len(after) = IF k + 1 <= Len(list) THEN Len(list) - (k + 1) + 1 ELSE 0
          /\ \A i \in 1 .. Len(list) - (k + 1) + 1 : after[i] = list[k + 1 + i - 1]
      BY <3>1, SubSeqProperties
    <3> DEFINE n == Len(list)
    <3> HIDE DEF after, n
    <3>3. k \in 1 .. n /\ n \in Nat
      BY <1>3 DEF n
    <3>4. Len(after) = n - k
      BY <3>2, <3>3 DEF n
    <3>5. ASSUME NEW i \in 1 .. n - k PROVE after[i] = list[k + i]
      <4>1. i \in 1 .. n - (k + 1) + 1 /\ k + 1 + i - 1 = k + i
        BY <3>3
      <4> QED BY <3>2, <4>1 DEF n
    <3> QED BY <3>2, <3>4, <3>5 DEF n
  <2> HIDE DEF before, after
  <2>3. /\ new \in Seq(S) /\ Len(new) = Len(before) + Len(after)
        /\ \A i \in 1 .. Len(before) + Len(after) :
             new[i] = IF i <= Len(before) THEN before[i] ELSE after[i - Len(before)]
    BY <2>1, <2>2, ConcatProperties
  <2> HIDE DEF new
  <2>4. Len(new) = Len(list) - 1 /\ DOMAIN new = 1 .. Len(new)
    BY <1>3, <2>1, <2>2, <2>3
  <2>5. ASSUME NEW i \in 1 .. Len(list) - 1 PROVE new[i] = IF i < k THEN list[i] ELSE list[i + 1]
    <3>1. /\ i \in 1 .. Len(before) + Len(after)
          /\ i <= Len(before) <=> i < k
          /\ i < k => i \in 1 .. k - 1
          /\ i >= k => i - (k - 1) \in 1 .. Len(list) - k /\ k + (i - (k - 1)) = i + 1
      BY <1>3, <2>1, <2>2
    <3>2. new[i] = IF i < k THEN before[i] ELSE after[i - (k - 1)]
      BY <2>1, <2>3, <3>1
    <3>3. CASE i < k
      BY <2>1, <3>1, <3>2, <3>3
    <3>4. CASE i >= k
      <4>1. after[i - (k - 1)] = list[k + (i - (k - 1))]
        BY <2>2, <3>1, <3>4
      <4> QED BY <1>3, <3>1, <3>2, <3>4, <4>1
    <3> QED BY <1>3, <3>3, <3>4
  <2> QED BY <2>3, <2>4, <2>5
<1> QED BY <1>1, <1>2, <1>4 DEF k

(***************************************************************************)
(* Remove: the list holds the other nodes.                                 *)
(***************************************************************************)
LEMMA RemoveFacts ==
  ASSUME NEW S, NEW list \in Seq(S), NEW b, Once(list)
  PROVE  /\ Without(list, b) \in Seq(S)
         /\ b \in InList(list) => Len(Without(list, b)) = Len(list) - 1
         /\ InList(Without(list, b)) = InList(list) \ {b}
         /\ Once(Without(list, b))
<1>1. CASE b \notin InList(list)
  BY <1>1 DEF Without
<1>2. CASE b \in InList(list)
  <2> DEFINE k == Place(list, b)
             new == Without(list, b)
  <2>1. /\ k \in DOMAIN list /\ list[k] = b
        /\ new \in Seq(S) /\ Len(new) = Len(list) - 1
        /\ \A i \in 1 .. Len(list) - 1 : new[i] = IF i < k THEN list[i] ELSE list[i + 1]
    BY <1>2, RemovePlaces
  <2> HIDE DEF k
  <2>3. Len(list) \in Nat /\ DOMAIN list = 1 .. Len(list) /\ k \in 1 .. Len(list)
    BY <2>1
  <2>4. DOMAIN new = 1 .. Len(list) - 1
    BY <2>1, <2>3
  <2> HIDE DEF new
  <2>5. ASSUME NEW i \in DOMAIN list, list[i] # b PROVE list[i] \in InList(new)
    <3>1. CASE i < k
      BY <3>1, <2>1, <2>3, <2>4 DEF InList
    <3>2. CASE i > k
      <4>1. i - 1 \in DOMAIN new /\ new[i - 1] = list[i]
        BY <3>2, <2>1, <2>3, <2>4
      <4> QED BY <4>1 DEF InList
    <3> QED BY <3>1, <3>2, <2>1, <2>3, <2>5
  <2> DEFINE old(i) == IF i < k THEN i ELSE i + 1
  <2>6. /\ \A i \in DOMAIN new : old(i) \in DOMAIN list \ {k} /\ new[i] = list[old(i)]
        /\ \A i, j \in DOMAIN new : old(i) = old(j) => i = j
    BY <2>1, <2>3, <2>4
  <2> HIDE DEF old
  <2>7. InList(new) = InList(list) \ {b}
    <3>1. ASSUME NEW i \in DOMAIN new PROVE new[i] \in InList(list) \ {b}
      BY <2>1, <2>6 DEF InList, Once
    <3> QED BY <2>5, <3>1 DEF InList
  <2>8. Once(new)
    BY <2>6 DEF Once
  <2> QED BY <1>2, <2>1, <2>7, <2>8 DEF new
<1> QED BY <1>1, <1>2

-----------------------------------------------------------------------------
(***************************************************************************)
(* A bit search finds the first bit of a word that is not zero: a set of   *)
(* numbers below n has a least one, for the sets of those up to each are   *)
(* ordered by inclusion, and that order has no infinite descent.           *)
(***************************************************************************)
LEMMA LeastExists ==
  ASSUME NEW n \in Nat, NEW S \in SUBSET (0 .. n - 1), S # {}
  PROVE  \E i \in S : \A j \in S : i <= j
<1> DEFINE upTo(i) == {j \in S : j <= i}
           T == {upTo(i) : i \in S}
<1>1. IsFiniteSet(S)
  <2>1. 0 \in Int /\ n - 1 \in Int
    OBVIOUS
  <2>2. IsFiniteSet(0 .. n - 1)
    BY <2>1, FS_Interval
  <2> QED BY <2>2, FS_Subset
<1>2. T \subseteq FiniteSubsetsOf(S) /\ T # {}
  <2>1. ASSUME NEW i \in S PROVE upTo(i) \in FiniteSubsetsOf(S)
    <3>1. upTo(i) \in SUBSET S
      OBVIOUS
    <3> HIDE DEF upTo
    <3>2. IsFiniteSet(upTo(i))
      BY <1>1, <3>1, FS_Subset
    <3> QED BY <3>1, <3>2 DEF FiniteSubsetsOf
  <2> HIDE DEF upTo
  <2> QED BY <2>1
<1>3. PICK x \in T : \A y \in T : ~ (<<y, x>> \in StrictSubsetOrdering(S))
  <2> HIDE DEF T
  <2> QED BY <1>2, FS_StrictSubsetOrderingWellFounded, WFMin
<1>4. PICK i \in S : x = upTo(i)
  OBVIOUS
<1>5. ASSUME NEW j \in S PROVE i <= j
  <2> SUFFICES ASSUME j < i PROVE FALSE
    OBVIOUS
  <2>0. S \subseteq Int
    OBVIOUS
  <2>1. upTo(j) \subseteq upTo(i) /\ i \in upTo(i) /\ i \notin upTo(j)
    <3>1. i \in Int /\ j \in Int
      BY <2>0
    <3>2. \A k \in S : k <= j => k <= i
      BY <2>0, <3>1
    <3>3. i <= i /\ ~ (i <= j)
      BY <3>1
    <3> QED BY <3>2, <3>3, Zenon
  <2>2. <<upTo(j), upTo(i)>> \in StrictSubsetOrdering(S)
    BY <2>1 DEF StrictSubsetOrdering
  <2> QED BY <1>3, <1>4, <2>2
<1> QED BY <1>5

-----------------------------------------------------------------------------
(* Intrusive lists.                                                        *)

(* The list contains its first location and all its successors.            *)
LEMMA ReachClosed ==
  ASSUME NEW nxt, NEW first
  PROVE  /\ Reach(nxt, first) \subseteq DOMAIN nxt
         /\ first \in DOMAIN nxt => first \in Reach(nxt, first)
         /\ Closed(nxt, Reach(nxt, first))
<1> DEFINE D == DOMAIN nxt
           R == Reach(nxt, first)
           Good(S) == Closed(nxt, S) /\ (first \in D => first \in S)
<1>1. R = {l \in D : \A S \in SUBSET D : Good(S) => l \in S}
  BY DEF Reach
<1>2. first \in D => first \in R
  BY <1>1
<1>3. ASSUME NEW l \in R, nxt[l] \in D
      PROVE  nxt[l] \in R
  <2>1. SUFFICES ASSUME NEW S \in SUBSET D, Good(S)
                 PROVE  nxt[l] \in S
    BY <1>1, <1>3
  <2>2. l \in S
    BY <1>1, <2>1
  <2>3. QED
    BY <2>1, <2>2, <1>3 DEF Closed
<1>4. QED
  BY <1>1, <1>2, <1>3 DEF Closed

(* It is contained in every set that does.                                 *)
LEMMA ReachLeast ==
  ASSUME NEW nxt, NEW first, NEW S \in SUBSET DOMAIN nxt,
         Closed(nxt, S), first \in DOMAIN nxt => first \in S
  PROVE  Reach(nxt, first) \subseteq S
BY DEF Reach

(* The list that starts at end is empty.                              *)
LEMMA ReachNothing ==
  ASSUME NEW nxt, NEW first, first \notin DOMAIN nxt
  PROVE  Reach(nxt, first) = {}
<1>1. Closed(nxt, {})
  BY DEF Closed
<1>2. Reach(nxt, first) \subseteq {}
  BY <1>1, ReachLeast
<1>3. QED
  BY <1>2

(* Writes outside the list do not change it.                               *)
LEMMA ReachFrame ==
  ASSUME NEW nxt, NEW nxt2, NEW first,
         DOMAIN nxt2 = DOMAIN nxt,
         \A l \in Reach(nxt, first) : nxt2[l] = nxt[l]
  PROVE  Reach(nxt2, first) = Reach(nxt, first)
<1> DEFINE R == Reach(nxt, first)
           R2 == Reach(nxt2, first)
<1>1. R \subseteq DOMAIN nxt /\ Closed(nxt, R) /\ (first \in DOMAIN nxt => first \in R)
  BY ReachClosed
<1>2. R2 \subseteq DOMAIN nxt /\ Closed(nxt2, R2) /\ (first \in DOMAIN nxt => first \in R2)
  BY ReachClosed
<1>3. Closed(nxt2, R)
  BY <1>1 DEF Closed
<1>4. R2 \subseteq R
  <2> HIDE DEF R
  <2>1. R \in SUBSET DOMAIN nxt2
    BY <1>1
  <2>2. QED
    BY <1>1, <1>3, <2>1, ReachLeast
<1>5. Closed(nxt, R2)
  <2> HIDE DEF R2
  <2>1. \A l \in R2 : nxt2[l] = nxt[l]
    BY <1>4
  <2>2. QED
    BY <1>2, <2>1 DEF Closed
<1>6. R \subseteq R2
  <2> HIDE DEF R2
  <2>1. R2 \in SUBSET DOMAIN nxt
    BY <1>2
  <2>2. QED
    BY <1>2, <1>5, <2>1, ReachLeast
<1>7. QED
  BY <1>4, <1>6

LEMMA ProperFrame ==
  ASSUME NEW nxt, NEW nxt2, NEW first, NEW end,
         DOMAIN nxt2 = DOMAIN nxt,
         \A l \in Reach(nxt, first) : nxt2[l] = nxt[l],
         IsProperList(nxt, first, end)
  PROVE  IsProperList(nxt2, first, end)
<1>1. Reach(nxt2, first) = Reach(nxt, first)
  BY ReachFrame
<1>2. QED
  BY <1>1 DEF IsProperList

(***************************************************************************)
(* Removing the first location of a proper list leaves a proper list, with *)
(* all the other locations.                                                *)
(***************************************************************************)
LEMMA PopFirst ==
  ASSUME NEW nxt, NEW first \in DOMAIN nxt, NEW end, end \notin DOMAIN nxt,
         IsProperList(nxt, first, end)
  PROVE  /\ Reach(nxt, nxt[first]) = Reach(nxt, first) \ {first}
         /\ IsProperList(nxt, nxt[first], end)
         /\ nxt[first] \in DOMAIN nxt \cup {end}
<1> DEFINE D == DOMAIN nxt
           R == Reach(nxt, first)
           T == Reach(nxt, nxt[first])
<1>1. R \subseteq D /\ Closed(nxt, R) /\ first \in R
  BY ReachClosed
<1>2. T \subseteq D /\ Closed(nxt, T) /\ (nxt[first] \in D => nxt[first] \in T)
  BY ReachClosed
<1>3. /\ \A l \in R : nxt[l] \in D \cup {end} /\ nxt[l] # first
      /\ \A l, m \in R : nxt[l] = nxt[m] /\ nxt[l] # end => l = m
  BY DEF IsProperList
<1>4. T \subseteq R \ {first}
  <2> HIDE DEF T, R
  <2>1. Closed(nxt, R \ {first})
    BY <1>1, <1>3 DEF Closed
  <2>2. nxt[first] \in D => nxt[first] \in R \ {first}
    BY <1>1, <1>3 DEF Closed
  <2>3. QED
    BY <2>1, <2>2, <1>1, ReachLeast DEF T
<1>5. R \subseteq T \cup {first}
  <2> HIDE DEF T, R
  <2>1. Closed(nxt, T \cup {first})
    BY <1>2 DEF Closed
  <2>2. QED
    BY <2>1, <1>2, ReachLeast DEF R
<1>6. T = R \ {first}
  BY <1>4, <1>5
<1>7. IsProperList(nxt, nxt[first], end)
  <2> HIDE DEF T, R
  <2>1. \A l \in T : nxt[l] # nxt[first]
    <3>1. CASE nxt[first] = end
      <4>1. T = {}
        BY <3>1, ReachNothing DEF T
      <4>2. QED
        BY <4>1
    <3>2. CASE nxt[first] # end
      BY <3>2, <1>1, <1>3, <1>6
    <3>3. QED
      BY <3>1, <3>2
  <2>2. nxt[first] \in D \cup {end}
    BY <1>1, <1>3
  <2>3. \A l \in T : nxt[l] \in D \cup {end}
    BY <1>3, <1>6
  <2>4. \A l, m \in T : nxt[l] = nxt[m] /\ nxt[l] # end => l = m
    BY <1>3, <1>6
  <2>5. QED
    BY <2>1, <2>2, <2>3, <2>4 DEF IsProperList, T
<1>8. QED
  BY <1>1, <1>3, <1>6, <1>7

(***************************************************************************)
(* Linking a location that is not in a proper list in front of it makes a  *)
(* proper list with that location more.                                    *)
(***************************************************************************)
LEMMA PushFirst ==
  ASSUME NEW nxt, NEW nxt2, NEW first, NEW new \in DOMAIN nxt,
         NEW end, end \notin DOMAIN nxt,
         IsProperList(nxt, first, end),
         new \notin Reach(nxt, first),
         DOMAIN nxt2 = DOMAIN nxt,
         nxt2[new] = first,
         \A l \in DOMAIN nxt \ {new} : nxt2[l] = nxt[l]
  PROVE  /\ Reach(nxt2, new) = Reach(nxt, first) \cup {new}
         /\ IsProperList(nxt2, new, end)
<1> DEFINE D == DOMAIN nxt
           R == Reach(nxt, first)
           T == Reach(nxt2, new)
<1>1. R \subseteq D /\ Closed(nxt, R) /\ (first \in D => first \in R)
  BY ReachClosed
<1>2. DOMAIN nxt2 = D /\ nxt2[new] = first /\ \A l \in R : nxt2[l] = nxt[l]
  BY <1>1
<1>3. T \subseteq D /\ Closed(nxt2, T) /\ new \in T
  BY <1>2, ReachClosed
<1>4. R = Reach(nxt2, first)
  BY <1>2, ReachFrame
<1>5. /\ first \in D \cup {end}
      /\ \A l \in R : nxt[l] \in D \cup {end} /\ nxt[l] # first
      /\ \A l, m \in R : nxt[l] = nxt[m] /\ nxt[l] # end => l = m
  BY DEF IsProperList
<1>6. T \subseteq R \cup {new}
  <2> HIDE DEF T, R
  <2>1. Closed(nxt2, R \cup {new})
    BY <1>1, <1>2 DEF Closed
  <2>2. R \cup {new} \in SUBSET DOMAIN nxt2
    BY <1>1, <1>2
  <2>3. QED
    BY <2>1, <2>2, ReachLeast, new \in R \cup {new} DEF T
<1>7. R \subseteq T
  <2> HIDE DEF T, R
  <2>1. first \in DOMAIN nxt2 => first \in T
    BY <1>2, <1>3 DEF Closed
  <2>2. T \in SUBSET DOMAIN nxt2
    BY <1>2, <1>3
  <2>3. QED
    BY <2>1, <2>2, <1>3, <1>4, ReachLeast
<1>8. T = R \cup {new}
  BY <1>3, <1>6, <1>7
<1>9. IsProperList(nxt2, new, end)
  <2> HIDE DEF T, R
  <2>1. \A l \in T : nxt2[l] \in D \cup {end} /\ nxt2[l] # new
    <3>1. ASSUME NEW l \in R
          PROVE  nxt2[l] \in D \cup {end} /\ nxt2[l] # new
      <4>1. nxt2[l] = nxt[l] /\ nxt[l] \in D \cup {end}
        BY <1>2, <1>5
      <4>2. nxt[l] \in D => nxt[l] \in R
        BY <1>1 DEF Closed
      <4>3. new \notin R
        BY DEF R
      <4>4. QED
        BY <4>1, <4>2, <4>3
    <3>2. nxt2[new] \in D \cup {end} /\ nxt2[new] # new
      <4>1. new \notin R
        BY DEF R
      <4>2. QED
        BY <1>1, <1>2, <1>5, <4>1
    <3>3. QED
      BY <3>1, <3>2, <1>8
  <2>2. \A l, m \in T : nxt2[l] = nxt2[m] /\ nxt2[l] # end => l = m
    BY <1>2, <1>5, <1>8
  <2>3. QED
    BY <2>1, <2>2, <1>2 DEF IsProperList, T
<1>10. QED
  BY <1>8, <1>9
=============================================================================
