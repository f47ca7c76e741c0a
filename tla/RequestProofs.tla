---------------------------- MODULE RequestProofs ----------------------------
(***************************************************************************)
(* Proofs about module HugeLocation and the modules it extends, for any    *)
(* threads, requests and bound on the count.  For a huge location: the     *)
(* division of its memory is arithmetic; the list of the block follows     *)
(* from what each return saw; and the count never falls short of its users *)
(* because a taken group, and then the reference its return has yet to     *)
(* release, stand for one each.  For the requests: what the tables hold,   *)
(* and where the locations of a group are, for each size; the requests and *)
(* sizes for which the program is not right are hypotheses of the theorems.*)
(***************************************************************************)
EXTENDS HugeLocation, FiniteSetTheorems, TLAPS

(* The groups in use, and the threads that have a reference to release.    *)
Held == {use \in Thread \X (0 .. 2) : use[2] \in held[use[1]]}

Releasing == {t \in Thread : pc[t] = "Release"}

(* Nothing happened before the location is allocated, for a huge request.  *)
Untouched ==
  /\ objSize = 0 => /\ ~ mapped
                    /\ held = [t \in Thread |-> {}]
                    /\ pc = [t \in Thread |-> "idle"]
                    /\ GroupBitmap = {} /\ inList = "none"
  /\ objSize # 0 => Kind(size) = "huge"

(***************************************************************************)
(* UsersCounted, with what makes it a count: finitely many users; and a    *)
(* reference that is released is not the last.                             *)
(***************************************************************************)
CountSound ==
  /\ IsFiniteSet(Held) /\ IsFiniteSet(Releasing)
  /\ UsersCounted
  /\ objSize # 0 /\ nGroups(objSize) = 0 =>
       /\ held = [t \in Thread |-> {}]
       /\ pc = [t \in Thread |-> "idle"]
       /\ GroupBitmap = {}
  /\ placement = "unused" => \A t \in Thread : pc[t] # "BLOCK_FROM_HUGE"

Inv ==
  /\ TypeOK
  /\ Untouched
  /\ FreeGroupsListed
  /\ CountSound

-----------------------------------------------------------------------------
(* Arithmetic of the division.                                             *)

(* Page counts are positive, and those of huge requests are at least 3.    *)
LEMMA PagesFacts ==
  ASSUME NEW s \in Nat
  PROVE  /\ HugePages(s) \in Nat \ {0}
         /\ Kind(s) = "huge" => HugePages(s) >= 3
<1> DEFINE huge == Kind(s) = "huge"
<1>1. MAX_LARGE_SIZE = 8128 /\ MAX_HUGE_SIZE \in Nat
  BY SMT DEF MAX_LARGE_SIZE, MAX_HUGE_SIZE
<1>2. HugePages(s) = (s + 4159) \div 4096
  BY SMT DEF HugePages, HUGE_HEADER_SIZE, HUGE_GRANULARITY
<1>3. huge => s \in MAX_LARGE_SIZE + 1 .. MAX_HUGE_SIZE
  BY Zenon DEF Kind
<1> HIDE DEF huge
<1>4. huge => s > 8128
  BY <1>1, <1>3, SMT
<1>5. HugePages(s) \in Nat \ {0} /\ (huge => HugePages(s) >= 3)
  BY <1>2, <1>4, SMT
<1> QED BY <1>5 DEF huge

(* The sizes in pages.                                                     *)
LEMMA Sizes ==
  /\ GROUP_PAGES = 4
  /\ SPLIT_PAGES = 8
  /\ InPages(WINDOWS_GRANULARITY) = 16
BY DEF GROUP_PAGES, SPLIT_PAGES, InPages, WINDOWS_GRANULARITY, HUGE_GRANULARITY,
       SMALL_GROUP_SIZE, HUGE_SPLIT_POSITION

(* The location fits, groups start behind it and fit in the region.        *)
LEMMA RegionFacts ==
  ASSUME NEW n \in Nat \ {0}
  PROVE  /\ Region(n) \in Nat /\ Unused(n) \in Nat
         /\ n <= Unused(n) /\ Unused(n) <= Region(n) /\ Region(n) - Unused(n) <= 15
         /\ nGroups(n) \in 0 .. 3
         /\ Unused(n) + nGroups(n) * 4 <= Region(n)
         /\ nGroups(n) > 0 => n > 8
<1>1. /\ Region(n) = ((n + 15) \div 16) * 16
      /\ Unused(n) = ((n + 3) \div 4) * 4
      /\ nGroups(n) = IF n <= 8 THEN 0 ELSE (Region(n) - Unused(n)) \div 4
  BY Sizes DEF Region, Unused, nGroups, RoundUp
<1>2. PICK r \in Nat : r = (n + 15) \div 16 /\ r * 16 <= n + 15 /\ n + 15 < r * 16 + 16
  OBVIOUS
<1>3. PICK u \in Nat : u = (n + 3) \div 4 /\ u * 4 <= n + 3 /\ n + 3 < u * 4 + 4
  OBVIOUS
<1>4. Region(n) = r * 16 /\ Unused(n) = u * 4
  BY <1>1, <1>2, <1>3
<1>5. /\ n <= u * 4 /\ u * 4 <= r * 16 /\ r * 16 - u * 4 <= 15
  BY <1>2, <1>3
<1>6. /\ (r * 16 - u * 4) \div 4 \in 0 .. 3
      /\ u * 4 + ((r * 16 - u * 4) \div 4) * 4 <= r * 16
  BY <1>5
<1> QED BY <1>1, <1>4, <1>5, <1>6

(* What UnusedAsCache makes, in the one unit of 64 KB it divides: it starts *)
(* at multiples of the location's size, rounded up to groups.              *)
LEMMA CachedFacts ==
  ASSUME NEW n \in Nat \ {0}, n >= 3
  PROVE  /\ n > 8 => CachedStarts(n) = {}
         /\ n <= 8 => /\ Region(n) = 16
                      /\ Unused(n) \in {4, 8} /\ n <= Unused(n)
                      /\ CachedStarts(n) \subseteq {start \in {4, 8, 12} : start % Unused(n) = 0}
<1>1. /\ Region(n) = ((n + 15) \div 16) * 16
      /\ Unused(n) = ((n + 3) \div 4) * 4
      /\ CachedStarts(n) = IF n > 8 THEN {}
                           ELSE {start \in 1 .. Region(n) - 1 : start % Unused(n) = 0}
  BY Sizes DEF Region, Unused, CachedStarts, RoundUp
<1>2. SUFFICES ASSUME n <= 8
               PROVE  /\ Region(n) = 16
                      /\ Unused(n) \in {4, 8} /\ n <= Unused(n)
                      /\ CachedStarts(n) \subseteq {start \in {4, 8, 12} : start % Unused(n) = 0}
  BY <1>1
<1>3. Region(n) = 16 /\ Unused(n) \in {4, 8} /\ n <= Unused(n)
  BY <1>1, <1>2
<1>4. CachedStarts(n) = {start \in 1 .. 15 : start % Unused(n) = 0}
  BY <1>1, <1>2, <1>3
<1>5. ASSUME NEW start \in 1 .. 15, start % Unused(n) = 0
      PROVE  start \in {4, 8, 12}
  BY <1>3, <1>5
<1> QED BY <1>3, <1>4, <1>5

-----------------------------------------------------------------------------
(* The division of the memory.                                             *)

(* A piece is known by its start and its size.                             *)
PieceAt(p, start, k) == p = start .. start + k - 1

LEMMA PiecesDisjoint ==
  ASSUME NEW a \in Nat, NEW k \in Nat, NEW b \in Nat, NEW m \in Nat, NEW p, NEW q,
         PieceAt(p, a, k), PieceAt(q, b, m), a + k <= b \/ b + m <= a
  PROVE  p \cap q = {}
<1>1. ASSUME NEW x \in p, x \in q PROVE FALSE
  <2>1. x \in Int /\ a <= x /\ x <= a + k - 1 /\ b <= x /\ x <= b + m - 1
    BY <1>1, SMT DEF PieceAt
  <2> QED BY <2>1, SMT
<1> QED BY <1>1

LEMMA Within ==
  ASSUME NEW a \in Nat, NEW k \in Nat, NEW r \in Nat, NEW p, PieceAt(p, a, k), a + k <= r
  PROVE  p \subseteq 0 .. r - 1
<1> SUFFICES ASSUME NEW x \in p PROVE x \in 0 .. r - 1
  OBVIOUS
<1>1. x \in Int /\ a <= x /\ x <= a + k - 1
  BY DEF PieceAt
<1> QED BY <1>1

(* The pieces of a location of n pages that are made in either way: the    *)
(* location, further ones of its size, groups of four pages.               *)
LEMMA Division ==
  ASSUME NEW n \in Nat \ {0}, n >= 3, placement = "unused" \/ nGroups(n) = 0
  PROVE  LET location == Pages(0, n)
             cached == {Pages(start, n) : start \in CachedStarts(n)}
             groups == {GroupPages(n, i) : i \in 0 .. nGroups(n) - 1}
             pieces == {location} \cup cached \cup groups
         IN  \A p \in pieces :
               /\ p \subseteq 0 .. Region(n) - 1
               /\ \A q \in pieces \ {p} : p \cap q = {}
<1> DEFINE location == Pages(0, n)
           cached == {Pages(start, n) : start \in CachedStarts(n)}
           groups == {GroupPages(n, i) : i \in 0 .. nGroups(n) - 1}
           pieces == {location} \cup cached \cup groups
           isCached(p) == \E start \in CachedStarts(n) : PieceAt(p, start, n)
           isGroup(p) == \E i \in 0 .. nGroups(n) - 1 : PieceAt(p, Unused(n) + i * 4, 4)
<1>1. \A p \in pieces : PieceAt(p, 0, n) \/ isCached(p) \/ isGroup(p)
  <2>1. PieceAt(location, 0, n)
    BY DEF PieceAt, Pages
  <2>2. \A p \in cached : isCached(p)
    BY DEF PieceAt, Pages
  <2>3. ASSUME NEW i \in 0 .. nGroups(n) - 1
        PROVE  GroupPages(n, i) = Unused(n) + i * 4 .. Unused(n) + i * 4 + 4 - 1
    <3>1. nGroups(n) \in 0 .. 3
      BY RegionFacts
    <3>2. placement = "unused"
      BY <2>3, <3>1
    <3>3. StartAddress(n) = Unused(n)
      BY <3>2 DEF StartAddress
    <3> QED BY <3>3, Sizes DEF GroupPages, Pages
  <2>4. \A p \in groups : isGroup(p)
    BY <2>3 DEF PieceAt
  <2> QED BY <2>1, <2>2, <2>4
<1>2. /\ Region(n) \in Nat /\ Unused(n) \in Nat /\ nGroups(n) \in 0 .. 3
      /\ n <= Unused(n) /\ Unused(n) <= Region(n)
      /\ Unused(n) + nGroups(n) * 4 <= Region(n)
  BY RegionFacts
<1>3. \A start \in CachedStarts(n) :
        /\ start \in Nat /\ n <= start /\ start + n <= Region(n)
        /\ \A other \in CachedStarts(n) : other = start \/ start + n <= other \/ other + n <= start
  <2>1. CASE n > 8
    BY <2>1, CachedFacts
  <2>2. CASE n <= 8
    <3>1. /\ Region(n) = 16
          /\ Unused(n) \in {4, 8} /\ n <= Unused(n)
          /\ CachedStarts(n) \subseteq {start \in {4, 8, 12} : start % Unused(n) = 0}
      BY <2>2, CachedFacts
    <3>2. CASE Unused(n) = 4
      BY <3>1, <3>2
    <3>3. CASE Unused(n) = 8
      <4>1. CachedStarts(n) \subseteq {8}
        BY <3>1, <3>3
      <4> QED BY <3>1, <3>3, <4>1
    <3> QED BY <3>1, <3>2, <3>3
  <2> QED BY <2>1, <2>2
<1>4. CachedStarts(n) = {} \/ nGroups(n) = 0
  BY CachedFacts, RegionFacts
<1> HIDE DEF pieces
<1>5. ASSUME NEW p \in pieces PROVE p \subseteq 0 .. Region(n) - 1
  <2>1. CASE PieceAt(p, 0, n)
    BY <2>1, <1>2, Within
  <2>2. CASE isCached(p)
    BY <2>2, <1>2, <1>3, Within
  <2>3. CASE isGroup(p)
    <3>1. PICK i \in 0 .. nGroups(n) - 1 : PieceAt(p, Unused(n) + i * 4, 4)
      BY <2>3
    <3>2. Unused(n) + i * 4 \in Nat /\ Unused(n) + i * 4 + 4 <= Region(n)
      BY <1>2
    <3> QED BY <1>2, <3>1, <3>2, Within
  <2> QED BY <1>1, <2>1, <2>2, <2>3
<1>6. ASSUME NEW p \in pieces, NEW q \in pieces, p # q PROVE p \cap q = {}
  <2>1. ASSUME NEW a, NEW b, PieceAt(a, 0, n), isCached(b) PROVE a \cap b = {}
    <3>1. PICK start \in CachedStarts(n) : PieceAt(b, start, n)
      BY <2>1
    <3>2. start \in Nat /\ 0 + n <= start /\ 0 \in Nat /\ n \in Nat
      BY <1>3
    <3> QED BY ONLY <2>1, <3>1, <3>2, PiecesDisjoint
  <2>2. ASSUME NEW a, NEW b, PieceAt(a, 0, n), isGroup(b) PROVE a \cap b = {}
    <3>1. PICK i \in 0 .. nGroups(n) - 1 : PieceAt(b, Unused(n) + i * 4, 4)
      BY <2>2
    <3> DEFINE start == Unused(n) + i * 4
    <3>2. start \in Nat /\ 0 + n <= start /\ 0 \in Nat /\ n \in Nat /\ 4 \in Nat
      BY <1>2
    <3>3. PieceAt(b, start, 4)
      BY <3>1
    <3> HIDE DEF start
    <3> QED BY ONLY <2>2, <3>2, <3>3, PiecesDisjoint
  <2>3. ~ (PieceAt(p, 0, n) /\ PieceAt(q, 0, n))
    BY <1>6 DEF PieceAt
  <2>4. CASE isCached(p) /\ isCached(q)
    <3>1. PICK start \in CachedStarts(n) : PieceAt(p, start, n)
      BY <2>4
    <3>2. PICK other \in CachedStarts(n) : PieceAt(q, other, n)
      BY <2>4
    <3>3. start # other
      BY <3>1, <3>2, <1>6 DEF PieceAt
    <3>4. /\ start \in Nat /\ other \in Nat /\ n \in Nat
          /\ start + n <= other \/ other + n <= start
      BY <1>3, <3>3
    <3> QED BY ONLY <3>1, <3>2, <3>4, PiecesDisjoint
  <2>5. CASE isGroup(p) /\ isGroup(q)
    <3>1. PICK i \in 0 .. nGroups(n) - 1 : PieceAt(p, Unused(n) + i * 4, 4)
      BY <2>5
    <3>2. PICK j \in 0 .. nGroups(n) - 1 : PieceAt(q, Unused(n) + j * 4, 4)
      BY <2>5
    <3>3. i # j
      BY <3>1, <3>2, <1>6 DEF PieceAt
    <3> DEFINE start == Unused(n) + i * 4
               other == Unused(n) + j * 4
    <3>4. /\ start \in Nat /\ other \in Nat /\ 4 \in Nat
          /\ start + 4 <= other \/ other + 4 <= start
      BY <1>2, <3>3
    <3>5. PieceAt(p, start, 4) /\ PieceAt(q, other, 4)
      BY <3>1, <3>2
    <3> HIDE DEF start, other
    <3> QED BY ONLY <3>4, <3>5, PiecesDisjoint
  <2>6. ~ (isCached(p) /\ isGroup(q)) /\ ~ (isGroup(p) /\ isCached(q))
    BY <1>4, <1>2
  <2>7. p \cap q = q \cap p
    OBVIOUS
  <2> QED BY <1>1, <2>1, <2>2, <2>3, <2>4, <2>5, <2>6, <2>7, Zenon
<1>7. \A p \in pieces : /\ p \subseteq 0 .. Region(n) - 1
                        /\ \A q \in pieces \ {p} : p \cap q = {}
  BY <1>5, <1>6
<1> QED BY <1>7 DEF pieces

-----------------------------------------------------------------------------
(* Types, and the list of the block.                                       *)

LEMMA FirstFacts ==
  ASSUME NEW S \in SUBSET (0 .. 2), S # {}
  PROVE  First(S) \in S
<1>1. PICK i \in S : \A j \in S : i <= j
  <2>1. \A j \in S : j = 0 \/ j = 1 \/ j = 2
    OBVIOUS
  <2>2. CASE 0 \in S
    BY <2>1, <2>2
  <2>3. CASE 0 \notin S /\ 1 \in S
    BY <2>1, <2>3
  <2>4. CASE 0 \notin S /\ 1 \notin S
    <3>1. 2 \in S /\ \A j \in S : j = 2
      BY <2>1, <2>4
    <3> QED BY <3>1
  <2> QED BY <2>2, <2>3, <2>4
<1> QED BY <1>1 DEF First

LEMMA InitInv == Init => Inv
<1> SUFFICES ASSUME Init PROVE Inv
  OBVIOUS
<1>1. TypeOK
  <2>1. held \in [Thread -> SUBSET (0 .. 2)] /\ GroupBitmap \subseteq 0 .. 2
    BY DEF Init
  <2>2. pc \in [Thread -> {"idle", "BLOCK_WAS_EMPTY", "Release", "BLOCK_FROM_HUGE"}]
    BY DEF Init
  <2>3. size \in Requests /\ placement \in Placements /\ objSize \in {0, HugePages(size)}
    BY DEF Init, FirstRequest
  <2>4. mapped \in BOOLEAN
    BY Zenon DEF Init
  <2>5. References \in Int
    BY DEF Init
  <2>6. inList \in {"none", "fullBlockList", "emptyBlockList"}
    BY DEF Init
  <2> QED BY <2>1, <2>2, <2>3, <2>4, <2>5, <2>6 DEF TypeOK
<1>2. Untouched /\ FreeGroupsListed
  BY <1>1 DEF Init, Untouched, FreeGroupsListed
<1>3. Held = {} /\ Releasing = {}
  BY DEF Init, Held, Releasing
<1>4. CountSound
  BY <1>3, FS_EmptySet DEF Init, CountSound, UsersCounted
<1> QED BY <1>1, <1>2, <1>4 DEF Inv

(* Every step keeps the types, and does nothing before the allocation.     *)
LEMMA TypeStep ==
  ASSUME Inv, [Next]_vars
  PROVE  TypeOK' /\ Untouched'
<1>0. TypeOK /\ Untouched /\ Inv
  BY DEF Inv
<1>1. CASE UNCHANGED vars
  BY <1>0, <1>1 DEF vars, TypeOK, Untouched
<1>2. CASE AnotherRequest
  BY <1>0, <1>2 DEF AnotherRequest, NextRequest, TypeOK, Untouched
<1>3. CASE AllocateHuge
  <2>1. size \in Nat
    BY <1>0, RequestsAssumption DEF TypeOK
  <2>2. objSize' = HugePages(size) /\ objSize' \in Nat \ {0} /\ size' = size
    BY <1>3, <2>1, PagesFacts DEF AllocateHuge
  <2>3. nGroups(objSize') \in 0 .. 3
    BY <2>2, RegionFacts
  <2>4. GroupBitmap' \subseteq 0 .. 2
    BY <1>3, <2>3 DEF AllocateHuge
  <2>5. ASSUME NEW start \in CachedStarts(objSize') PROVE start \in {4, 8, 12}
    <3>1. objSize' >= 3
      BY <1>3, <2>1, <2>2, PagesFacts DEF AllocateHuge
    <3> QED BY <2>2, <2>5, <3>1, CachedFacts
  <2>6. IsFiniteSet(CachedStarts(objSize'))
    <3>1. IsFiniteSet(0 .. 12)
      BY 0 \in Int, 12 \in Int, FS_Interval
    <3>2. CachedStarts(objSize') \subseteq 0 .. 12
      BY <2>5
    <3> QED BY <3>1, <3>2, FS_Subset
  <2>7. References' \in Int
    BY <1>3, <2>6, FS_CardinalityType DEF AllocateHuge
  <2> QED BY <1>0, <1>3, <2>2, <2>4, <2>7 DEF AllocateHuge, TypeOK, Untouched
<1>9. CASE AllocateHugeWithoutMemory
  BY <1>0, <1>9 DEF AllocateHugeWithoutMemory, TypeOK, Untouched
<1>4. ASSUME NEW t \in Thread, GetGroup(t) PROVE TypeOK' /\ Untouched'
  <2>1. GroupBitmap # {} /\ inList = "fullBlockList"
    BY <1>0, <1>4 DEF GetGroup, Inv, FreeGroupsListed
  <2>2. First(GroupBitmap) \in 0 .. 2
    BY <1>0, <2>1, FirstFacts DEF TypeOK
  <2>3. objSize # 0
    BY <1>0, <2>1 DEF Untouched
  <2>4. GroupBitmap' \subseteq 0 .. 2 /\ inList' \in {"none", "fullBlockList", "emptyBlockList"}
    BY <1>0, <1>4 DEF GetGroup, TypeOK
  <2>a. References' \in Int
    <3>1. CountGroup(First(GroupBitmap)) /\ References \in Int
      BY <1>0, <1>4 DEF GetGroup, TypeOK
    <3> QED BY <3>1 DEF CountGroup
  <2>5. held' \in [Thread -> SUBSET (0 .. 2)]
    BY <1>0, <1>4, <2>2 DEF GetGroup, TypeOK
  <2>6. UNCHANGED <<size, placement, objSize, mapped, pc>>
    BY <1>4 DEF GetGroup
  <2> QED BY <1>0, <2>3, <2>4, <2>5, <2>6, <2>a DEF TypeOK, Untouched
<1>5. ASSUME NEW t \in Thread, ReturnGroupToBlock(t) PROVE TypeOK' /\ Untouched'
  <2>1. objSize # 0
    BY <1>0, <1>5 DEF ReturnGroupToBlock, Untouched
  <2>2. PICK i \in held[t] :
          /\ GroupBitmap' = GroupBitmap \cup {i}
          /\ held' = [held EXCEPT ![t] = @ \ {i}]
          /\ pc' = [pc EXCEPT ![t] = AfterReturn(GroupBitmap, GroupBitmap')]
    BY <1>5 DEF ReturnGroupToBlock
  <2>3. i \in 0 .. 2
    BY <1>0, <2>2 DEF TypeOK
  <2>4. AfterReturn(GroupBitmap, GroupBitmap') \in {"BLOCK_WAS_EMPTY", "idle", "Release"}
    BY DEF AfterReturn
  <2> QED BY <1>0, <1>5, <2>1, <2>2, <2>3, <2>4 DEF ReturnGroupToBlock, TypeOK, Untouched
<1>6. ASSUME NEW t \in Thread, Release(t) PROVE TypeOK' /\ Untouched'
  BY <1>0, <1>6 DEF Release, TypeOK, Untouched
<1>7. ASSUME NEW t \in Thread, MoveToFullList(t) PROVE TypeOK' /\ Untouched'
  BY <1>0, <1>7 DEF MoveToFullList, TypeOK, Untouched
<1>8. ASSUME NEW t \in Thread, DeallocateBlock(t) PROVE TypeOK' /\ Untouched'
  BY <1>0, <1>8 DEF DeallocateBlock, TypeOK, Untouched
<1> QED BY <1>1, <1>2, <1>3, <1>4, <1>5, <1>6, <1>7, <1>8, <1>9 DEF Next

(***************************************************************************)
(* The return that saw a full bitmap, that is no free group, is the one    *)
(* that moves the block; a return that saw another relies on it.           *)
(***************************************************************************)
LEMMA ListedStep ==
  ASSUME Inv, [Next]_vars, TypeOK'
  PROVE  FreeGroupsListed'
<1> USE DEF FreeGroupsListed
<1>0. TypeOK /\ FreeGroupsListed
  BY DEF Inv
<1>1. CASE UNCHANGED vars
  BY <1>0, <1>1 DEF vars
<1>2. CASE AnotherRequest
  BY <1>0, <1>2 DEF AnotherRequest
<1>3. CASE AllocateHuge
  BY <1>0, <1>3 DEF AllocateHuge
<1>9. CASE AllocateHugeWithoutMemory
  BY <1>0, <1>9 DEF AllocateHugeWithoutMemory
<1>4. ASSUME NEW t \in Thread, GetGroup(t) PROVE FreeGroupsListed'
  <2>1. GroupBitmap # {} /\ inList = "fullBlockList" /\ First(GroupBitmap) \in GroupBitmap
    BY <1>0, <1>4, FirstFacts DEF GetGroup, TypeOK
  <2> QED BY <1>0, <1>4, <2>1 DEF GetGroup
<1>5. ASSUME NEW t \in Thread, ReturnGroupToBlock(t) PROVE FreeGroupsListed'
  <2>1. PICK i \in held[t] :
          /\ GroupBitmap' = GroupBitmap \cup {i}
          /\ pc' = [pc EXCEPT ![t] = AfterReturn(GroupBitmap, GroupBitmap')]
    BY <1>5 DEF ReturnGroupToBlock
  <2>2. pc[t] = "idle" /\ inList' = inList
    BY <1>5 DEF ReturnGroupToBlock
  <2>3. CASE GroupBitmap = {}
    <3>1. pc'[t] = "BLOCK_WAS_EMPTY"
      BY <1>0, <2>1, <2>3 DEF AfterReturn, TypeOK
    <3> QED BY <2>1, <2>2, <3>1
  <2>4. CASE GroupBitmap # {}
    <3>1. \A u \in Thread : pc[u] = "BLOCK_WAS_EMPTY" => pc'[u] = "BLOCK_WAS_EMPTY"
      BY <1>0, <2>1, <2>2 DEF TypeOK
    <3> QED BY <1>0, <2>1, <2>2, <2>4, <3>1
  <2> QED BY <2>3, <2>4
<1>6. ASSUME NEW t \in Thread, Release(t) PROVE FreeGroupsListed'
  <2>1. \A u \in Thread : pc[u] = "BLOCK_WAS_EMPTY" => pc'[u] = "BLOCK_WAS_EMPTY"
    BY <1>0, <1>6 DEF TypeOK, Release
  <2> QED BY <1>0, <1>6, <2>1 DEF Release
<1>7. ASSUME NEW t \in Thread, MoveToFullList(t) PROVE FreeGroupsListed'
  BY <1>0, <1>7 DEF MoveToFullList
<1>8. ASSUME NEW t \in Thread, DeallocateBlock(t) PROVE FreeGroupsListed'
  BY <1>0, <1>8 DEF DeallocateBlock
<1> QED BY <1>1, <1>2, <1>3, <1>4, <1>5, <1>6, <1>7, <1>8, <1>9 DEF Next

-----------------------------------------------------------------------------
(* The count.                                                              *)

LEMMA Grows ==
  ASSUME NEW S, NEW x, IsFiniteSet(S)
  PROVE  /\ IsFiniteSet(S \cup {x}) /\ Cardinality(S \cup {x}) \in Nat
         /\ Cardinality(S \cup {x}) <= Cardinality(S) + 1
<1>1. Cardinality(S) \in Nat
  BY FS_CardinalityType
<1>2. /\ IsFiniteSet(S \cup {x})
      /\ Cardinality(S \cup {x}) = IF x \in S THEN Cardinality(S) ELSE Cardinality(S) + 1
  BY FS_AddElement
<1>3. CASE x \in S
  BY <1>1, <1>2, <1>3
<1>4. CASE x \notin S
  BY <1>1, <1>2, <1>4
<1> QED BY <1>3, <1>4

LEMMA CountStep ==
  ASSUME Inv, [Next]_vars, TypeOK', Untouched'
  PROVE  CountSound'
<1>0. /\ TypeOK /\ Untouched /\ CountSound
      /\ IsFiniteSet(Held) /\ IsFiniteSet(Releasing)
      /\ Cardinality(Held) \in Nat /\ Cardinality(Releasing) \in Nat
      /\ Counted = Cardinality(Held) + Cardinality(Releasing)
      /\ Counted' = Cardinality(Held') + Cardinality(Releasing')
  BY FS_CardinalityType DEF Inv, CountSound, Counted, Held, Releasing
<1> DEFINE Grouped == mapped /\ placement = "unused" /\ nGroups(objSize) > 0
           Alone == objSize # 0 /\ nGroups(objSize) = 0
           Quiet == held = [t \in Thread |-> {}] /\ GroupBitmap = {} /\ pc = [t \in Thread |-> "idle"]
           Kept == placement = "unused" => \A t \in Thread : pc[t] # "BLOCK_FROM_HUGE"
<1>a. /\ Grouped => References >= 1 + Cardinality(Held) + Cardinality(Releasing)
      /\ Alone => Quiet
      /\ Kept
      /\ References \in Int
  BY <1>0 DEF CountSound, UsersCounted, TypeOK
<1>b. ASSUME IsFiniteSet(Held'), IsFiniteSet(Releasing'),
             Grouped' => References' >= 1 + Cardinality(Held') + Cardinality(Releasing'),
             Alone' => Quiet', Kept'
      PROVE  CountSound'
  <2>1. Grouped' => References' >= 1 + Counted'
    <3>1. Cardinality(Held') \in Nat /\ Cardinality(Releasing') \in Nat /\ References' \in Int
      BY <1>b, FS_CardinalityType DEF TypeOK
    <3> HIDE DEF Grouped
    <3> QED BY <1>0, <1>b, <3>1
  <2> QED BY <1>b, <2>1 DEF CountSound, UsersCounted
<1>1. CASE UNCHANGED vars
  <2>1. Held' = Held /\ Releasing' = Releasing
    BY <1>1 DEF vars, Held, Releasing
  <2> QED BY <1>0, <1>a, <1>b, <1>1, <2>1 DEF vars
<1>2. CASE AnotherRequest
  <2>1. Held' = Held /\ Releasing' = Releasing
    BY <1>2 DEF AnotherRequest, Held, Releasing
  <2> QED BY <1>0, <1>a, <1>b, <1>2, <2>1 DEF AnotherRequest
<1>3. CASE AllocateHuge
  <2>1. /\ held' = [t \in Thread |-> {}] /\ pc' = [t \in Thread |-> "idle"]
        /\ objSize' \in Nat \ {0}
    <3>1. size \in Nat
      BY <1>0, RequestsAssumption DEF TypeOK
    <3> QED BY <1>0, <1>3, <3>1, PagesFacts DEF AllocateHuge, Untouched
  <2>2. Held' = {} /\ Releasing' = {}
    BY <2>1 DEF Held, Releasing
  <2>3. nGroups(objSize') \in 0 .. 3
    BY <2>1, RegionFacts
  <2>4. nGroups(objSize') = 0 => GroupBitmap' = {}
    BY <1>3 DEF AllocateHuge
  <2>5. nGroups(objSize') > 0 => References' = 1
    <3>1. SUFFICES ASSUME nGroups(objSize') > 0 PROVE References' = 1
      OBVIOUS
    <3>2. ~ (objSize' <= SPLIT_PAGES) /\ objSize' > SPLIT_PAGES
      BY <2>1, <3>1, Sizes DEF nGroups
    <3>3. CachedStarts(objSize') = {} /\ Cardinality(CachedStarts(objSize')) = 0
      BY <3>2, FS_EmptySet DEF CachedStarts
    <3>4. 0 \in 0 .. nGroups(objSize') - 1
      BY <2>3, <3>1
    <3> QED BY <1>3, <3>3, <3>4 DEF AllocateHuge
  <2>6. Grouped' => References' >= 1 + Cardinality(Held') + Cardinality(Releasing')
    BY <2>2, <2>5, FS_EmptySet
  <2>7. Kept'
    BY <2>1
  <2>8. Alone' => Quiet'
    BY <2>1, <2>4
  <2> QED BY <1>b, <2>2, <2>6, <2>7, <2>8, FS_EmptySet
<1>9. CASE AllocateHugeWithoutMemory
  <2>1. /\ held = [t \in Thread |-> {}] /\ pc = [t \in Thread |-> "idle"] /\ GroupBitmap = {}
        /\ UNCHANGED <<held, pc, GroupBitmap, mapped, placement>> /\ ~ mapped
    BY <1>0, <1>9 DEF AllocateHugeWithoutMemory, Untouched
  <2>2. Held' = Held /\ Releasing' = Releasing
    BY <2>1 DEF Held, Releasing
  <2> QED BY <1>0, <1>a, <1>b, <2>1, <2>2
<1>4. ASSUME NEW t \in Thread, GetGroup(t) PROVE CountSound'
  <2> DEFINE i == First(GroupBitmap)
  <2>1. GroupBitmap # {} /\ i \in 0 .. 2 /\ inList = "fullBlockList"
    <3>1. GroupBitmap # {} /\ GroupBitmap \subseteq 0 .. 2 /\ inList = "fullBlockList"
      BY <1>4 DEF GetGroup, Inv, FreeGroupsListed, TypeOK
    <3> QED BY <3>1, FirstFacts
  <2>2. /\ held' = [held EXCEPT ![t] = @ \cup {i}] /\ pc' = pc
        /\ objSize' = objSize /\ placement' = placement /\ mapped' = mapped
        /\ placement = "unused" => References' = References + 1
    BY <1>4 DEF GetGroup, CountGroup
  <2>3. ~ Alone /\ ~ Alone'
    BY <1>a, <2>1, <2>2
  <2>4. Releasing' = Releasing
    BY <2>2 DEF Releasing
  <2> HIDE DEF i
  <2>5. Held' = Held \cup {<<t, i>>}
    BY <1>0, <2>1, <2>2 DEF Held, TypeOK
  <2>6. /\ IsFiniteSet(Held') /\ Cardinality(Held') <= Cardinality(Held) + 1
        /\ Cardinality(Held') \in Nat
    BY <1>0, <2>5, Grows
  <2>7. Grouped' => References' >= 1 + Cardinality(Held') + Cardinality(Releasing')
    BY <1>0, <1>a, <2>2, <2>4, <2>6
  <2>8. Kept'
    BY <1>a, <2>2
  <2> QED BY <1>0, <1>b, <2>3, <2>4, <2>6, <2>7, <2>8
<1>5. ASSUME NEW t \in Thread, ReturnGroupToBlock(t) PROVE CountSound'
  <2>1. PICK i \in held[t] :
          /\ held' = [held EXCEPT ![t] = @ \ {i}]
          /\ pc' = [pc EXCEPT ![t] = AfterReturn(GroupBitmap, GroupBitmap')]
    BY <1>5 DEF ReturnGroupToBlock
  <2>2. pc[t] = "idle" /\ UNCHANGED <<objSize, placement, References, mapped>>
    BY <1>5 DEF ReturnGroupToBlock
  <2>3. i \in 0 .. 2 /\ ~ Alone /\ ~ Alone'
    BY <1>0, <1>a, <2>1, <2>2 DEF TypeOK
  <2>4. Held' = Held \ {<<t, i>>} /\ <<t, i>> \in Held
    BY <1>0, <2>1, <2>3 DEF Held, TypeOK
  <2>5. IsFiniteSet(Held') /\ Cardinality(Held') = Cardinality(Held) - 1
    BY <1>0, <2>4, FS_RemoveElement
  <2>6. Releasing' = Releasing \/ Releasing' = Releasing \cup {t}
    BY <1>0, <2>1, <2>2 DEF Releasing, TypeOK
  <2>7. /\ IsFiniteSet(Releasing') /\ Cardinality(Releasing') <= Cardinality(Releasing) + 1
        /\ Cardinality(Releasing') \in Nat
    <3>1. CASE Releasing' = Releasing
      BY <1>0, <3>1
    <3>2. CASE Releasing' = Releasing \cup {t}
      BY <1>0, <3>2, Grows
    <3> QED BY <2>6, <3>1, <3>2
  <2>8. Grouped' => References' >= 1 + Cardinality(Held') + Cardinality(Releasing')
    BY <1>0, <1>a, <2>2, <2>5, <2>7
  <2>9. Kept'
    BY <1>0, <1>a, <2>1, <2>2 DEF AfterReturn, TypeOK
  <2> QED BY <1>b, <2>3, <2>5, <2>7, <2>8, <2>9
<1>6. ASSUME NEW t \in Thread, Release(t) PROVE CountSound'
  <2>1. /\ pc[t] = "Release" /\ References' = References - 1
        /\ pc' = [pc EXCEPT ![t] = IF References = 1 THEN "BLOCK_FROM_HUGE" ELSE "idle"]
        /\ mapped /\ UNCHANGED <<objSize, placement, held, mapped>>
    BY <1>6 DEF Release
  <2>2. Held' = Held
    BY <2>1 DEF Held
  <2>3. Releasing' = Releasing \ {t} /\ t \in Releasing
    BY <1>0, <2>1 DEF Releasing, TypeOK
  <2>4. IsFiniteSet(Releasing') /\ Cardinality(Releasing') = Cardinality(Releasing) - 1
    BY <1>0, <2>3, FS_RemoveElement
  <2>5. Cardinality(Releasing) >= 1
    BY <1>0, <2>3, FS_EmptySet
  <2>6. ~ Alone /\ ~ Alone'
    BY <1>a, <2>1
  <2>7. Grouped' => References' >= 1 + Cardinality(Held') + Cardinality(Releasing')
    BY <1>0, <1>a, <2>1, <2>2, <2>4
  (* Grouped: the location itself has a reference, so this is not the last. *)
  <2>8. Kept'
    <3>1. SUFFICES ASSUME placement = "unused" PROVE References # 1
      BY <1>0, <1>a, <2>1 DEF TypeOK
    <3>2. objSize # 0
      BY <1>0, <2>1 DEF Untouched
    <3>3. objSize \in Nat \ {0}
      BY <1>0, <3>2, PagesFacts, RequestsAssumption DEF TypeOK
    <3>4. Grouped
      BY <2>1, <2>6, <3>1, <3>2, <3>3, RegionFacts
    <3> QED BY <1>0, <1>a, <2>5, <3>4
  <2> QED BY <1>0, <1>b, <2>2, <2>4, <2>6, <2>7, <2>8
<1>7. ASSUME NEW t \in Thread, MoveToFullList(t) PROVE CountSound'
  <2>1. /\ pc[t] = "BLOCK_WAS_EMPTY" /\ pc' = [pc EXCEPT ![t] = "idle"]
        /\ UNCHANGED <<objSize, placement, References, held, GroupBitmap, mapped>>
    BY <1>7 DEF MoveToFullList
  <2>2. Held' = Held /\ Releasing' = Releasing
    BY <1>0, <2>1 DEF Held, Releasing, TypeOK
  <2>3. ~ Alone' /\ Kept'
    BY <1>0, <1>a, <2>1 DEF TypeOK
  <2> QED BY <1>0, <1>a, <1>b, <2>1, <2>2, <2>3
<1>8. ASSUME NEW t \in Thread, DeallocateBlock(t) PROVE CountSound'
  <2>1. /\ pc[t] = "BLOCK_FROM_HUGE" /\ pc' = [pc EXCEPT ![t] = "idle"]
        /\ ~ mapped' /\ UNCHANGED <<objSize, placement, References, held, GroupBitmap>>
    BY <1>8 DEF DeallocateBlock
  <2>2. Held' = Held /\ Releasing' = Releasing
    BY <1>0, <2>1 DEF Held, Releasing, TypeOK
  <2>3. ~ Alone' /\ Kept'
    BY <1>0, <1>a, <2>1 DEF TypeOK
  <2> QED BY <1>0, <1>a, <1>b, <2>1, <2>2, <2>3
<1> QED BY <1>1, <1>2, <1>3, <1>4, <1>5, <1>6, <1>7, <1>8, <1>9 DEF Next

-----------------------------------------------------------------------------
(* The invariant, and what follows from it.                                *)

LEMMA InvCorrect == Spec => []Inv
<1>1. Inv /\ [Next]_vars => Inv'
  <2> SUFFICES ASSUME Inv, [Next]_vars PROVE Inv'
    OBVIOUS
  <2>1. TypeOK' /\ Untouched'
    BY TypeStep
  <2>2. FreeGroupsListed' /\ CountSound'
    BY <2>1, ListedStep, CountStep
  <2> QED BY <2>1, <2>2 DEF Inv
<1> QED BY <1>1, InitInv, PTL DEF Spec

(***************************************************************************)
(* The location, the further ones and the groups AllocateHuge makes behind *)
(* it lie apart from each other in the memory it obtained, for a request   *)
(* of any number of pages.                                                 *)
(***************************************************************************)
THEOREM PiecesCorrect == Spec => []PiecesApart
<1>1. Inv => PiecesApart
  <2> SUFFICES ASSUME Inv, Allocated, placement = "unused" \/ nGroups(objSize) = 0
               PROVE  PiecesApart
    BY DEF PiecesApart
  <2>1. objSize \in Nat \ {0} /\ objSize >= 3
    BY PagesFacts, RequestsAssumption DEF Inv, Untouched, TypeOK, Allocated
  <2> QED BY <2>1, Division DEF PiecesApart
<1> QED BY <1>1, InvCorrect, PTL

(***************************************************************************)
(* The reference count of a huge location is at least the number of the    *)
(* groups taken behind it, of the returns that have yet to release one,    *)
(* and one for the location.                                               *)
(***************************************************************************)
THEOREM UsersCorrect == Spec => []UsersCounted
<1>1. Inv => UsersCounted
  BY DEF Inv, CountSound
<1> QED BY <1>1, InvCorrect, PTL

(***************************************************************************)
(* A free group behind a huge location is in the list in which GetGroup    *)
(* looks, or a thread is about to put its block there, wherever the groups *)
(* are placed.                                                             *)
(***************************************************************************)
THEOREM FreeGroupsCorrect == Spec => []FreeGroupsListed
<1>1. Inv => FreeGroupsListed
  BY DEF Inv
<1> QED BY <1>1, InvCorrect, PTL

-----------------------------------------------------------------------------
(* The tables of sizes.                                                    *)

(* The requests the tables fail: one that has no entry in the table of the *)
(* medium sizes, those above the size of their entry, and huge ones of     *)
(* more pages than there are bins for.                                     *)
NoLocation == 897 .. 959

TooSmall ==
  (1153 .. 1279) \cup (1473 .. 1599) \cup (1793 .. 2239) \cup (2305 .. 2559) \cup (8097 .. 8128)

NoBin == {s \in Nat : 1040320 < s /\ s <= 1048512}

(* A table whose m entries are for the sizes from 0, and end with a class. *)
SortedTable(table, m, s, b) ==
  /\ table \in Seq([Size : Nat, Bin : Nat]) /\ Len(table) = m
  /\ table[m] = AllocationInfo(s, b)
  /\ \A k \in 1 .. m :
       /\ table[k].Size >= k - 1 /\ table[k].Size >= 8
       /\ table[k].Bin \in 0 .. b
  /\ \A k \in 1 .. m - 1 :
       /\ table[k].Size <= table[k + 1].Size /\ table[k].Bin <= table[k + 1].Bin
       /\ table[k].Bin = table[k + 1].Bin <=> table[k].Size = table[k + 1].Size

LEMMA EntriesFacts ==
  ASSUME NEW n \in Nat \ {0}, NEW s \in Nat, NEW b \in Nat
  PROVE  /\ Entries(n, AllocationInfo(s, b)) \in Seq([Size : Nat, Bin : Nat])
         /\ Len(Entries(n, AllocationInfo(s, b))) = n
         /\ \A k \in 1 .. n : Entries(n, AllocationInfo(s, b))[k] = AllocationInfo(s, b)
BY DEF Entries, AllocationInfo

LEMMA FirstClass ==
  ASSUME NEW n \in Nat \ {0}, NEW s \in Nat, NEW b \in Nat, n - 1 <= s, 8 <= s
  PROVE  SortedTable(Entries(n, AllocationInfo(s, b)), n, s, b)
<1> DEFINE table == Entries(n, AllocationInfo(s, b))
<1>1. /\ table \in Seq([Size : Nat, Bin : Nat]) /\ Len(table) = n
      /\ \A k \in 1 .. n : table[k] = AllocationInfo(s, b)
  BY EntriesFacts
<1> HIDE DEF table
<1>2. AllocationInfo(s, b).Size = s /\ AllocationInfo(s, b).Bin = b
  BY DEF AllocationInfo
<1>3. SortedTable(table, n, s, b)
  BY <1>1, <1>2 DEF SortedTable
<1> QED BY <1>3 DEF table

LEMMA ConcatFacts ==
  ASSUME NEW S, NEW t \in Seq(S), NEW u \in Seq(S)
  PROVE  /\ t \o u \in Seq(S) /\ Len(t \o u) = Len(t) + Len(u)
         /\ \A k \in 1 .. Len(t) : (t \o u)[k] = t[k]
         /\ \A k \in Len(t) + 1 .. Len(t) + Len(u) : (t \o u)[k] = u[k - Len(t)]
OBVIOUS

(* A class of n entries of size r and bin c may follow to make l entries.   *)
Follows(m, s, b, n, r, c, l) ==
  /\ {m, n} \subseteq Nat \ {0} /\ {s, b, r, c} \subseteq Nat
  /\ s < r /\ b < c
  /\ l = m + n /\ l - 1 <= r

LEMMA NextClass ==
  ASSUME NEW table, NEW m, NEW s, NEW b, SortedTable(table, m, s, b),
         NEW n, NEW r, NEW c, NEW l, Follows(m, s, b, n, r, c, l)
  PROVE  SortedTable(table \o Entries(n, AllocationInfo(r, c)), l, r, c)
<1>0. /\ m \in Nat \ {0} /\ n \in Nat \ {0} /\ s \in Nat /\ b \in Nat /\ r \in Nat /\ c \in Nat
      /\ s < r /\ b < c /\ l = m + n /\ l - 1 <= r
  BY DEF Follows
<1> USE <1>0
<1> DEFINE class == Entries(n, AllocationInfo(r, c))
           longer == table \o class
           S == [Size : Nat, Bin : Nat]
           info == AllocationInfo(r, c)
<1>1. /\ class \in Seq(S) /\ Len(class) = n
      /\ \A k \in 1 .. n : class[k] = info
  BY EntriesFacts
<1>2. table \in Seq(S) /\ Len(table) = m
  BY DEF SortedTable
<1>3. info \in S /\ info.Size = r /\ info.Bin = c
  BY DEF AllocationInfo
<1>4. /\ table[m].Size = s /\ table[m].Bin = b
      /\ \A k \in 1 .. m : /\ table[k].Size \in Nat /\ table[k].Bin \in Nat
                           /\ table[k].Size >= k - 1 /\ table[k].Size >= 8
                           /\ table[k].Bin <= b
  <2>1. \A k \in 1 .. m : table[k] \in S /\ table[k].Size \in Nat /\ table[k].Bin \in Nat
    <3>1. ASSUME NEW x \in S PROVE x.Size \in Nat /\ x.Bin \in Nat
      OBVIOUS
    <3> HIDE DEF S
    <3>2. \A k \in 1 .. m : table[k] \in S
      BY <1>2
    <3> QED BY <3>1, <3>2
  <2>2. table[m].Size = s /\ table[m].Bin = b
    BY DEF SortedTable, AllocationInfo
  <2>3. \A k \in 1 .. m : /\ table[k].Size >= k - 1 /\ table[k].Size >= 8
                          /\ table[k].Bin \in 0 .. b
    BY DEF SortedTable
  <2> HIDE DEF S
  <2>4. \A k \in 1 .. m : table[k].Bin <= b
    BY <2>3
  <2> QED BY <2>1, <2>2, <2>3, <2>4
<1>5. \A k \in 1 .. m - 1 :
       /\ table[k].Size <= table[k + 1].Size /\ table[k].Bin <= table[k + 1].Bin
       /\ table[k].Bin = table[k + 1].Bin <=> table[k].Size = table[k + 1].Size
  BY DEF SortedTable
<1> HIDE DEF class, S, info
<1>6. /\ longer \in Seq(S) /\ Len(longer) = m + n
      /\ \A k \in 1 .. m : longer[k] = table[k]
      /\ \A k \in m + 1 .. m + n : longer[k] = info
  <2>1. /\ longer \in Seq(S) /\ Len(longer) = m + n
        /\ \A k \in 1 .. m : longer[k] = table[k]
        /\ \A k \in m + 1 .. m + n : longer[k] = class[k - m]
    <3>1. /\ longer \in Seq(S) /\ Len(longer) = Len(table) + Len(class)
          /\ \A k \in 1 .. Len(table) : longer[k] = table[k]
          /\ \A k \in Len(table) + 1 .. Len(table) + Len(class) : longer[k] = class[k - Len(table)]
      BY ONLY <1>1, <1>2, ConcatFacts
    <3> HIDE DEF longer
    <3> QED BY ONLY <1>1, <1>2, <3>1
  <2>2. \A k \in m + 1 .. m + n : k - m \in 1 .. n
    OBVIOUS
  <2> QED BY <1>1, <2>1, <2>2
<1> HIDE DEF longer
<1>7. ASSUME NEW k \in 1 .. m + n
      PROVE  /\ longer[k].Size >= k - 1 /\ longer[k].Size >= 8
             /\ longer[k].Bin \in 0 .. c
  <2>1. CASE k \in 1 .. m
    <3>1. longer[k] = table[k]
      BY <1>6, <2>1
    <3> QED BY <1>4, <2>1, <3>1
  <2>2. CASE k \in m + 1 .. m + n
    <3>1. longer[k] = info
      BY <1>6, <2>2
    <3>2. table[m].Size >= 8 /\ k - 1 <= r
      BY <1>4, <2>2
    <3> QED BY <1>3, <1>4, <3>1, <3>2
  <2> QED BY <2>1, <2>2
<1>8. ASSUME NEW k \in 1 .. m + n - 1
      PROVE  /\ longer[k].Size <= longer[k + 1].Size /\ longer[k].Bin <= longer[k + 1].Bin
             /\ longer[k].Bin = longer[k + 1].Bin <=> longer[k].Size = longer[k + 1].Size
  <2>1. CASE k \in 1 .. m - 1
    <3>1. longer[k] = table[k] /\ longer[k + 1] = table[k + 1]
      BY <1>6, <2>1
    <3> QED BY <1>5, <2>1, <3>1
  <2>2. CASE k = m
    <3>1. longer[k] = table[m] /\ longer[k + 1] = info
      BY <1>6, <2>2
    <3>2. longer[k].Size = s /\ longer[k].Bin = b /\ longer[k + 1].Size = r /\ longer[k + 1].Bin = c
      BY ONLY <1>3, <1>4, <3>1
    <3> QED BY ONLY <1>0, <3>2
  <2>3. CASE k \in m + 1 .. m + n - 1
    <3>1. longer[k] = info /\ longer[k + 1] = info
      BY <1>6, <2>3
    <3>2. longer[k].Size = r /\ longer[k].Bin = c /\ longer[k + 1].Size = r /\ longer[k + 1].Bin = c
      BY ONLY <1>3, <3>1
    <3> QED BY ONLY <1>0, <3>2
  <2> QED BY <2>1, <2>2, <2>3
<1>9. longer[m + n] = info
  BY <1>6
<1>10. SortedTable(longer, l, r, c)
  BY <1>6, <1>7, <1>8, <1>9 DEF SortedTable, S, info
<1> QED BY <1>10 DEF longer, class

LEMMA SmallTable == SortedTable(SmallAllocTable, 65, 64, 9)
<1> DEFINE t0 == Entries(9, AllocationInfo(8, 0))
           t1 == t0 \o Entries(4, AllocationInfo(12, 1))
           t2 == t1 \o Entries(4, AllocationInfo(16, 2))
           t3 == t2 \o Entries(4, AllocationInfo(20, 3))
           t4 == t3 \o Entries(4, AllocationInfo(24, 4))
           t5 == t4 \o Entries(8, AllocationInfo(32, 5))
           t6 == t5 \o Entries(8, AllocationInfo(40, 6))
           t7 == t6 \o Entries(8, AllocationInfo(48, 7))
           t8 == t7 \o Entries(8, AllocationInfo(56, 8))
           t9 == t8 \o Entries(8, AllocationInfo(64, 9))
<1>0. SortedTable(t0, 9, 8, 0)
  BY ONLY FirstClass
<1> HIDE DEF t0
<1>1. SortedTable(t1, 13, 12, 1)
  <2>1. Follows(9, 8, 0, 4, 12, 1, 13)
    BY DEF Follows
  <2> QED BY ONLY <1>0, <2>1, NextClass, Zenon
<1> HIDE DEF t1
<1>2. SortedTable(t2, 17, 16, 2)
  <2>1. Follows(13, 12, 1, 4, 16, 2, 17)
    BY DEF Follows
  <2> QED BY ONLY <1>1, <2>1, NextClass, Zenon
<1> HIDE DEF t2
<1>3. SortedTable(t3, 21, 20, 3)
  <2>1. Follows(17, 16, 2, 4, 20, 3, 21)
    BY DEF Follows
  <2> QED BY ONLY <1>2, <2>1, NextClass, Zenon
<1> HIDE DEF t3
<1>4. SortedTable(t4, 25, 24, 4)
  <2>1. Follows(21, 20, 3, 4, 24, 4, 25)
    BY DEF Follows
  <2> QED BY ONLY <1>3, <2>1, NextClass, Zenon
<1> HIDE DEF t4
<1>5. SortedTable(t5, 33, 32, 5)
  <2>1. Follows(25, 24, 4, 8, 32, 5, 33)
    BY DEF Follows
  <2> QED BY ONLY <1>4, <2>1, NextClass, Zenon
<1> HIDE DEF t5
<1>6. SortedTable(t6, 41, 40, 6)
  <2>1. Follows(33, 32, 5, 8, 40, 6, 41)
    BY DEF Follows
  <2> QED BY ONLY <1>5, <2>1, NextClass, Zenon
<1> HIDE DEF t6
<1>7. SortedTable(t7, 49, 48, 7)
  <2>1. Follows(41, 40, 6, 8, 48, 7, 49)
    BY DEF Follows
  <2> QED BY ONLY <1>6, <2>1, NextClass, Zenon
<1> HIDE DEF t7
<1>8. SortedTable(t8, 57, 56, 8)
  <2>1. Follows(49, 48, 7, 8, 56, 8, 57)
    BY DEF Follows
  <2> QED BY ONLY <1>7, <2>1, NextClass, Zenon
<1> HIDE DEF t8
<1>9. SortedTable(t9, 65, 64, 9)
  <2>1. Follows(57, 56, 8, 8, 64, 9, 65)
    BY DEF Follows
  <2> QED BY ONLY <1>8, <2>1, NextClass, Zenon
<1> HIDE DEF t9
<1>10. t9 = SmallAllocTable
  BY DEF t0, t1, t2, t3, t4, t5, t6, t7, t8, t9, SmallAllocTable
<1> QED BY <1>9, <1>10

(* The powers of two that a search of 32 bits looks at.                     *)
Power(i) == 2 ^ i

LEMMA Powers ==
  /\ Power(6) = 64 /\ Power(7) = 128 /\ Power(8) = 256 /\ Power(9) = 512 /\ Power(10) = 1024
  /\ \A i \in 0 .. 5 : Power(i + 1) \in 0 .. 64
  /\ \A i \in 10 .. 31 : Power(i) \in Nat /\ Power(i) >= 1024
<1>1. /\ Power(1) = 2 /\ Power(2) = 4 /\ Power(3) = 8 /\ Power(4) = 16 /\ Power(5) = 32
      /\ Power(6) = 64 /\ Power(7) = 128 /\ Power(8) = 256 /\ Power(9) = 512 /\ Power(10) = 1024
  BY SMT DEF Power
<1>2. /\ Power(11) = 2048 /\ Power(12) = 4096 /\ Power(13) = 8192
      /\ Power(14) = 16384 /\ Power(15) = 32768 /\ Power(16) = 65536
      /\ Power(17) = 131072 /\ Power(18) = 262144 /\ Power(19) = 524288
      /\ Power(20) = 1048576 /\ Power(21) = 2097152 /\ Power(22) = 4194304
      /\ Power(23) = 8388608 /\ Power(24) = 16777216 /\ Power(25) = 33554432
      /\ Power(26) = 67108864 /\ Power(27) = 134217728 /\ Power(28) = 268435456
      /\ Power(29) = 536870912 /\ Power(30) = 1073741824 /\ Power(31) = 2147483648
  BY SMT DEF Power
<1>3. ASSUME NEW i \in 0 .. 5 PROVE Power(i + 1) \in 0 .. 64
  <2>1. i + 1 = 1 \/ i + 1 = 2 \/ i + 1 = 3 \/ i + 1 = 4 \/ i + 1 = 5 \/ i + 1 = 6
    OBVIOUS
  <2> QED BY <1>1, <2>1
<1>4. ASSUME NEW i \in 10 .. 31 PROVE Power(i) \in Nat /\ Power(i) >= 1024
  <2>1. \/ i = 10 \/ i = 11 \/ i = 12 \/ i = 13 \/ i = 14 \/ i = 15 \/ i = 16 \/ i = 17
        \/ i = 18 \/ i = 19 \/ i = 20 \/ i = 21 \/ i = 22 \/ i = 23 \/ i = 24 \/ i = 25
        \/ i = 26 \/ i = 27 \/ i = 28 \/ i = 29 \/ i = 30 \/ i = 31
    OBVIOUS
  <2> QED BY <1>1, <1>2, <2>1
<1> QED BY <1>1, <1>3, <1>4

LEMMA SearchFacts ==
  ASSUME NEW n \in Nat, 64 <= n, n < 896
  PROVE  SearchReverse(n) = IF n < 128 THEN 6 ELSE IF n < 256 THEN 7 ELSE IF n < 512 THEN 8 ELSE 9
<1> DEFINE h == IF n < 128 THEN 6 ELSE IF n < 256 THEN 7 ELSE IF n < 512 THEN 8 ELSE 9
           Highest(i) == Power(i) <= n /\ n < Power(i + 1)
<1>1. /\ Highest(6) <=> 64 <= n /\ n < 128
      /\ Highest(7) <=> 128 <= n /\ n < 256
      /\ Highest(8) <=> 256 <= n /\ n < 512
      /\ Highest(9) <=> 512 <= n /\ n < 1024
  BY Powers
<1>2. \A i \in 0 .. 5 : ~ Highest(i)
  BY Powers
<1>3. \A i \in 10 .. 31 : ~ Highest(i)
  BY Powers
<1>4. SearchReverse(n) = CHOOSE i \in 0 .. 31 : Highest(i)
  BY DEF SearchReverse, Power
<1> HIDE DEF Highest
<1>5. h \in 0 .. 31 /\ Highest(h)
  BY <1>1
<1>6. ASSUME NEW i \in 0 .. 31, Highest(i) PROVE i = h
  <2>1. i = 6 \/ i = 7 \/ i = 8 \/ i = 9
    BY <1>2, <1>3, <1>6
  <2> QED BY <1>1, <1>6, <2>1
<1> HIDE DEF h
<1>7. SearchReverse(n) = h
  BY <1>4, <1>5, <1>6
<1> QED BY <1>7 DEF h

(* A request rounded up to a multiple of o + 1.                            *)
Up(s, o) == ((s + o) \div (o + 1)) * (o + 1)

LEMMA SegregatedAt ==
  ASSUME NEW s, NEW h, SearchReverse(s - 1) = h
  PROVE  SegregatedInfo(s) =
           AllocationInfo(Up(s, Offset(h)), (s - 1) \div Power(h - 2) + 4 * (h - 5) + 3)
BY Zenon DEF SegregatedInfo, Up, Power

LEMMA SegregatedFacts ==
  ASSUME NEW s \in Nat, 64 < s, s <= 896
  PROVE  SegregatedInfo(s) =
           IF s <= 128 THEN AllocationInfo(Up(s, 15), (s - 1) \div 16 + 4 + 3)
           ELSE IF s <= 256 THEN AllocationInfo(Up(s, 31), (s - 1) \div 32 + 8 + 3)
           ELSE IF s <= 512 THEN AllocationInfo(Up(s, 63), (s - 1) \div 64 + 12 + 3)
           ELSE AllocationInfo(Up(s, 127), (s - 1) \div 128 + 16 + 3)
<1>1. s - 1 \in Nat /\ 64 <= s - 1 /\ s - 1 < 896
  OBVIOUS
<1>2. /\ 2 ^ 0 = 1 /\ 2 ^ 1 = 2 /\ 2 ^ 2 = 4 /\ 2 ^ 3 = 8 /\ 2 ^ 4 = 16 /\ 2 ^ 5 = 32
      /\ 2 ^ 6 = 64 /\ 2 ^ 7 = 128
  BY SMT
<1>3. CASE s <= 128
  <2>1. SearchReverse(s - 1) = 6
    BY <1>1, <1>3, SearchFacts
  <2>2. 9 - 6 = 3 /\ 6 - 2 = 4 /\ 127 \div 8 = 15
    OBVIOUS
  <2>3. Offset(6) = 15
    BY <1>2, <2>2 DEF Offset
  <2>4. Power(6 - 2) = 16
    BY <1>2, <2>2 DEF Power
  <2>5. 4 * (6 - 5) = 4
    OBVIOUS
  <2>6. SegregatedInfo(s) =
          AllocationInfo(Up(s, Offset(6)), (s - 1) \div Power(6 - 2) + 4 * (6 - 5) + 3)
    BY ONLY <2>1, SegregatedAt, Zenon
  <2>7. SegregatedInfo(s) = AllocationInfo(Up(s, 15), (s - 1) \div 16 + 4 + 3)
    BY ONLY <2>3, <2>4, <2>5, <2>6, Zenon
  <2> QED BY <1>3, <2>7
<1>4. CASE s > 128 /\ s <= 256
  <2>1. SearchReverse(s - 1) = 7
    BY <1>1, <1>4, SearchFacts
  <2>2. 9 - 7 = 2 /\ 7 - 2 = 5 /\ 127 \div 4 = 31
    OBVIOUS
  <2>3. Offset(7) = 31
    BY <1>2, <2>2 DEF Offset
  <2>4. Power(7 - 2) = 32
    BY <1>2, <2>2 DEF Power
  <2>5. 4 * (7 - 5) = 8
    OBVIOUS
  <2>6. SegregatedInfo(s) =
          AllocationInfo(Up(s, Offset(7)), (s - 1) \div Power(7 - 2) + 4 * (7 - 5) + 3)
    BY ONLY <2>1, SegregatedAt, Zenon
  <2>7. SegregatedInfo(s) = AllocationInfo(Up(s, 31), (s - 1) \div 32 + 8 + 3)
    BY ONLY <2>3, <2>4, <2>5, <2>6, Zenon
  <2> QED BY <1>4, <2>7
<1>5. CASE s > 256 /\ s <= 512
  <2>1. SearchReverse(s - 1) = 8
    BY <1>1, <1>5, SearchFacts
  <2>2. 9 - 8 = 1 /\ 8 - 2 = 6 /\ 127 \div 2 = 63
    OBVIOUS
  <2>3. Offset(8) = 63
    BY <1>2, <2>2 DEF Offset
  <2>4. Power(8 - 2) = 64
    BY <1>2, <2>2 DEF Power
  <2>5. 4 * (8 - 5) = 12
    OBVIOUS
  <2>6. SegregatedInfo(s) =
          AllocationInfo(Up(s, Offset(8)), (s - 1) \div Power(8 - 2) + 4 * (8 - 5) + 3)
    BY ONLY <2>1, SegregatedAt, Zenon
  <2>7. SegregatedInfo(s) = AllocationInfo(Up(s, 63), (s - 1) \div 64 + 12 + 3)
    BY ONLY <2>3, <2>4, <2>5, <2>6, Zenon
  <2> QED BY <1>5, <2>7
<1>6. CASE s > 512
  <2>1. SearchReverse(s - 1) = 9
    BY <1>1, <1>6, SearchFacts
  <2>2. 9 - 9 = 0 /\ 9 - 2 = 7 /\ 127 \div 1 = 127
    OBVIOUS
  <2>3. Offset(9) = 127
    BY <1>2, <2>2 DEF Offset
  <2>4. Power(9 - 2) = 128
    BY <1>2, <2>2 DEF Power
  <2>5. 4 * (9 - 5) = 16
    OBVIOUS
  <2>6. SegregatedInfo(s) =
          AllocationInfo(Up(s, Offset(9)), (s - 1) \div Power(9 - 2) + 4 * (9 - 5) + 3)
    BY ONLY <2>1, SegregatedAt, Zenon
  <2>7. SegregatedInfo(s) = AllocationInfo(Up(s, 127), (s - 1) \div 128 + 16 + 3)
    BY ONLY <2>3, <2>4, <2>5, <2>6, Zenon
  <2> QED BY <1>6, <2>7
<1> QED BY <1>3, <1>4, <1>5, <1>6

LEMMA ThreeBefore ==
  ASSUME NEW S, NEW t \in Seq(S), NEW u \in Seq(S), Len(t) = 3, Len(u) = 7
  PROVE  /\ (t \o u)[4] = u[1] /\ (t \o u)[5] = u[2] /\ (t \o u)[6] = u[3]
         /\ (t \o u)[7] = u[4] /\ (t \o u)[8] = u[5] /\ (t \o u)[9] = u[6]
<1> DEFINE f == t \o u
<1>1. \A k \in Len(t) + 1 .. Len(t) + Len(u) : f[k] = u[k - Len(t)]
  BY ConcatFacts, Zenon
<1> HIDE DEF f
<1>2. ASSUME NEW k \in 4 .. 9 PROVE f[k] = u[k - 3]
  <2>1. k \in Len(t) + 1 .. Len(t) + Len(u) /\ k - Len(t) = k - 3
    OBVIOUS
  <2> QED BY <1>1, <2>1
<1>3. f[4] = u[4 - 3] /\ f[5] = u[5 - 3] /\ f[6] = u[6 - 3]
  BY <1>2
<1>4. f[7] = u[7 - 3] /\ f[8] = u[8 - 3] /\ f[9] = u[9 - 3]
  BY <1>2
<1>5. /\ f[4] = u[1] /\ f[5] = u[2] /\ f[6] = u[3]
      /\ f[7] = u[4] /\ f[8] = u[5] /\ f[9] = u[6]
  BY ONLY <1>3, <1>4
<1> QED BY <1>5 DEF f

(* The entries of a table from the fourth to the ninth, the third twice.   *)
FromFourth(table, a, b, c, d, e) ==
  /\ table[4] = a /\ table[5] = b /\ table[6] = c
  /\ table[7] = c /\ table[8] = d /\ table[9] = e

LEMMA AfterThree ==
  ASSUME NEW n, NEW a, NEW b, NEW c, NEW d, NEW e
  PROVE  FromFourth(Entries(3, n) \o <<a, b, c, c, d, e, e>>, a, b, c, d, e)
<1> DEFINE S == {n, a, b, c, d, e}
           t == Entries(3, n)
           u == <<a, b, c, c, d, e, e>>
<1>1. t \in Seq(S) /\ Len(t) = 3
  BY DEF Entries
<1>2. u \in Seq(S) /\ Len(u) = 7
  OBVIOUS
<1>3. u[1] = a /\ u[2] = b /\ u[3] = c /\ u[4] = c /\ u[5] = d /\ u[6] = e
  OBVIOUS
<1> HIDE DEF S, t, u
<1>4. /\ (t \o u)[4] = u[1] /\ (t \o u)[5] = u[2] /\ (t \o u)[6] = u[3]
      /\ (t \o u)[7] = u[4] /\ (t \o u)[8] = u[5] /\ (t \o u)[9] = u[6]
  BY ONLY <1>1, <1>2, ThreeBefore, Zenon
<1>5. /\ (t \o u)[4] = a /\ (t \o u)[5] = b /\ (t \o u)[6] = c
      /\ (t \o u)[7] = c /\ (t \o u)[8] = d /\ (t \o u)[9] = e
  BY ONLY <1>3, <1>4, Zenon
<1> QED BY <1>5, Zenon DEF t, u, FromFourth

LEMMA MediumTable ==
  /\ SmallAllocTable2[4] = AllocationInfo(1152, 26)
  /\ SmallAllocTable2[5] = AllocationInfo(1472, 27)
  /\ SmallAllocTable2[6] = AllocationInfo(1792, 28)
  /\ SmallAllocTable2[7] = AllocationInfo(1792, 28)
  /\ SmallAllocTable2[8] = AllocationInfo(2304, 29)
  /\ SmallAllocTable2[9] = AllocationInfo(2688, 30)
<1> DEFINE n == AllocationInfo(0, 0)
           a == Segregated(1152, 0)
           b == Segregated(1472, 1)
           c == Segregated(1792, 2)
           d == Segregated(2304, 3)
           e == Segregated(2688, 4)
<1>1. SmallAllocTable2 = Entries(3, n) \o <<a, b, c, c, d, e, e>>
  BY ONLY SMTT(60) DEF SmallAllocTable2, n, a, b, c, d, e
<1> HIDE DEF n, a, b, c, d, e
<1>2. FromFourth(SmallAllocTable2, a, b, c, d, e)
  BY ONLY <1>1, AfterThree, Zenon
<1>3. /\ a = AllocationInfo(1152, 26) /\ b = AllocationInfo(1472, 27)
      /\ c = AllocationInfo(1792, 28) /\ d = AllocationInfo(2304, 29)
      /\ e = AllocationInfo(2688, 30)
  BY DEF a, b, c, d, e, Segregated, AllocationInfo, AFTER_SEGREGATED_START_BIN
<1> QED BY ONLY <1>2, <1>3 DEF FromFourth

(* The medium table, by the first request of each entry.                   *)
LEMMA MediumFacts ==
  ASSUME NEW s \in Nat, 960 <= s, s <= 2688
  PROVE  MediumInfo(s) =
           IF s < 1280 THEN AllocationInfo(1152, 26)
           ELSE IF s < 1600 THEN AllocationInfo(1472, 27)
           ELSE IF s < 2240 THEN AllocationInfo(1792, 28)
           ELSE IF s < 2560 THEN AllocationInfo(2304, 29)
           ELSE AllocationInfo(2688, 30)
<1>2. CASE s < 1280
  <2>1. s \div 320 + 1 = 4
    BY <1>2
  <2> QED BY MediumTable, <1>2, <2>1 DEF MediumInfo
<1>3. CASE s >= 1280 /\ s < 1600
  <2>1. s \div 320 + 1 = 5
    BY <1>3
  <2> QED BY MediumTable, <1>3, <2>1 DEF MediumInfo
<1>4. CASE s >= 1600 /\ s < 2240
  <2>1. s \div 320 + 1 \in {6, 7}
    BY <1>4
  <2> QED BY MediumTable, <1>4, <2>1 DEF MediumInfo
<1>5. CASE s >= 2240 /\ s < 2560
  <2>1. s \div 320 + 1 = 8
    BY <1>5
  <2> QED BY MediumTable, <1>5, <2>1 DEF MediumInfo
<1>6. CASE s >= 2560
  <2>1. s \div 320 + 1 = 9
    BY <1>6
  <2> QED BY MediumTable, <1>6, <2>1 DEF MediumInfo
<1> QED BY <1>2, <1>3, <1>4, <1>5, <1>6

-----------------------------------------------------------------------------
(* Which function serves a size.                                           *)

LEMMA Limits ==
  /\ MAX_TINY_SIZE = 64 /\ MAX_SEGREGATED_SIZE = 896 /\ MAX_SMALL_SIZE = 2688
  /\ MAX_LARGE_SIZE = 8128 /\ MAX_HUGE_SIZE = 1048512
BY DEF MAX_TINY_SIZE, MAX_SEGREGATED_SIZE, MAX_SMALL_SIZE, MAX_LARGE_SIZE, MAX_HUGE_SIZE

LEMMA KindFacts ==
  ASSUME NEW s \in Nat
  PROVE  /\ s <= 2688 => Kind(s) = "small"
         /\ 2688 < s /\ s <= 8128 => Kind(s) = "large"
         /\ 8128 < s /\ s <= 1048512 => Kind(s) = "huge"
         /\ 1048512 < s => Kind(s) = "os"
<1> DEFINE small == s <= MAX_SMALL_SIZE
           large == s \in MAX_SMALL_SIZE + 1 .. MAX_LARGE_SIZE
           huge == s \in MAX_LARGE_SIZE + 1 .. MAX_HUGE_SIZE
<1>1. Kind(s) = CASE small -> "small" [] large -> "large" [] huge -> "huge" [] OTHER -> "os"
  BY ONLY Zenon DEF Kind
<1>2. /\ small <=> s <= 2688
      /\ large <=> 2688 < s /\ s <= 8128
      /\ huge <=> 8128 < s /\ s <= 1048512
  <2>1. MAX_SMALL_SIZE \in Nat /\ MAX_LARGE_SIZE \in Nat /\ MAX_HUGE_SIZE \in Nat
    BY Limits
  <2>2. /\ large <=> MAX_SMALL_SIZE < s /\ s <= MAX_LARGE_SIZE
        /\ huge <=> MAX_LARGE_SIZE < s /\ s <= MAX_HUGE_SIZE
    BY ONLY <2>1, s \in Nat
  <2> HIDE DEF large, huge
  <2> QED BY <2>2, Limits
<1> HIDE DEF small, large, huge
<1>3. (small => ~ large /\ ~ huge) /\ (large => ~ huge)
  BY <1>2
<1>4. /\ small => Kind(s) = "small"
      /\ large => Kind(s) = "large"
      /\ huge => Kind(s) = "huge"
      /\ ~ small /\ ~ large /\ ~ huge => Kind(s) = "os"
  BY ONLY <1>1, <1>3, Zenon
<1> QED BY <1>2, <1>4

LEMMA SmallFacts ==
  ASSUME NEW s \in Nat, s <= 2688
  PROVE  /\ s <= 64 => Info(s) = TinyInfo(s)
         /\ 64 < s /\ s <= 896 => Info(s) = SegregatedInfo(s)
         /\ s > 896 => Info(s) = MediumInfo(s)
<1> DEFINE tiny == s <= MAX_TINY_SIZE
           segregated == s \in MAX_TINY_SIZE + 1 .. MAX_SEGREGATED_SIZE
           info == GetAllocationInfoSmall(s)
<1>1. info = CASE tiny -> TinyInfo(s) [] segregated -> SegregatedInfo(s) [] OTHER -> MediumInfo(s)
  BY ONLY Zenon DEF GetAllocationInfoSmall
<1>2. Info(s) = info
  <2>1. Kind(s) = "small"
    BY KindFacts
  <2> QED BY ONLY <2>1, Zenon DEF Info
<1>3. (tiny <=> s <= 64) /\ (segregated <=> 64 < s /\ s <= 896)
  BY Limits
<1> HIDE DEF tiny, segregated, info
<1>4. tiny => ~ segregated
  BY <1>3
<1>5. /\ tiny => info = TinyInfo(s)
      /\ segregated => info = SegregatedInfo(s)
      /\ ~ tiny /\ ~ segregated => info = MediumInfo(s)
  BY ONLY <1>1, <1>4, Zenon
<1> QED BY <1>2, <1>3, <1>5

LEMMA LargeFacts ==
  ASSUME NEW s \in Nat, 2688 < s, s <= 8128
  PROVE  Info(s) = IF s <= 3200 THEN AllocationInfo(3200, 0)
                   ELSE IF s <= 4048 THEN AllocationInfo(4048, 1)
                   ELSE IF s <= 5397 THEN AllocationInfo(5397, 2)
                   ELSE AllocationInfo(8096, 3)
<1> DEFINE c1 == s <= 3200
           c2 == s \in 3201 .. 4048
           c3 == s \in 4049 .. 5397
           i1 == AllocationInfo(3200, 0)
           i2 == AllocationInfo(4048, 1)
           i3 == AllocationInfo(5397, 2)
           i4 == AllocationInfo(8096, 3)
           info == GetAllocationInfoLarge(s)
<1>1. info = CASE c1 -> i1 [] c2 -> i2 [] c3 -> i3 [] OTHER -> i4
  BY ONLY SMT DEF GetAllocationInfoLarge
<1>2. Info(s) = info
  <2>1. Kind(s) = "large" /\ Kind(s) # "small"
    BY KindFacts
  <2> QED BY ONLY <2>1, Zenon DEF Info
<1>3. /\ c1 <=> s <= 3200
      /\ c1 => ~ c2 /\ ~ c3
      /\ c2 => ~ c3
      /\ ~ c1 => (c2 <=> s <= 4048)
      /\ ~ c1 /\ ~ c2 => (c3 <=> s <= 5397)
  OBVIOUS
<1> HIDE DEF i1, i2, i3, i4, info
<1>4. info = IF s <= 3200 THEN i1 ELSE IF s <= 4048 THEN i2 ELSE IF s <= 5397 THEN i3 ELSE i4
  <2> HIDE DEF c1, c2, c3
  <2>1. /\ c1 => info = i1
        /\ c2 => info = i2
        /\ c3 => info = i3
        /\ ~ c1 /\ ~ c2 /\ ~ c3 => info = i4
    <3>1. /\ c1 => ~ c2 /\ ~ c3
          /\ c2 => ~ c3
      BY <1>3
    <3> QED BY ONLY <1>1, <3>1, Zenon
  <2> QED BY ONLY <1>3, <2>1
<1> QED BY <1>2, <1>4 DEF i1, i2, i3, i4

(* A huge location has its header in front, in whole pages.                 *)
LEMMA HugeFacts ==
  ASSUME NEW s \in Nat, 8128 < s, s <= 1048512
  PROVE  /\ Info(s) = AllocationInfo(HugePages(s) * 4096 - 64, HugePages(s))
         /\ HugePages(s) = (s + 4159) \div 4096
<1>1. Info(s) = GetAllocationInfoHuge(s)
  <2>1. Kind(s) = "huge" /\ Kind(s) # "small" /\ Kind(s) # "large"
    BY KindFacts
  <2> QED BY ONLY <2>1, Zenon DEF Info
<1>2. HUGE_HEADER_SIZE = 64 /\ HUGE_GRANULARITY = 4096
  BY DEF HUGE_HEADER_SIZE, HUGE_GRANULARITY
<1>3. HugePages(s) = (s + 4159) \div 4096
  BY <1>2 DEF HugePages
<1>4. GetAllocationInfoHuge(s) = AllocationInfo(HugePages(s) * 4096 - 64, HugePages(s))
  BY ONLY <1>2 DEF GetAllocationInfoHuge
<1> QED BY <1>1, <1>3, <1>4

(* The system's own locations have the size asked for.                     *)
LEMMA OSFacts ==
  ASSUME NEW s \in Nat, 1048512 < s
  PROVE  Info(s) = AllocationInfo(s, 0)
<1>1. Kind(s) = "os" /\ Kind(s) # "small" /\ Kind(s) # "large" /\ Kind(s) # "huge"
  BY KindFacts
<1> QED BY ONLY <1>1, Zenon DEF Info

LEMMA BinsFacts ==
  /\ Bins("small") = 0 .. 30 /\ Bins("large") = 0 .. 3
  /\ Bins("huge") = 3 .. 254 /\ Bins("os") = {0}
<1>1. /\ Bins("small") = 0 .. SMALL_BINS - 1
      /\ Bins("large") = 0 .. LARGE_BINS - 1
      /\ Bins("huge") = HUGE_START .. HUGE_BINS - 1
      /\ Bins("os") = {0}
  BY ONLY Zenon DEF Bins
<1>2. SMALL_BINS - 1 = 30 /\ LARGE_BINS - 1 = 3 /\ HUGE_START = 3 /\ HUGE_BINS - 1 = 254
  BY DEF SMALL_BINS, LARGE_BINS, HUGE_START, HUGE_BINS
<1> QED BY ONLY <1>1, <1>2

LEMMA EntryFacts ==
  ASSUME NEW table, NEW m \in Nat, NEW s, NEW b \in Nat, SortedTable(table, m, s, b),
         NEW k \in 1 .. m
  PROVE  /\ table[k].Size \in Nat /\ table[k].Bin \in Nat
         /\ table[k].Size >= k - 1 /\ table[k].Size >= 8 /\ table[k].Bin <= b
         /\ k # m => /\ table[k].Size <= table[k + 1].Size /\ table[k].Bin <= table[k + 1].Bin
                     /\ table[k].Bin = table[k + 1].Bin <=> table[k].Size = table[k + 1].Size
<1> DEFINE S == [Size : Nat, Bin : Nat]
<1>1. table \in Seq(S) /\ Len(table) = m
  BY DEF SortedTable
<1>2. ASSUME NEW x \in S PROVE x.Size \in Nat /\ x.Bin \in Nat
  OBVIOUS
<1> HIDE DEF S
<1>3. table[k].Size \in Nat /\ table[k].Bin \in Nat
  BY <1>1, <1>2
<1>4. k # m => k \in 1 .. m - 1
  OBVIOUS
<1>5. table[k].Size >= k - 1 /\ table[k].Size >= 8 /\ table[k].Bin \in 0 .. b
  BY DEF SortedTable
<1>6. k # m => /\ table[k].Size <= table[k + 1].Size /\ table[k].Bin <= table[k + 1].Bin
               /\ table[k].Bin = table[k + 1].Bin <=> table[k].Size = table[k + 1].Size
  BY <1>4 DEF SortedTable
<1> QED BY <1>3, <1>5, <1>6

LEMMA TinyFacts ==
  ASSUME NEW s \in Nat, s <= 64
  PROVE  /\ TinyInfo(s).Size \in Nat /\ TinyInfo(s).Bin \in Nat
         /\ TinyInfo(s).Size >= s /\ TinyInfo(s).Size >= 8 /\ TinyInfo(s).Bin <= 9
         /\ s < 64 =>
              /\ TinyInfo(s).Size <= TinyInfo(s + 1).Size /\ TinyInfo(s).Bin <= TinyInfo(s + 1).Bin
              /\ TinyInfo(s).Bin = TinyInfo(s + 1).Bin <=> TinyInfo(s).Size = TinyInfo(s + 1).Size
<1> DEFINE m == 65
           z == 64
           b == 9
           k == s + 1
<1>1. SortedTable(SmallAllocTable, m, z, b)
  BY SmallTable
<1>2. /\ m \in Nat /\ b \in Nat /\ k \in 1 .. m /\ k \in Nat
      /\ k - 1 = s /\ b = 9 /\ (s < 64 => k # m)
  OBVIOUS
<1>3. TinyInfo(s) = SmallAllocTable[k] /\ TinyInfo(s + 1) = SmallAllocTable[k + 1]
  BY DEF TinyInfo
<1> HIDE DEF m, z, b, k
<1>4. /\ SmallAllocTable[k].Size \in Nat /\ SmallAllocTable[k].Bin \in Nat
      /\ SmallAllocTable[k].Size >= k - 1 /\ SmallAllocTable[k].Size >= 8
      /\ SmallAllocTable[k].Bin <= b
      /\ k # m =>
           /\ SmallAllocTable[k].Size <= SmallAllocTable[k + 1].Size
           /\ SmallAllocTable[k].Bin <= SmallAllocTable[k + 1].Bin
           /\ SmallAllocTable[k].Bin = SmallAllocTable[k + 1].Bin
                <=> SmallAllocTable[k].Size = SmallAllocTable[k + 1].Size
  BY ONLY <1>1, <1>2, EntryFacts
<1> QED BY ONLY <1>2, <1>3, <1>4

LEMMA SizesFit ==
  ASSUME NEW s \in Nat, s \notin NoLocation, s \notin TooSmall, s \notin NoBin
  PROVE  Info(s).Size >= s /\ Info(s).Bin \in Bins(Kind(s))
<1>0. \A r, b : AllocationInfo(r, b).Size = r /\ AllocationInfo(r, b).Bin = b
  BY DEF AllocationInfo
<1>1. CASE s <= 64
  <2>1. Info(s) = TinyInfo(s) /\ Kind(s) = "small"
    BY <1>1, SmallFacts, KindFacts
  <2>2. TinyInfo(s).Bin \in 0 .. 30
    <3>1. TinyInfo(s).Bin \in Nat /\ TinyInfo(s).Bin <= 9
      BY <1>1, TinyFacts
    <3> QED BY ONLY <3>1
  <2> QED BY <1>1, <2>1, <2>2, TinyFacts, BinsFacts
<1>2. CASE 64 < s /\ s <= 896
  <2>1. Info(s) = SegregatedInfo(s) /\ Kind(s) = "small"
    BY <1>2, SmallFacts, KindFacts
  <2>2. /\ s <= 128 => Up(s, 15) >= s /\ (s - 1) \div 16 + 4 + 3 \in 0 .. 30
        /\ s <= 256 => Up(s, 31) >= s /\ (s - 1) \div 32 + 8 + 3 \in 0 .. 30
        /\ s <= 512 => Up(s, 63) >= s /\ (s - 1) \div 64 + 12 + 3 \in 0 .. 30
        /\ Up(s, 127) >= s /\ (s - 1) \div 128 + 16 + 3 \in 0 .. 30
    BY <1>2 DEF Up
  <2>3. SegregatedInfo(s).Size >= s /\ SegregatedInfo(s).Bin \in 0 .. 30
    <3>1. CASE s <= 128
      BY <1>2, <2>2, <3>1, SegregatedFacts DEF AllocationInfo
    <3>2. CASE 128 < s /\ s <= 256
      BY <1>2, <2>2, <3>2, SegregatedFacts DEF AllocationInfo
    <3>3. CASE 256 < s /\ s <= 512
      BY <1>2, <2>2, <3>3, SegregatedFacts DEF AllocationInfo
    <3>4. CASE 512 < s
      BY <1>2, <2>2, <3>4, SegregatedFacts DEF AllocationInfo
    <3> QED BY <3>1, <3>2, <3>3, <3>4
  <2> QED BY <2>1, <2>3, BinsFacts
<1>3. CASE 896 < s /\ s <= 2688
  <2>1. Info(s) = MediumInfo(s) /\ Kind(s) = "small"
    BY <1>3, SmallFacts, KindFacts
  <2>2. /\ 960 <= s
        /\ s < 1280 => s <= 1152
        /\ s >= 1280 /\ s < 1600 => s <= 1472
        /\ s >= 1600 /\ s < 2240 => s <= 1792
        /\ s >= 2240 /\ s < 2560 => s <= 2304
    BY <1>3 DEF NoLocation, TooSmall
  <2>3. MediumInfo(s).Size >= s /\ MediumInfo(s).Bin \in 0 .. 30
    BY <1>3, <2>2, MediumFacts DEF AllocationInfo
  <2> QED BY <2>1, <2>3, BinsFacts
<1>4. CASE 2688 < s /\ s <= 8128
  <2>1. Kind(s) = "large" /\ s <= 8096
    BY <1>4, KindFacts DEF TooSmall
  <2>2. Info(s).Size >= s /\ Info(s).Bin \in 0 .. 3
    BY <1>0, <1>4, <2>1, LargeFacts
  <2> QED BY <2>1, <2>2, BinsFacts
<1>5. CASE 8128 < s /\ s <= 1048512
  <2>1. Kind(s) = "huge" /\ s <= 1040320
    BY <1>5, KindFacts DEF NoBin
  <2>2. PICK h \in Nat : /\ h = (s + 4159) \div 4096
                         /\ h * 4096 <= s + 4159 /\ s + 4159 < h * 4096 + 4096
    OBVIOUS
  <2>3. Info(s) = AllocationInfo(h * 4096 - 64, h)
    BY <1>5, <2>2, HugeFacts
  <2>4. h * 4096 - 64 >= s /\ h \in 3 .. 254
    BY <1>5, <2>1, <2>2
  <2> QED BY <1>0, <2>1, <2>3, <2>4, BinsFacts
<1>6. CASE 1048512 < s
  <2>1. Kind(s) = "os" /\ Info(s) = AllocationInfo(s, 0)
    BY <1>6, KindFacts, OSFacts
  <2> QED BY <1>0, <2>1, BinsFacts
<1> QED BY <1>1, <1>2, <1>3, <1>4, <1>5, <1>6

-----------------------------------------------------------------------------
(* Neighbours.                                                             *)

(* Sizes and bins grow together.                                           *)
Ordered(now, next) ==
  /\ next.Size >= now.Size
  /\ next.Bin >= now.Bin
  /\ next.Bin = now.Bin <=> next.Size = now.Size

LEMMA SegregatedOrdered ==
  ASSUME NEW s \in Nat, 64 < s, s < 896
  PROVE  Ordered(SegregatedInfo(s), SegregatedInfo(s + 1))
<1>1. CASE 64 < s /\ s < 128
  <2>1. /\ SegregatedInfo(s) = AllocationInfo(Up(s, 15), (s - 1) \div 16 + 4 + 3)
        /\ SegregatedInfo(s + 1) = AllocationInfo(Up(s + 1, 15), (s + 1 - 1) \div 16 + 4 + 3)
    BY <1>1, SegregatedFacts
  <2>2. PICK q \in Nat : q = (s - 1) \div 16 /\ q * 16 <= s - 1 /\ s - 1 < q * 16 + 16
    BY <1>1
  <2>3. Up(s, 15) = (q + 1) * 16
    BY <2>2 DEF Up
  <2>4. CASE s < (q + 1) * 16
    <3>1. (s + 1 - 1) \div 16 = q /\ Up(s + 1, 15) = (q + 1) * 16
      BY <2>2, <2>4 DEF Up
    <3> QED BY <2>1, <2>2, <2>3, <3>1 DEF Ordered, AllocationInfo
  <2>5. CASE s = (q + 1) * 16
    <3>1. (s + 1 - 1) \div 16 = q + 1 /\ Up(s + 1, 15) = (q + 2) * 16
      BY <2>2, <2>5 DEF Up
    <3> QED BY <2>1, <2>2, <2>3, <3>1 DEF Ordered, AllocationInfo
  <2> QED BY <2>2, <2>4, <2>5
<1>2. CASE s = 128
  <2>1. /\ SegregatedInfo(s) = AllocationInfo(128, 14)
        /\ SegregatedInfo(s + 1) = AllocationInfo(160, 15)
    BY <1>2, SegregatedFacts DEF Up
  <2> QED BY <2>1 DEF Ordered, AllocationInfo
<1>3. CASE 128 < s /\ s < 256
  <2>1. /\ SegregatedInfo(s) = AllocationInfo(Up(s, 31), (s - 1) \div 32 + 8 + 3)
        /\ SegregatedInfo(s + 1) = AllocationInfo(Up(s + 1, 31), (s + 1 - 1) \div 32 + 8 + 3)
    BY <1>3, SegregatedFacts
  <2>2. PICK q \in Nat : q = (s - 1) \div 32 /\ q * 32 <= s - 1 /\ s - 1 < q * 32 + 32
    BY <1>3
  <2>3. Up(s, 31) = (q + 1) * 32
    BY <2>2 DEF Up
  <2>4. CASE s < (q + 1) * 32
    <3>1. (s + 1 - 1) \div 32 = q /\ Up(s + 1, 31) = (q + 1) * 32
      BY <2>2, <2>4 DEF Up
    <3> QED BY <2>1, <2>2, <2>3, <3>1 DEF Ordered, AllocationInfo
  <2>5. CASE s = (q + 1) * 32
    <3>1. (s + 1 - 1) \div 32 = q + 1 /\ Up(s + 1, 31) = (q + 2) * 32
      BY <2>2, <2>5 DEF Up
    <3> QED BY <2>1, <2>2, <2>3, <3>1 DEF Ordered, AllocationInfo
  <2> QED BY <2>2, <2>4, <2>5
<1>4. CASE s = 256
  <2>1. /\ SegregatedInfo(s) = AllocationInfo(256, 18)
        /\ SegregatedInfo(s + 1) = AllocationInfo(320, 19)
    BY <1>4, SegregatedFacts DEF Up
  <2> QED BY <2>1 DEF Ordered, AllocationInfo
<1>5. CASE 256 < s /\ s < 512
  <2>1. /\ SegregatedInfo(s) = AllocationInfo(Up(s, 63), (s - 1) \div 64 + 12 + 3)
        /\ SegregatedInfo(s + 1) = AllocationInfo(Up(s + 1, 63), (s + 1 - 1) \div 64 + 12 + 3)
    BY <1>5, SegregatedFacts
  <2>2. PICK q \in Nat : q = (s - 1) \div 64 /\ q * 64 <= s - 1 /\ s - 1 < q * 64 + 64
    BY <1>5
  <2>3. Up(s, 63) = (q + 1) * 64
    BY <2>2 DEF Up
  <2>4. CASE s < (q + 1) * 64
    <3>1. (s + 1 - 1) \div 64 = q /\ Up(s + 1, 63) = (q + 1) * 64
      BY <2>2, <2>4 DEF Up
    <3> QED BY <2>1, <2>2, <2>3, <3>1 DEF Ordered, AllocationInfo
  <2>5. CASE s = (q + 1) * 64
    <3>1. (s + 1 - 1) \div 64 = q + 1 /\ Up(s + 1, 63) = (q + 2) * 64
      BY <2>2, <2>5 DEF Up
    <3> QED BY <2>1, <2>2, <2>3, <3>1 DEF Ordered, AllocationInfo
  <2> QED BY <2>2, <2>4, <2>5
<1>6. CASE s = 512
  <2>1. /\ SegregatedInfo(s) = AllocationInfo(512, 22)
        /\ SegregatedInfo(s + 1) = AllocationInfo(640, 23)
    BY <1>6, SegregatedFacts DEF Up
  <2> QED BY <2>1 DEF Ordered, AllocationInfo
<1>7. CASE 512 < s /\ s < 896
  <2>1. /\ SegregatedInfo(s) = AllocationInfo(Up(s, 127), (s - 1) \div 128 + 16 + 3)
        /\ SegregatedInfo(s + 1) = AllocationInfo(Up(s + 1, 127), (s + 1 - 1) \div 128 + 16 + 3)
    BY <1>7, SegregatedFacts
  <2>2. PICK q \in Nat : q = (s - 1) \div 128 /\ q * 128 <= s - 1 /\ s - 1 < q * 128 + 128
    BY <1>7
  <2>3. Up(s, 127) = (q + 1) * 128
    BY <2>2 DEF Up
  <2>4. CASE s < (q + 1) * 128
    <3>1. (s + 1 - 1) \div 128 = q /\ Up(s + 1, 127) = (q + 1) * 128
      BY <2>2, <2>4 DEF Up
    <3> QED BY <2>1, <2>2, <2>3, <3>1 DEF Ordered, AllocationInfo
  <2>5. CASE s = (q + 1) * 128
    <3>1. (s + 1 - 1) \div 128 = q + 1 /\ Up(s + 1, 127) = (q + 2) * 128
      BY <2>2, <2>5 DEF Up
    <3> QED BY <2>1, <2>2, <2>3, <3>1 DEF Ordered, AllocationInfo
  <2> QED BY <2>2, <2>4, <2>5
<1> QED BY <1>1, <1>2, <1>3, <1>4, <1>5, <1>6, <1>7

LEMMA InfoOrdered ==
  ASSUME NEW s \in Nat, s \notin NoLocation, s + 1 \notin NoLocation,
         Kind(s + 1) = Kind(s), Kind(s) # "os"
  PROVE  Ordered(Info(s), Info(s + 1))
<1>0. s + 1 \in Nat
  OBVIOUS
<1>1. CASE s < 64
  <2>1. Info(s) = TinyInfo(s) /\ Info(s + 1) = TinyInfo(s + 1)
    BY <1>0, <1>1, SmallFacts
  <2>2. /\ TinyInfo(s).Size \in Nat /\ TinyInfo(s).Bin \in Nat
        /\ TinyInfo(s + 1).Size \in Nat /\ TinyInfo(s + 1).Bin \in Nat
    BY <1>0, <1>1, TinyFacts
  <2>3. /\ TinyInfo(s).Size <= TinyInfo(s + 1).Size /\ TinyInfo(s).Bin <= TinyInfo(s + 1).Bin
        /\ TinyInfo(s).Bin = TinyInfo(s + 1).Bin <=> TinyInfo(s).Size = TinyInfo(s + 1).Size
    BY <1>1, TinyFacts
  <2> QED BY <2>1, <2>2, <2>3 DEF Ordered
<1>2. CASE s = 64
  <2>1. Info(s) = TinyInfo(s) /\ Info(s + 1) = SegregatedInfo(s + 1)
    BY <1>0, <1>2, SmallFacts
  <2>2. TinyInfo(s) = AllocationInfo(64, 9)
    BY <1>2, SmallTable DEF TinyInfo, SortedTable
  <2>3. SegregatedInfo(s + 1) = AllocationInfo(80, 11)
    BY <1>2, SegregatedFacts DEF Up
  <2> QED BY <2>1, <2>2, <2>3 DEF Ordered, AllocationInfo
<1>3. CASE 64 < s /\ s < 896
  <2>1. Info(s) = SegregatedInfo(s) /\ Info(s + 1) = SegregatedInfo(s + 1)
    BY <1>0, <1>3, SmallFacts
  <2> QED BY <1>3, <2>1, SegregatedOrdered
<1>4. CASE 896 <= s /\ s < 2688
  <2>1. 960 <= s
    BY <1>4 DEF NoLocation
  <2>2. Info(s) = MediumInfo(s) /\ Info(s + 1) = MediumInfo(s + 1)
    BY <1>0, <1>4, <2>1, SmallFacts
  <2> QED BY <1>4, <2>1, <2>2, MediumFacts DEF Ordered, AllocationInfo
<1>5. s # 2688
  BY <1>0, KindFacts
<1>6. CASE 2688 < s /\ s < 8128
  BY <1>0, <1>6, LargeFacts DEF Ordered, AllocationInfo
<1>7. s # 8128
  BY <1>0, KindFacts
<1>8. CASE 8128 < s /\ s < 1048512
  <2>1. PICK h \in Nat : /\ h = (s + 4159) \div 4096
                         /\ h * 4096 <= s + 4159 /\ s + 4159 < h * 4096 + 4096
    OBVIOUS
  <2>2. PICK k \in Nat : /\ k = (s + 1 + 4159) \div 4096
                         /\ k * 4096 <= s + 1 + 4159 /\ s + 1 + 4159 < k * 4096 + 4096
    OBVIOUS
  <2>3. Info(s) = AllocationInfo(h * 4096 - 64, h) /\ Info(s + 1) = AllocationInfo(k * 4096 - 64, k)
    BY <1>0, <1>8, <2>1, <2>2, HugeFacts
  <2>4. k = h \/ k = h + 1
    BY <2>1, <2>2
  <2> QED BY <2>3, <2>4 DEF Ordered, AllocationInfo
<1>9. s < 1048512
  BY <1>0, KindFacts
<1> QED BY <1>1, <1>2, <1>3, <1>4, <1>5, <1>6, <1>7, <1>8, <1>9

-----------------------------------------------------------------------------
(* Where the locations of a large group are.                               *)

(* The sizes of which a large group has no more than 16 locations.         *)
SixteenAtMost == {4048, 5397, 8096}

LEMMA LocationsFacts ==
  /\ Locations(4048) = 16 /\ Locations(5397) = 12 /\ Locations(8096) = 8
BY DEF Locations, LARGE_GROUP_SIZE, HEADER_SIZE

(* If each location has a place of its own, the mask has its subgroup.     *)
LEMMA SubgroupFacts ==
  ASSUME NEW s, NEW n \in Nat, n <= 16, Locations(s) = n,
         NEW p \in 1 .. 4, n = 4 * p, NEW k \in 0 .. n - 1
  PROVE  Subgroup(s, k) = k \div p /\ k \div p \in 0 .. 3
<1> DEFINE same == {j \in 0 .. Locations(s) - 1 : Place(j) = Place(k)}
           values == {j \div (Locations(s) \div 4) : j \in same}
           q == k \div p
           Bit(b) == IF \E v \in values : (v \div b) % 2 = 1 THEN b ELSE 0
<1>1. Locations(s) \div 4 = p
  <2>1. p = 1 \/ p = 2 \/ p = 3 \/ p = 4
    OBVIOUS
  <2> QED BY <2>1
<1>2. \A j \in 0 .. n - 1 : Place(j) = j
  BY DEF Place
<1>3. same = {k}
  BY <1>2
<1> HIDE DEF same
<1>4. values = {q}
  BY <1>1, <1>3
<1>5. q \in 0 .. 3
  <2>1. p = 1 \/ p = 2 \/ p = 3 \/ p = 4
    OBVIOUS
  <2> QED BY <2>1
<1>6. Subgroup(s, k) = Bit(1) + Bit(2)
  BY Zenon DEF Subgroup, same
<1> HIDE DEF values, q
<1>7. /\ Bit(1) = IF (q \div 1) % 2 = 1 THEN 1 ELSE 0
      /\ Bit(2) = IF (q \div 2) % 2 = 1 THEN 2 ELSE 0
  BY <1>4
<1> HIDE DEF Bit
<1>8. q = 0 \/ q = 1 \/ q = 2 \/ q = 3
  BY <1>5
<1>9. Bit(1) + Bit(2) = q
  BY <1>7, <1>8
<1> QED BY <1>5, <1>6, <1>9 DEF q

(* Where location k is; q is its subgroup.                                 *)
LocatedAt(s, k, q) ==
  /\ q \in 0 .. 3
  /\ LocationToAddress(s, k) \in Nat
  /\ LocationToAddress(s, k) = (q + 1) * 192 + s * k
  /\ q * 16384 + 189 <= LocationToAddress(s, k)
  /\ LocationToAddress(s, k) + s <= q * 16384 + 16384

LEMMA AddressFacts ==
  ASSUME NEW s \in SixteenAtMost, NEW k \in 0 .. Locations(s) - 1
  PROVE  \E q : LocatedAt(s, k, q)
<1>0. ASSUME NEW n \in Nat, n <= 16, Locations(s) = n, NEW p \in 1 .. 4, n = 4 * p
      PROVE  /\ k \div p \in 0 .. 3
             /\ LocationToAddress(s, k) = (k \div p + 1) * 192 + s * k
  BY <1>0, SubgroupFacts DEF LocationToAddress, HEADER_SIZE
<1>1. CASE s = 4048
  <2>1. Locations(s) = 16
    BY <1>1, LocationsFacts
  <2>2. /\ k \div 4 \in 0 .. 3
        /\ LocationToAddress(s, k) = (k \div 4 + 1) * 192 + s * k
    BY <1>0, <2>1
  <2>3. k \in Nat /\ k <= 15
    BY <2>1
  <2>4. PICK q \in 0 .. 3 : q = k \div 4 /\ q * 4 <= k /\ k < q * 4 + 4
    BY <2>2, <2>3
  <2>5. LocationToAddress(s, k) = (q + 1) * 192 + 4048 * k
    BY ONLY <1>1, <2>2, <2>4
  <2>6. LocatedAt(4048, k, q)
    BY <1>1, <2>3, <2>4, <2>5 DEF LocatedAt
  <2> QED BY <1>1, <2>6
<1>2. CASE s = 5397
  <2>1. Locations(s) = 12
    BY <1>2, LocationsFacts
  <2>2. /\ k \div 3 \in 0 .. 3
        /\ LocationToAddress(s, k) = (k \div 3 + 1) * 192 + s * k
    BY <1>0, <2>1
  <2>3. k \in Nat /\ k <= 11
    BY <2>1
  <2>4. PICK q \in 0 .. 3 : q = k \div 3 /\ q * 3 <= k /\ k < q * 3 + 3
    BY <2>2, <2>3
  <2>5. LocationToAddress(s, k) = (q + 1) * 192 + 5397 * k
    BY ONLY <1>2, <2>2, <2>4
  <2>6. LocatedAt(5397, k, q)
    BY <1>2, <2>3, <2>4, <2>5 DEF LocatedAt
  <2> QED BY <1>2, <2>6
<1>3. CASE s = 8096
  <2>1. Locations(s) = 8
    BY <1>3, LocationsFacts
  <2>2. /\ k \div 2 \in 0 .. 3
        /\ LocationToAddress(s, k) = (k \div 2 + 1) * 192 + s * k
    BY <1>0, <2>1
  <2>3. k \in Nat /\ k <= 7
    BY <2>1
  <2>4. PICK q \in 0 .. 3 : q = k \div 2 /\ q * 2 <= k /\ k < q * 2 + 2
    BY <2>2, <2>3
  <2>5. LocationToAddress(s, k) = (q + 1) * 192 + 8096 * k
    BY ONLY <1>3, <2>2, <2>4
  <2>6. LocatedAt(8096, k, q)
    BY <1>3, <2>3, <2>4, <2>5 DEF LocatedAt
  <2> QED BY <1>3, <2>6
<1> QED BY <1>1, <1>2, <1>3 DEF SixteenAtMost

LEMMA LayoutApart ==
  ASSUME NEW s \in SixteenAtMost
  PROVE  \A i \in 0 .. Locations(s) - 1 :
           LET address == LocationToAddress(s, i) IN
             /\ \A j \in 0 .. i - 1 : Apart(address, s, LocationToAddress(s, j), s)
             /\ \A subgroup \in 0 .. 3 : Apart(address, s, subgroup * SMALL_GROUP_SIZE, NodeSize)
             /\ address + s <= LARGE_GROUP_SIZE
<1>1. SMALL_GROUP_SIZE = 16384 /\ NodeSize = 16 /\ LARGE_GROUP_SIZE = 65536
  BY DEF SMALL_GROUP_SIZE, NodeSize, LARGE_GROUP_SIZE
<1>2. s \in Nat /\ Locations(s) \in Nat
  BY LocationsFacts DEF SixteenAtMost
<1> SUFFICES ASSUME NEW i \in 0 .. Locations(s) - 1
             PROVE  LET address == LocationToAddress(s, i) IN
                      /\ \A j \in 0 .. i - 1 : Apart(address, s, LocationToAddress(s, j), s)
                      /\ \A subgroup \in 0 .. 3 :
                           Apart(address, s, subgroup * SMALL_GROUP_SIZE, NodeSize)
                      /\ address + s <= LARGE_GROUP_SIZE
  OBVIOUS
<1>3. PICK q : LocatedAt(s, i, q)
  BY AddressFacts
<1>4. ASSUME NEW j \in 0 .. i - 1
      PROVE  LocationToAddress(s, j) + s <= LocationToAddress(s, i)
  <2>1. j \in 0 .. Locations(s) - 1
    BY <1>2
  <2>2. PICK p : LocatedAt(s, j, p)
    BY <2>1, AddressFacts
  <2>3. i \in Nat /\ j \in Nat /\ j < i
    BY <1>2
  <2>4. ASSUME NEW z \in {4048, 5397, 8096}, LocatedAt(z, i, q), LocatedAt(z, j, p)
        PROVE  LocationToAddress(z, j) + z <= LocationToAddress(z, i)
    <3>1. CASE z = 4048
      BY ONLY <2>3, <2>4, <3>1 DEF LocatedAt
    <3>2. CASE z = 5397
      BY ONLY <2>3, <2>4, <3>2 DEF LocatedAt
    <3>3. CASE z = 8096
      BY ONLY <2>3, <2>4, <3>3 DEF LocatedAt
    <3> QED BY <3>1, <3>2, <3>3
  <2> QED BY <1>3, <2>2, <2>4 DEF SixteenAtMost
<1>5. ASSUME NEW subgroup \in 0 .. 3
      PROVE  Apart(LocationToAddress(s, i), s, subgroup * 16384, 16)
  BY <1>2, <1>3 DEF Apart, LocatedAt
<1>6. LocationToAddress(s, i) + s <= 65536
  BY <1>2, <1>3 DEF LocatedAt
<1> QED BY <1>1, <1>4, <1>5, <1>6 DEF Apart

-----------------------------------------------------------------------------
(* What Deallocate makes of an address.                                    *)

(* The header of a group or of a location is passed by its client's part.  *)
LEMMA DestinationFacts ==
  ASSUME NEW s \in Nat, NEW q \in 0 .. 3, NEW address \in Nat,
         q * 16384 + 64 < address, address < q * 16384 + 16384
  PROVE  /\ Kind(s) = "large" => Destination(s, address) = Found("large", 0)
         /\ Kind(s) = "small" /\ q = 0 => Destination(s, address) = Found("small", 0)
<1>1. SMALL_GROUP_SIZE = 16384 /\ HUGE_HEADER_SIZE = 64
  BY DEF SMALL_GROUP_SIZE, HUGE_HEADER_SIZE
<1>2. Distance(address) = address - q * 16384
  BY <1>1 DEF Distance
<1>3. address - Distance(address) = q * 16384
  BY <1>2
<1>4. ~ IsHugeLocation(address)
  BY <1>1, <1>2 DEF IsHugeLocation
<1> DEFINE header == HeaderAt(Kind(s), q * 16384)
<1>5. Destination(s, address) = IF IsLargeLocation(header)
                                THEN Found("large", q * 16384 - header.Subgroup * SMALL_GROUP_SIZE)
                                ELSE Found("small", q * 16384)
  BY ONLY <1>3, <1>4 DEF Destination
<1>6. Kind(s) = "large" => header.Type = 1 /\ header.Subgroup = q
  BY <1>1 DEF HeaderAt
<1>7. Kind(s) = "small" => header.Type = 0
  BY DEF HeaderAt
<1> HIDE DEF header
<1>8. CASE Kind(s) = "large"
  <2>1. IsLargeLocation(header)
    BY <1>6, <1>8 DEF IsLargeLocation
  <2>2. q * 16384 - header.Subgroup * SMALL_GROUP_SIZE = 0
    BY <1>1, <1>6, <1>8
  <2> QED BY ONLY <1>5, <1>8, <2>1, <2>2
<1>9. CASE Kind(s) = "small" /\ q = 0
  <2>1. Destination(s, address) = Found("small", q * 16384)
    BY <1>5, <1>7, <1>9 DEF IsLargeLocation
  <2>2. q * 16384 = 0
    BY <1>9
  <2> QED BY <1>9, <2>1, <2>2
<1> QED BY <1>8, <1>9

LEMMA SmallPositive ==
  ASSUME NEW s \in Nat, s \notin NoLocation, s <= 2688
  PROVE  Info(s).Size \in Nat \ {0}
<1>1. CASE s <= 64
  <2>1. Info(s) = TinyInfo(s)
    BY <1>1, SmallFacts
  <2>2. TinyInfo(s).Size \in Nat /\ TinyInfo(s).Size >= 8
    BY <1>1, TinyFacts
  <2> QED BY <2>1, <2>2
<1>2. CASE 64 < s /\ s <= 896
  <2>1. Info(s) = SegregatedInfo(s)
    BY <1>2, SmallFacts
  <2>2. /\ Up(s, 15) \in Nat \ {0} /\ Up(s, 31) \in Nat \ {0}
        /\ Up(s, 63) \in Nat \ {0} /\ Up(s, 127) \in Nat \ {0}
    BY <1>2 DEF Up
  <2> DEFINE b1 == (s - 1) \div 16 + 4 + 3
             b2 == (s - 1) \div 32 + 8 + 3
             b3 == (s - 1) \div 64 + 12 + 3
             b4 == (s - 1) \div 128 + 16 + 3
  <2>3. \/ SegregatedInfo(s) = AllocationInfo(Up(s, 15), b1)
        \/ SegregatedInfo(s) = AllocationInfo(Up(s, 31), b2)
        \/ SegregatedInfo(s) = AllocationInfo(Up(s, 63), b3)
        \/ SegregatedInfo(s) = AllocationInfo(Up(s, 127), b4)
    BY <1>2, SegregatedFacts
  <2> HIDE DEF b1, b2, b3, b4
  <2> QED BY <2>1, <2>2, <2>3 DEF AllocationInfo
<1>3. CASE 896 < s
  <2>1. 960 <= s
    BY <1>3 DEF NoLocation
  <2>2. Info(s) = MediumInfo(s)
    BY <1>3, SmallFacts
  <2> QED BY <2>1, <2>2, MediumFacts DEF AllocationInfo
<1> QED BY <1>1, <1>2, <1>3

LEMMA SmallAddressFacts ==
  ASSUME NEW z \in Nat \ {0}, NEW address \in SmallAddresses(z)
  PROVE  address \in Nat /\ 64 < address /\ address < 16384
<1>1. SMALL_GROUP_SIZE = 16384 /\ SMALL_GROUP_HEADER_SIZE = 256
  BY DEF SMALL_GROUP_SIZE, SMALL_GROUP_HEADER_SIZE
<1>2. PICK n \in Nat : n = 16128 \div z /\ z * n <= 16128
  OBVIOUS
<1>3. PICK i \in 0 .. n - 1 : address = 256 + z * i
  BY <1>1, <1>2 DEF SmallAddresses, SmallLocations
<1>4. z * i \in Nat /\ z * i < z * n
  BY <1>2
<1> QED BY <1>2, <1>3, <1>4

(* An address of a location for s, in its subgroup of 16 KB.                *)
LEMMA AddressOfKind ==
  ASSUME NEW s \in Nat, s \notin NoLocation, NEW address \in Addresses(s),
         Kind(s) = "large" => Info(s).Size \in SixteenAtMost
  PROVE  Destination(s, address) = Found(Kind(s), 0)
<1>1. CASE s <= 2688
  <2>1. Kind(s) = "small"
    BY <1>1, KindFacts
  <2>2. address \in SmallAddresses(Info(s).Size)
    BY <2>1, Zenon DEF Addresses
  <2>3. address \in Nat /\ 64 < address /\ address < 16384
    BY <1>1, <2>2, SmallPositive, SmallAddressFacts
  <2>4. 0 \in 0 .. 3 /\ 0 * 16384 + 64 < address /\ address < 0 * 16384 + 16384
    BY <2>3
  <2> QED BY <2>1, <2>3, <2>4, DestinationFacts
<1>2. CASE 2688 < s /\ s <= 8128
  <2>1. Kind(s) = "large" /\ Kind(s) # "small"
    BY <1>2, KindFacts
  <2> DEFINE z == Info(s).Size
  <2>2. address \in LargeAddresses(z) /\ z \in SixteenAtMost
    <3>1. address \in LargeAddresses(z)
      BY ONLY <2>1, address \in Addresses(s), Zenon DEF Addresses
    <3> QED BY <2>1, <3>1
  <2> HIDE DEF z
  <2>3. PICK i \in 0 .. Locations(z) - 1 : address = LocationToAddress(z, i)
    BY <2>2 DEF LargeAddresses
  <2>4. PICK q : LocatedAt(z, i, q)
    BY <2>2, <2>3, AddressFacts
  <2>5. /\ q \in 0 .. 3 /\ address \in Nat
        /\ q * 16384 + 64 < address /\ address < q * 16384 + 16384
    BY <2>2, <2>3, <2>4 DEF LocatedAt, SixteenAtMost
  <2> QED BY <2>1, <2>5, DestinationFacts
<1>3. CASE 8128 < s /\ s <= 1048512
  <2>1. Kind(s) = "huge" /\ Kind(s) # "small" /\ Kind(s) # "large"
    BY <1>3, KindFacts
  <2>2. address = HugeToClient(0)
    BY ONLY <2>1, address \in Addresses(s), Zenon DEF Addresses
  <2>3. address = 64 /\ HUGE_HEADER_SIZE = 64 /\ SMALL_GROUP_SIZE = 16384 /\ OSHeaderSize = 16
    BY <2>2 DEF HugeToClient, HUGE_HEADER_SIZE, SMALL_GROUP_SIZE, OSHeaderSize
  <2>4. IsHugeLocation(address) /\ ~ IsOSLocation(address) /\ HugeFromClient(address) = 0
    BY <2>3 DEF IsHugeLocation, IsOSLocation, HugeFromClient, Distance
  <2> QED BY <2>1, <2>4 DEF Destination
<1>4. CASE 1048512 < s
  <2>1. Kind(s) = "os" /\ Kind(s) # "small" /\ Kind(s) # "large" /\ Kind(s) # "huge"
    BY <1>4, KindFacts
  <2>2. address = OSAddress
    BY ONLY <2>1, address \in Addresses(s), Zenon DEF Addresses
  <2>3. address = 0 /\ HUGE_HEADER_SIZE = 64 /\ SMALL_GROUP_SIZE = 16384 /\ OSHeaderSize = 16
    BY <2>2 DEF OSAddress, HUGE_HEADER_SIZE, SMALL_GROUP_SIZE, OSHeaderSize
  <2>4. IsHugeLocation(address) /\ IsOSLocation(address)
    BY <2>3 DEF IsHugeLocation, IsOSLocation, Distance
  <2> QED BY <2>1, <2>3, <2>4 DEF Destination
<1> QED BY <1>1, <1>2, <1>3, <1>4

(* The index of a location of a large group is found again.                *)
LEMMA IndexFacts ==
  ASSUME NEW s \in SixteenAtMost, NEW k \in 0 .. Locations(s) - 1
  PROVE  AddressToLocation(s, LocationToAddress(s, k)) = k
<1>1. PICK q : LocatedAt(s, k, q)
  BY AddressFacts
<1>2. k \in Nat
  BY LocationsFacts DEF SixteenAtMost
<1>3. CASE s = 4048
  BY <1>1, <1>2, <1>3 DEF LocatedAt, AddressToLocation
<1>4. CASE s = 5397
  BY <1>1, <1>2, <1>4 DEF LocatedAt, AddressToLocation
<1>5. CASE s = 8096
  BY <1>1, <1>2, <1>5 DEF LocatedAt, AddressToLocation
<1> QED BY <1>3, <1>4, <1>5 DEF SixteenAtMost

-----------------------------------------------------------------------------
(* The tables serve the requests, one after another.                       *)

LEMMA SizeFacts == Inv => size \in Requests /\ size \in Nat
BY RequestsAssumption DEF Inv, TypeOK

(***************************************************************************)
(* A location is large enough for any request there is a table entry for,  *)
(* except those just below the next entry (TooSmall), and its bin exists,  *)
(* except for the last huge requests (NoBin).                              *)
(***************************************************************************)
THEOREM FitsCorrect ==
  ASSUME Requests \cap NoLocation = {}, Requests \cap TooSmall = {}, Requests \cap NoBin = {}
  PROVE  Spec => []Fits
<1>1. Inv => Fits
  BY SizeFacts, SizesFit DEF Fits
<1> QED BY <1>1, InvCorrect, PTL

(***************************************************************************)
(* From one request to the next of its kind sizes and bins grow together,  *)
(* so that a bin has locations of one size.                                *)
(***************************************************************************)
THEOREM BinsCorrect ==
  ASSUME Requests \cap NoLocation = {}
  PROVE  Spec => BinsSeparate
<1> DEFINE Separate == Kind(size') = Kind(size) /\ Kind(size) # "os" =>
                         LET now == Info(size)
                             next == Info(size')
                         IN  /\ next.Size >= now.Size
                             /\ next.Bin >= now.Bin
                             /\ next.Bin = now.Bin <=> next.Size = now.Size
<1>1. Inv /\ [Next]_vars => [Separate]_size
  <2> SUFFICES ASSUME Inv, [Next]_vars, size' # size PROVE Separate
    OBVIOUS
  <2>1. NextRequest
    <3>1. AnotherRequest \/ size' = size
      BY DEF Next, vars, AllocateHuge, AllocateHugeWithoutMemory, GetGroup, ReturnGroupToBlock,
             Release, MoveToFullList, DeallocateBlock
    <3> QED BY <3>1 DEF AnotherRequest
  <2>2. size' = size + 1 /\ size \in Nat /\ size \notin NoLocation /\ size + 1 \notin NoLocation
    BY <2>1, SizeFacts DEF NextRequest
  <2> HIDE DEF NoLocation
  <2>3. Kind(size + 1) = Kind(size) /\ Kind(size) # "os" => Ordered(Info(size), Info(size + 1))
    BY <2>2, InfoOrdered
  <2> QED BY <2>2, <2>3 DEF Ordered
<1> QED BY <1>1, InvCorrect, PTL DEF BinsSeparate, Spec

(***************************************************************************)
(* The locations of a large group have no byte in common, with each other  *)
(* or with the header of a subgroup, unless there are more than 16.        *)
(***************************************************************************)
THEOREM LayoutCorrect ==
  ASSUME 3200 \notin LocationSizes
  PROVE  Spec => []LocationsApart
<1>1. LocationsApart
  <2>1. LocationSizes \subseteq SixteenAtMost
    BY LocationSizesAssumption DEF SixteenAtMost
  <2> QED BY <2>1, LayoutApart DEF LocationsApart
<1> QED BY <1>1, PTL

(***************************************************************************)
(* Deallocate finds the kind of any location, and the start of its memory, *)
(* from the address alone; and the index of one in a large group.          *)
(***************************************************************************)
THEOREM AddressCorrect ==
  ASSUME Requests \cap NoLocation = {}, 3200 \notin LocationSizes
  PROVE  Spec => []AddressKnown
<1>1. Inv => AddressKnown
  <2>1. LocationSizes \subseteq SixteenAtMost
    BY LocationSizesAssumption DEF SixteenAtMost
  <2> SUFFICES ASSUME Inv, Kind(size) = "large" => Info(size).Size \in LocationSizes
               PROVE  /\ \A address \in Addresses(size) :
                           Destination(size, address) = Found(Kind(size), 0)
                      /\ Kind(size) = "large" =>
                           \A i \in 0 .. Locations(Info(size).Size) - 1 :
                             AddressToLocation(Info(size).Size,
                                               LocationToAddress(Info(size).Size, i)) = i
    BY DEF AddressKnown
  <2>2. size \in Nat /\ size \notin NoLocation
    BY SizeFacts
  <2>3. Kind(size) = "large" => Info(size).Size \in SixteenAtMost
    BY <2>1
  <2>4. \A address \in Addresses(size) : Destination(size, address) = Found(Kind(size), 0)
    BY <2>2, <2>3, AddressOfKind
  <2> QED BY <2>3, <2>4, IndexFacts
<1> QED BY <1>1, InvCorrect, PTL
=============================================================================
