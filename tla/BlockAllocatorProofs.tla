------------------------ MODULE BlockAllocatorProofs ------------------------
(***************************************************************************)
(* Proofs about module BlockAllocator, for the protocol in which only a    *)
(* block that is in the full list goes back to the system (ChecksList).    *)
(* Without the test the theorems do not hold: run blocks_race.             *)
(*                                                                         *)
(* The list of a block is known from its bitmap up to the threads between  *)
(* the bit and the lock: a block in the full list has a free group; a      *)
(* block in the empty list has one only while one thread, which saw the    *)
(* bitmap empty, is about to move it.  That the second kind of thread      *)
(* finds its block where it is to be removed is what ChecksList adds.      *)
(***************************************************************************)
EXTENDS BlockAllocator, ListProofs

-----------------------------------------------------------------------------
(* The bit that GetGroup takes.                                            *)

(* SearchForward finds a bit of a bitmap that is not empty.                *)
LEMMA FirstFacts ==
  ASSUME NEW S \in SUBSET Index, S # {}
  PROVE  First(S) \in S
<1>1. \E i \in S : \A j \in S : i <= j
  BY LeastExists, GroupsAssumption DEF Index
<1> QED BY <1>1 DEF First

-----------------------------------------------------------------------------
(* The inductive invariant.                                                *)

(* A block is in one list, once, and no block without a group is offered.  *)
BlocksApart ==
  /\ Once(fullBlockList) /\ Once(emptyBlockList)
  /\ InList(fullBlockList) \cap InList(emptyBlockList) = {}
  /\ \A b \in InList(fullBlockList) : GroupBitmap[b] # {}

(* The threads on the way from the bitmap of a block to its lists.         *)
Movers(b) == {t \in Thread : pc[t] = "BLOCK_WAS_EMPTY" /\ block[t] = b}

MoverOfEach ==
  \A b \in InList(emptyBlockList) : GroupBitmap[b] # {} => \E t \in Thread : Movers(b) = {t}

MoversSound ==
  \A t \in Thread : pc[t] = "BLOCK_WAS_EMPTY" =>
    block[t] \in InList(emptyBlockList) /\ GroupBitmap[block[t]] # {}

BlockKnown == \A t \in Thread : pc[t] # "idle" => block[t] \in Block

(* GroupsConserved, group by group.                                        *)
EachSomewhere ==
  \A b \in InUse, i \in Index : i \in GroupBitmap[b] \/ \E t \in Thread : <<b, i>> \in held[t]

HeldAlone ==
  \A t \in Thread, b \in Block, i \in Index : <<b, i>> \in held[t] =>
    /\ b \in InUse
    /\ i \notin GroupBitmap[b]
    /\ \A u \in Thread \ {t} : <<b, i>> \notin held[u]

Inv ==
  /\ TypeOK
  /\ BlocksApart
  /\ EachSomewhere
  /\ HeldAlone
  /\ MoverOfEach
  /\ MoversSound
  /\ BlockKnown

LEMMA ListFacts ==
  ASSUME Inv
  PROVE  /\ fullBlockList \in Seq(Block) /\ emptyBlockList \in Seq(Block)
         /\ Once(fullBlockList) /\ Once(emptyBlockList)
         /\ InList(fullBlockList) \cap InList(emptyBlockList) = {}
         /\ InList(fullBlockList) \subseteq Block /\ InList(emptyBlockList) \subseteq Block
<1>1. fullBlockList \in Seq(Block) /\ emptyBlockList \in Seq(Block)
  BY DEF Inv, TypeOK
<1>2. InList(fullBlockList) \subseteq Block /\ InList(emptyBlockList) \subseteq Block
  BY <1>1 DEF InList
<1> QED BY <1>1, <1>2 DEF Inv, BlocksApart

LEMMA InitInv == Init => Inv
<1> SUFFICES ASSUME Init PROVE Inv
  OBVIOUS
<1>1. TypeOK /\ InList(fullBlockList) = {} /\ InList(emptyBlockList) = {}
  BY DEF Init, TypeOK, InList
<1>2. BlocksApart
  BY <1>1 DEF Init, BlocksApart, Once
<1> QED BY <1>1, <1>2 DEF Init, Inv, EachSomewhere, HeldAlone, InUse, MoverOfEach, MoversSound, BlockKnown

(***************************************************************************)
(* GetGroup takes a free group of the first block: the block changes lists *)
(* if that was its last one.                                               *)
(***************************************************************************)
LEMMA GetGroupFromFirstInv ==
  ASSUME Inv, NEW t \in Thread, GetGroupFromFirst(t)
  PROVE  Inv'
<1> DEFINE b == Head(fullBlockList)
           i == First(GroupBitmap[b])
           left == ResetBit(GroupBitmap[b], i)
           F == InList(fullBlockList)
           E == InList(emptyBlockList)
<1>1. /\ fullBlockList \in Seq(Block) /\ fullBlockList # <<>> /\ emptyBlockList \in Seq(Block)
      /\ Once(fullBlockList) /\ Once(emptyBlockList) /\ F \cap E = {}
  BY ListFacts DEF GetGroupFromFirst
<1>2. b \in F /\ b \in Block
  BY <1>1, RemoveFirstFacts
<1>3. /\ GroupBitmap' = [GroupBitmap EXCEPT ![b] = left]
      /\ held' = [held EXCEPT ![t] = @ \cup {<<b, i>>}]
      /\ MoveIfEmpty(b, left) /\ pc' = pc /\ block' = block
  BY DEF GetGroupFromFirst, threadVars
<1>4. i \in GroupBitmap[b] /\ i \in Index /\ left = GroupBitmap[b] \ {i}
  <2>1. GroupBitmap[b] \in SUBSET Index /\ GroupBitmap[b] # {}
    BY <1>2 DEF Inv, TypeOK, GetGroupFromFirst
  <2> QED BY <2>1, FirstFacts DEF ResetBit
<1> HIDE DEF b, i, left
<1>5. /\ fullBlockList' \in Seq(Block) /\ emptyBlockList' \in Seq(Block)
      /\ Once(fullBlockList') /\ Once(emptyBlockList')
      /\ \/ left = {} /\ F' = F \ {b} /\ E' = {b} \cup E
         \/ left # {} /\ F' = F /\ E' = E
  <2>1. CASE left = {}
    <3>1. fullBlockList' = Tail(fullBlockList) /\ emptyBlockList' = <<b>> \o emptyBlockList
      BY <1>3, <2>1 DEF MoveIfEmpty
    <3>2. b \notin E
      BY <1>1, <1>2
    <3> QED BY <1>1, <1>2, <2>1, <3>1, <3>2, RemoveFirstFacts, AddFirstFacts DEF b
  <2>2. CASE left # {}
    BY <1>1, <1>3, <2>2 DEF MoveIfEmpty, lists
  <2> QED BY <2>1, <2>2
<1> HIDE DEF F, E
<1>6. TypeOK'
  BY <1>2, <1>3, <1>4, <1>5 DEF Inv, TypeOK, Group
<1>7. GroupBitmap'[b] = left /\ \A c \in Block \ {b} : GroupBitmap'[c] = GroupBitmap[c]
  BY <1>2, <1>3 DEF Inv, TypeOK
<1>8. F \subseteq Block /\ E \subseteq Block
  BY <1>1 DEF F, E, InList
<1>9. BlocksApart'
  <2>1. F' \cap E' = {} /\ \A c \in F' : GroupBitmap'[c] # {}
    BY <1>1, <1>5, <1>7, <1>8 DEF Inv, BlocksApart, F
  <2> QED BY <1>5, <2>1 DEF BlocksApart, F, E
<1>10. EachSomewhere' /\ HeldAlone'
  <2>1. InUse' = InUse /\ InUse \subseteq Block /\ b \in InUse
    BY <1>2, <1>5, <1>8 DEF InUse, F, E
  <2>2. \A u \in Thread : held'[u] = IF u = t THEN held[u] \cup {<<b, i>>} ELSE held[u]
    BY <1>3 DEF Inv, TypeOK
  <2>3. EachSomewhere'
    <3> SUFFICES ASSUME NEW c \in InUse, NEW j \in Index, j \notin GroupBitmap'[c]
                 PROVE  \E u \in Thread : <<c, j>> \in held'[u]
      BY <2>1 DEF EachSomewhere, Index
    <3>1. CASE c = b /\ j = i
      BY <2>2, <3>1
    <3>2. CASE ~ (c = b /\ j = i)
      <4>1. j \notin GroupBitmap[c]
        BY <1>4, <1>7, <2>1, <3>2
      <4> QED BY <2>2, <4>1 DEF Inv, EachSomewhere
    <3> QED BY <3>1, <3>2
  <2>4. \A u \in Thread : <<b, i>> \notin held[u]
    BY <1>2, <1>4 DEF Inv, HeldAlone
  <2>5. ASSUME NEW u \in Thread, NEW c \in Block, NEW j \in Index, <<c, j>> \in held'[u]
        PROVE  /\ c \in InUse
               /\ j \notin GroupBitmap'[c]
               /\ \A v \in Thread \ {u} : <<c, j>> \notin held'[v]
    <3>1. CASE <<c, j>> = <<b, i>>
      BY <1>4, <1>7, <2>1, <2>2, <2>4, <2>5, <3>1
    <3>2. CASE <<c, j>> # <<b, i>>
      <4>1. \A v \in Thread : <<c, j>> \in held'[v] <=> <<c, j>> \in held[v]
        BY <2>2, <3>2
      <4>2. j \notin GroupBitmap[c] => j \notin GroupBitmap'[c]
        BY <1>4, <1>7
      <4> QED BY <2>5, <4>1, <4>2 DEF Inv, HeldAlone
    <3> QED BY <3>1, <3>2
  <2> QED BY <2>1, <2>3, <2>5 DEF HeldAlone, Index
<1>11. MoverOfEach' /\ MoversSound' /\ BlockKnown'
  <2>1. \A c : Movers(c)' = Movers(c)
    BY <1>3 DEF Movers
  <2>2. E \subseteq E' /\ \A c \in E : c # b /\ GroupBitmap'[c] = GroupBitmap[c]
    BY <1>1, <1>2, <1>5, <1>7, <1>8 DEF F, E
  <2>3. \A c \in E' : c \in E \/ GroupBitmap'[c] = {}
    BY <1>5, <1>7
  <2>4. MoverOfEach'
    BY <2>1, <2>2, <2>3 DEF Inv, MoverOfEach, E
  <2>5. MoversSound'
    BY <1>3, <2>2 DEF Inv, MoversSound, E
  <2>6. BlockKnown'
    BY <1>3 DEF Inv, BlockKnown
  <2> QED BY <2>4, <2>5, <2>6
<1> QED BY <1>6, <1>9, <1>10, <1>11 DEF Inv

(***************************************************************************)
(* Nothing is free: GetGroup takes the first group of a new block.         *)
(***************************************************************************)
LEMMA GetGroupFromNewInv ==
  ASSUME Inv, NEW t \in Thread, GetGroupFromNew(t)
  PROVE  Inv'
<1> DEFINE i == First(Mask)
           E == InList(emptyBlockList)
<1>1. PICK b \in AllocateBlock :
        /\ b # NoBlock
        /\ fullBlockList' = <<b>>
        /\ GroupBitmap' = [GroupBitmap EXCEPT ![b] = ResetBit(Mask, i)]
        /\ held' = [held EXCEPT ![t] = @ \cup {<<b, i>>}]
  BY DEF GetGroupFromNew
<1>2. /\ fullBlockList = <<>> /\ emptyBlockList' = emptyBlockList
      /\ pc' = pc /\ block' = block
  BY DEF GetGroupFromNew, threadVars
<1>3. b \in Block /\ b \notin InUse
  BY <1>1 DEF AllocateBlock
<1>4. InList(fullBlockList) = {} /\ InUse = E
  BY <1>2 DEF InList, InUse
<1>5. InList(fullBlockList') = {b} /\ Once(fullBlockList') /\ fullBlockList' \in Seq(Block)
  BY <1>1, <1>3 DEF InList, Once
<1>6. E' = E /\ b \notin E /\ InUse' = {b} \cup E
  BY <1>2, <1>3, <1>4, <1>5 DEF InList, InUse
<1>7. i \in Index
  <2>1. Mask \in SUBSET Index /\ Mask # {}
    BY GroupsAssumption DEF Mask, Index
  <2> QED BY <2>1, FirstFacts
<1>8. GroupBitmap'[b] = Index \ {i} /\ \A c \in Block \ {b} : GroupBitmap'[c] = GroupBitmap[c]
  BY <1>1, <1>3 DEF Inv, TypeOK, ResetBit, Mask
<1>9. GroupBitmap'[b] # {}
  <2>1. 0 \in Index /\ 1 \in Index
    BY GroupsAssumption DEF Index
  <2> QED BY <1>8, <2>1
<1>10. TypeOK'
  BY <1>1, <1>2, <1>3, <1>5, <1>7 DEF Inv, TypeOK, Group, ResetBit, Mask
<1>11. E \subseteq Block
  BY DEF E, InList, Inv, TypeOK
<1> HIDE DEF i, E
<1>12. BlocksApart'
  <2>1. Once(emptyBlockList')
    BY <1>2 DEF Inv, BlocksApart
  <2> QED BY <1>5, <1>6, <1>9, <2>1 DEF BlocksApart, E
<1>13. EachSomewhere' /\ HeldAlone'
  <2>1. \A u \in Thread : held'[u] = IF u = t THEN held[u] \cup {<<b, i>>} ELSE held[u]
    BY <1>1 DEF Inv, TypeOK
  <2>2. ASSUME NEW c \in InUse', NEW j \in Index
        PROVE  j \in GroupBitmap'[c] \/ \E u \in Thread : <<c, j>> \in held'[u]
    <3>1. CASE c = b
      BY <1>8, <2>1, <3>1
    <3>2. CASE c # b
      BY <1>4, <1>6, <1>8, <1>11, <2>1, <3>2 DEF Inv, EachSomewhere
    <3> QED BY <3>1, <3>2
  <2>3. \A u \in Thread, j \in Index : <<b, j>> \notin held[u]
    BY <1>3 DEF Inv, HeldAlone
  <2>4. ASSUME NEW u \in Thread, NEW c \in Block, NEW j \in Index, <<c, j>> \in held'[u]
        PROVE  /\ c \in InUse'
               /\ j \notin GroupBitmap'[c]
               /\ \A v \in Thread \ {u} : <<c, j>> \notin held'[v]
    <3>1. CASE c = b
      <4>1. \A v \in Thread : <<b, j>> \in held'[v] <=> v = t /\ j = i
        <5>1. ASSUME NEW v \in Thread, v # t PROVE <<b, j>> \notin held'[v]
          BY <2>1, <2>3, <5>1
        <5>2. <<b, j>> \in held'[t] <=> <<b, j>> = <<b, i>>
          BY <2>1, <2>3
        <5> QED BY <5>1, <5>2
      <4> QED BY <1>6, <1>8, <2>4, <3>1, <4>1
    <3>2. CASE c # b
      <4>1. \A v \in Thread : <<c, j>> \in held'[v] <=> <<c, j>> \in held[v]
        <5>1. <<c, j>> # <<b, i>>
          BY <3>2
        <5> QED BY <2>1, <5>1
      <4>2. GroupBitmap'[c] = GroupBitmap[c]
        BY <1>8, <3>2
      <4> QED BY <1>4, <1>6, <2>4, <4>1, <4>2 DEF Inv, HeldAlone
    <3> QED BY <3>1, <3>2
  <2> QED BY <2>2, <2>4 DEF EachSomewhere, HeldAlone, Index
<1>14. MoverOfEach' /\ MoversSound' /\ BlockKnown'
  <2>1. \A c : Movers(c)' = Movers(c)
    BY <1>2 DEF Movers
  <2>2. \A c \in E : GroupBitmap'[c] = GroupBitmap[c]
    BY <1>6, <1>8, <1>11
  <2>3. MoverOfEach'
    BY <1>6, <2>1, <2>2 DEF Inv, MoverOfEach, E
  <2>4. MoversSound'
    BY <1>2, <1>6, <2>2 DEF Inv, MoversSound, E
  <2>5. BlockKnown'
    BY <1>2 DEF Inv, BlockKnown
  <2> QED BY <2>3, <2>4, <2>5
<1> QED BY <1>10, <1>12, <1>13, <1>14 DEF Inv

(***************************************************************************)
(* A bit is set without the lock: nothing moves, but the thread that finds *)
(* the bitmap empty becomes the one mover of the block, which is in the    *)
(* empty list because a block in the full list has a group.                *)
(***************************************************************************)
LEMMA ReturnGroupToBlockInv ==
  ASSUME Inv, NEW t \in Thread, ReturnGroupToBlock(t)
  PROVE  Inv'
<1>1. PICK g \in held[t] :
        LET b == g[1]
            result == BitResult(GroupBitmap[b], g[2])
        IN  /\ GroupBitmap' = [GroupBitmap EXCEPT ![b] = @ \cup {g[2]}]
            /\ held' = [held EXCEPT ![t] = @ \ {g}]
            /\ pc' = [pc EXCEPT ![t] = result]
            /\ block' = [block EXCEPT ![t] = IF result = "idle" THEN NoBlock ELSE b]
  BY DEF ReturnGroupToBlock
<1>2. PICK b \in Block, i \in Index : g = <<b, i>>
  BY DEF Inv, TypeOK, Group
<1> DEFINE result == BitResult(GroupBitmap[b], i)
<1>3. /\ GroupBitmap' = [GroupBitmap EXCEPT ![b] = @ \cup {i}]
      /\ held' = [held EXCEPT ![t] = @ \ {<<b, i>>}]
      /\ pc' = [pc EXCEPT ![t] = result]
      /\ block' = [block EXCEPT ![t] = IF result = "idle" THEN NoBlock ELSE b]
      /\ fullBlockList' = fullBlockList /\ emptyBlockList' = emptyBlockList /\ pc[t] = "idle"
  BY <1>1, <1>2 DEF ReturnGroupToBlock, lists
<1>4. /\ <<b, i>> \in held[t] /\ b \in InUse /\ i \notin GroupBitmap[b]
      /\ \A u \in Thread \ {t} : <<b, i>> \notin held[u]
  BY <1>2 DEF Inv, HeldAlone
<1>5. /\ result \in {"idle", "BLOCK_WAS_EMPTY", "BLOCK_IS_FULL"}
      /\ result = "BLOCK_WAS_EMPTY" <=> GroupBitmap[b] = {}
  BY DEF BitResult
<1> HIDE DEF result
<1>6. /\ GroupBitmap'[b] = GroupBitmap[b] \cup {i}
      /\ \A c \in Block \ {b} : GroupBitmap'[c] = GroupBitmap[c]
      /\ \A u \in Thread : held'[u] = IF u = t THEN held[u] \ {<<b, i>>} ELSE held[u]
      /\ pc'[t] = result /\ block'[t] = IF result = "idle" THEN NoBlock ELSE b
      /\ \A u \in Thread \ {t} : pc'[u] = pc[u] /\ block'[u] = block[u]
  BY <1>3 DEF Inv, TypeOK
<1>7. InList(fullBlockList) \subseteq Block /\ InList(emptyBlockList) \subseteq Block
  BY DEF Inv, TypeOK, InList
<1>8. TypeOK'
  BY <1>3, <1>5 DEF Inv, TypeOK, Group
<1>9. BlocksApart'
  <2>1. \A c \in Block : GroupBitmap[c] # {} => GroupBitmap'[c] # {}
    BY <1>6
  <2> QED BY <1>3, <1>7, <2>1 DEF Inv, BlocksApart
<1>10. InUse' = InUse /\ InUse \subseteq Block
  BY <1>3, <1>7 DEF InUse
<1>11. EachSomewhere'
  <2> SUFFICES ASSUME NEW c \in InUse, NEW j \in Index, j \notin GroupBitmap'[c]
               PROVE  \E u \in Thread : <<c, j>> \in held'[u]
    BY <1>10 DEF EachSomewhere, Index
  <2>1. j \notin GroupBitmap[c] /\ <<c, j>> # <<b, i>>
    BY <1>6, <1>10
  <2>2. PICK u \in Thread : <<c, j>> \in held[u]
    BY <2>1 DEF Inv, EachSomewhere
  <2> QED BY <1>6, <2>1, <2>2
<1>12. HeldAlone'
  <2> SUFFICES ASSUME NEW u \in Thread, NEW c \in Block, NEW j \in Index, <<c, j>> \in held'[u]
               PROVE  /\ c \in InUse
                      /\ j \notin GroupBitmap'[c]
                      /\ \A v \in Thread \ {u} : <<c, j>> \notin held'[v]
    BY <1>10 DEF HeldAlone, Index
  <2>1. <<c, j>> \in held[u] /\ <<c, j>> # <<b, i>>
    BY <1>4, <1>6
  <2>2. c \in InUse /\ j \notin GroupBitmap[c] /\ \A v \in Thread \ {u} : <<c, j>> \notin held[v]
    BY <2>1 DEF Inv, HeldAlone
  <2>3. j \notin GroupBitmap'[c]
    BY <1>6, <2>1, <2>2
  <2>4. \A v \in Thread \ {u} : <<c, j>> \notin held'[v]
    BY <1>6, <2>2
  <2> QED BY <2>2, <2>3, <2>4
<1>13. MoverOfEach' /\ MoversSound' /\ BlockKnown'
  <2>1. GroupBitmap[b] = {} => b \in InList(emptyBlockList) /\ Movers(b) = {}
    BY <1>4 DEF Inv, BlocksApart, InUse, MoversSound, Movers
  <2>2. \A c \in Block : Movers(c)' = IF c = b /\ GroupBitmap[b] = {} THEN {t} ELSE Movers(c)
    <3>1. t \notin Movers(b)
      BY <1>3 DEF Movers
    <3>2. ASSUME NEW c \in Block, NEW u \in Thread
          PROVE  u \in Movers(c)' <=> u \in Movers(c) \/ (u = t /\ c = b /\ GroupBitmap[b] = {})
      <4>1. CASE u = t
        BY <1>3, <1>5, <1>6, <4>1 DEF Movers
      <4>2. CASE u # t
        BY <1>6, <4>2 DEF Movers
      <4> QED BY <4>1, <4>2
    <3>3. \A c : Movers(c) \subseteq Thread /\ Movers(c)' \subseteq Thread
      BY DEF Movers
    <3> QED BY <2>1, <3>2, <3>3
  <2>3. MoverOfEach'
    <3> SUFFICES ASSUME NEW c \in InList(emptyBlockList), GroupBitmap'[c] # {}
                 PROVE  \E u \in Thread : Movers(c)' = {u}
      BY <1>3 DEF MoverOfEach
    <3>1. CASE c = b /\ GroupBitmap[b] = {}
      BY <1>7, <2>2, <3>1
    <3>2. CASE ~ (c = b /\ GroupBitmap[b] = {})
      <4>1. GroupBitmap[c] # {} /\ Movers(c)' = Movers(c)
        BY <1>6, <1>7, <2>2, <3>2
      <4> QED BY <4>1 DEF Inv, MoverOfEach
    <3> QED BY <3>1, <3>2
  <2>4. MoversSound'
    <3> SUFFICES ASSUME NEW u \in Thread, pc'[u] = "BLOCK_WAS_EMPTY"
                 PROVE  block'[u] \in InList(emptyBlockList) /\ GroupBitmap'[block'[u]] # {}
      BY <1>3 DEF MoversSound
    <3>1. CASE u = t
      <4>1. GroupBitmap[b] = {} /\ block'[u] = b
        BY <1>5, <1>6, <3>1
      <4> QED BY <1>6, <2>1, <4>1
    <3>2. CASE u # t
      <4>1. block'[u] = block[u] /\ block[u] \in InList(emptyBlockList) /\ GroupBitmap[block[u]] # {}
        BY <1>6, <3>2 DEF Inv, MoversSound
      <4> QED BY <1>6, <1>7, <4>1
    <3> QED BY <3>1, <3>2
  <2>5. BlockKnown'
    BY <1>6 DEF Inv, BlockKnown
  <2> QED BY <2>3, <2>4, <2>5
<1> QED BY <1>8, <1>9, <1>11, <1>12, <1>13 DEF Inv

(***************************************************************************)
(* The mover of a block finds it in the empty list, and is its only one.   *)
(***************************************************************************)
LEMMA MoveToFullListInv ==
  ASSUME Inv, NEW t \in Thread, MoveToFullList(t)
  PROVE  Inv'
<1> DEFINE b == block[t]
           F == InList(fullBlockList)
           E == InList(emptyBlockList)
<1>1. pc[t] = "BLOCK_WAS_EMPTY" /\ b \in E /\ GroupBitmap[b] # {}
  BY DEF MoveToFullList, Inv, MoversSound
<1>2. /\ emptyBlockList' = Without(emptyBlockList, b) /\ fullBlockList' = <<b>> \o fullBlockList
      /\ pc' = [pc EXCEPT ![t] = "idle"] /\ block' = [block EXCEPT ![t] = NoBlock]
      /\ GroupBitmap' = GroupBitmap /\ held' = held
  BY <1>1 DEF MoveToFullList, Return
<1>3. /\ fullBlockList \in Seq(Block) /\ emptyBlockList \in Seq(Block)
      /\ Once(fullBlockList) /\ Once(emptyBlockList) /\ F \cap E = {}
      /\ F \subseteq Block /\ E \subseteq Block
  BY ListFacts
<1>4. b \in Block /\ b \notin F
  BY <1>1, <1>3
<1> HIDE DEF b
<1>5. /\ fullBlockList' \in Seq(Block) /\ emptyBlockList' \in Seq(Block)
      /\ Once(fullBlockList') /\ Once(emptyBlockList') /\ F' = {b} \cup F /\ E' = E \ {b}
  BY <1>2, <1>3, <1>4, AddFirstFacts, RemoveFacts
<1> HIDE DEF F, E
<1>6. TypeOK'
  BY <1>2, <1>5 DEF Inv, TypeOK, Group
<1>7. BlocksApart'
  BY <1>1, <1>2, <1>3, <1>5 DEF Inv, BlocksApart, F, E
<1>8. EachSomewhere' /\ HeldAlone'
  <2>1. InUse' = InUse
    BY <1>1, <1>5 DEF InUse, F, E
  <2> QED BY <1>2, <2>1 DEF Inv, EachSomewhere, HeldAlone, Index
<1>9. MoverOfEach' /\ MoversSound' /\ BlockKnown'
  <2>1. \A c \in Block \ {b} : Movers(c)' = Movers(c)
    <3> SUFFICES ASSUME NEW c \in Block \ {b}, NEW u \in Thread
                 PROVE  u \in Movers(c)' <=> u \in Movers(c)
      BY DEF Movers
    <3>1. CASE u = t
      BY <1>2, <3>1 DEF Movers, b, Inv, TypeOK
    <3>2. CASE u # t
      BY <1>2, <3>2 DEF Movers, Inv, TypeOK
    <3> QED BY <3>1, <3>2
  <2>2. MoverOfEach'
    BY <1>2, <1>3, <1>5, <2>1 DEF Inv, MoverOfEach, E
  <2>3. MoversSound'
    <3> SUFFICES ASSUME NEW u \in Thread, pc'[u] = "BLOCK_WAS_EMPTY"
                 PROVE  block'[u] \in E' /\ GroupBitmap'[block'[u]] # {}
      BY DEF MoversSound, E
    <3>1. u # t /\ pc[u] = "BLOCK_WAS_EMPTY" /\ block'[u] = block[u]
      BY <1>2 DEF Inv, TypeOK
    <3>2. block[u] \in E /\ GroupBitmap[block[u]] # {}
      BY <3>1 DEF Inv, MoversSound, E
    <3>3. PICK v \in Thread : Movers(b) = {v}
      BY <1>1 DEF Inv, MoverOfEach, E
    <3>4. block[u] # b
      BY <1>1, <3>1, <3>3 DEF Movers, b
    <3> QED BY <1>2, <1>5, <3>1, <3>2, <3>4
  <2>4. BlockKnown'
    BY <1>2 DEF Inv, BlockKnown, TypeOK
  <2> QED BY <2>2, <2>3, <2>4
<1> QED BY <1>6, <1>7, <1>8, <1>9 DEF Inv

(***************************************************************************)
(* A block that goes back to the system has all its groups, so nobody      *)
(* holds one; with ChecksList it is in the full list, so nobody is about   *)
(* to move it.                                                             *)
(***************************************************************************)
LEMMA ReturnBlockInv ==
  ASSUME ChecksList, Inv, NEW t \in Thread, ReturnBlock(t)
  PROVE  Inv'
<1> DEFINE b == block[t]
           F == InList(fullBlockList)
           E == InList(emptyBlockList)
<1>1. /\ pc[t] = "BLOCK_IS_FULL"
      /\ pc' = [pc EXCEPT ![t] = "idle"] /\ block' = [block EXCEPT ![t] = NoBlock]
      /\ emptyBlockList' = emptyBlockList /\ GroupBitmap' = GroupBitmap /\ held' = held
      /\ \/ CanReturnBlock(b) /\ fullBlockList' = Without(fullBlockList, b)
         \/ fullBlockList' = fullBlockList
  BY DEF ReturnBlock, Return, DeallocateBlock
<1>2. /\ fullBlockList \in Seq(Block) /\ emptyBlockList \in Seq(Block)
      /\ Once(fullBlockList) /\ Once(emptyBlockList) /\ F \cap E = {}
      /\ F \subseteq Block /\ E \subseteq Block
  BY ListFacts
<1> HIDE DEF b
<1>3. /\ fullBlockList' \in Seq(Block) /\ Once(fullBlockList')
      /\ \/ F' = F \ {b} /\ b \in F /\ GroupBitmap[b] = Mask
         \/ F' = F
  <2>1. /\ Without(fullBlockList, b) \in Seq(Block) /\ Once(Without(fullBlockList, b))
        /\ InList(Without(fullBlockList, b)) = F \ {b}
    BY <1>2, RemoveFacts
  <2>2. CanReturnBlock(b) => b \in F /\ GroupBitmap[b] = Mask
    BY DEF CanReturnBlock
  <2> QED BY <1>1, <1>2, <2>1, <2>2
<1>4. E' = E
  BY <1>1
<1> HIDE DEF F, E
<1>5. TypeOK'
  BY <1>1, <1>3 DEF Inv, TypeOK, Group
<1>6. BlocksApart'
  BY <1>1, <1>2, <1>3, <1>4 DEF Inv, BlocksApart, F, E
<1>7. EachSomewhere' /\ HeldAlone'
  <2>1. InUse' \subseteq InUse /\ \A c \in InUse : c \in InUse' \/ GroupBitmap[c] = Mask
    BY <1>3, <1>4 DEF InUse, F, E
  <2>2. EachSomewhere'
    BY <1>1, <2>1 DEF Inv, EachSomewhere, Index
  <2>3. HeldAlone'
    BY <1>1, <2>1 DEF Inv, HeldAlone, Index, Mask
  <2> QED BY <2>2, <2>3
<1>8. MoverOfEach' /\ MoversSound' /\ BlockKnown'
  <2>1. \A c \in Block : Movers(c)' = Movers(c)
    <3> SUFFICES ASSUME NEW c \in Block, NEW u \in Thread
                 PROVE  u \in Movers(c)' <=> u \in Movers(c)
      BY DEF Movers
    <3>1. CASE u = t
      BY <1>1, <3>1 DEF Movers, Inv, TypeOK
    <3>2. CASE u # t
      BY <1>1, <3>2 DEF Movers, Inv, TypeOK
    <3> QED BY <3>1, <3>2
  <2>2. MoverOfEach'
    BY <1>1, <1>2, <1>4, <2>1 DEF Inv, MoverOfEach, E
  <2>3. MoversSound'
    BY <1>1, <1>4 DEF Inv, MoversSound, E, TypeOK
  <2>4. BlockKnown'
    BY <1>1 DEF Inv, BlockKnown, TypeOK
  <2> QED BY <2>2, <2>3, <2>4
<1> QED BY <1>5, <1>6, <1>7, <1>8 DEF Inv

LEMMA NextInv ==
  ASSUME ChecksList, Inv, [Next]_vars
  PROVE  Inv'
<1>1. CASE UNCHANGED vars
  <2>1. InUse' = InUse /\ \A b : Movers(b)' = Movers(b)
    BY <1>1 DEF vars, lists, threadVars, InUse, Movers
  <2>2. TypeOK' /\ BlocksApart'
    BY <1>1 DEF vars, lists, threadVars, Inv, TypeOK, Group, BlocksApart
  <2>3. EachSomewhere' /\ HeldAlone'
    BY <1>1, <2>1 DEF vars, lists, threadVars, Inv, EachSomewhere, HeldAlone, Index
  <2>4. MoverOfEach' /\ MoversSound' /\ BlockKnown'
    BY <1>1, <2>1 DEF vars, lists, threadVars, Inv, MoverOfEach, MoversSound, BlockKnown
  <2> QED BY <2>2, <2>3, <2>4 DEF Inv
<1>2. ASSUME NEW t \in Thread,
             \/ GetGroupFromFirst(t) \/ GetGroupFromNew(t)
             \/ ReturnGroupToBlock(t) \/ Continue(t)
      PROVE  Inv'
  BY <1>2, GetGroupFromFirstInv, GetGroupFromNewInv, ReturnGroupToBlockInv,
     MoveToFullListInv, ReturnBlockInv DEF Continue
<1> QED BY <1>1, <1>2 DEF Next

(***************************************************************************)
(* The inductive invariant: the two lists, the bitmaps, the groups the     *)
(* threads hold and the threads between a bit and the lock, for any number *)
(* of threads, blocks and groups in a block.                               *)
(***************************************************************************)
THEOREM InvCorrect ==
  ASSUME ChecksList PROVE Spec => []Inv
<1>1. Inv /\ [Next]_vars => Inv'
  BY NextInv
<1> QED BY InitInv, <1>1, PTL DEF Spec

-----------------------------------------------------------------------------
(* The invariants and the property of the runs.                            *)

(***************************************************************************)
(* A block is in one of the two lists, once, and every block in the full   *)
(* list has a group for GetGroup, which does not test the index it finds.  *)
(***************************************************************************)
THEOREM ListsCorrect ==
  ASSUME ChecksList PROVE Spec => []ListsSound
<1>1. Inv => ListsSound
  <2> SUFFICES ASSUME Inv PROVE ListsSound
    OBVIOUS
  <2> DEFINE list == fullBlockList \o emptyBlockList
             m == Len(fullBlockList)
             n == Len(emptyBlockList)
  <2>1. /\ m \in Nat /\ n \in Nat
        /\ DOMAIN fullBlockList = 1 .. m /\ DOMAIN emptyBlockList = 1 .. n
        /\ DOMAIN list = 1 .. m + n
        /\ \A i \in 1 .. m : list[i] = fullBlockList[i]
        /\ \A i \in m + 1 .. m + n : list[i] = emptyBlockList[i - m]
    BY DEF Inv, TypeOK
  <2> HIDE DEF list, m, n
  <2>2. \A i \in 1 .. m + n :
          \/ i \in 1 .. m /\ list[i] \in InList(fullBlockList)
          \/ i \in m + 1 .. m + n /\ i - m \in 1 .. n /\ list[i] \in InList(emptyBlockList)
    BY <2>1 DEF InList
  <2>3. ASSUME NEW i \in DOMAIN list, NEW j \in DOMAIN list, list[i] = list[j] PROVE i = j
    <3>1. CASE i \in 1 .. m /\ j \in 1 .. m
      BY <2>1, <2>3, <3>1 DEF Inv, BlocksApart, Once
    <3>2. CASE i \in m + 1 .. m + n /\ j \in m + 1 .. m + n
      <4>1. i - m \in 1 .. n /\ j - m \in 1 .. n /\ emptyBlockList[i - m] = emptyBlockList[j - m]
        BY <2>1, <2>3, <3>2
      <4>2. i - m = j - m
        BY <2>1, <4>1 DEF Inv, BlocksApart, Once
      <4> QED BY <2>1, <3>2, <4>2
    <3>3. (list[i] \in InList(fullBlockList)) <=> (list[j] \in InList(fullBlockList))
      BY <2>3
    <3> QED BY <2>1, <2>2, <2>3, <3>1, <3>2, <3>3, ListFacts
  <2> QED BY <2>3 DEF ListsSound, list, Inv, BlocksApart
<1> QED BY InvCorrect, <1>1, PTL

(***************************************************************************)
(* Every group of a block in use is free or held by one thread, and no     *)
(* thread holds a group of a block that went back to the system.           *)
(***************************************************************************)
THEOREM ConservationCorrect ==
  ASSUME ChecksList PROVE Spec => []GroupsConserved
<1>1. Inv => GroupsConserved
  <2> SUFFICES ASSUME Inv PROVE GroupsConserved
    OBVIOUS
  <2>1. InUse \subseteq Block
    BY ListFacts DEF InUse
  <2>2. ASSUME NEW b \in InUse
        PROVE Mask = GroupBitmap[b] \cup {i \in Index : \E t \in Thread : <<b, i>> \in held[t]}
    BY <2>1, <2>2 DEF Inv, TypeOK, EachSomewhere, Mask
  <2>3. ASSUME NEW t \in Thread, NEW g \in held[t]
        PROVE  /\ g[1] \in InUse
               /\ g[2] \notin GroupBitmap[g[1]]
               /\ \A u \in Thread \ {t} : g \notin held[u]
    <3>1. PICK b \in Block, i \in Index : g = <<b, i>>
      BY DEF Inv, TypeOK, Group
    <3> QED BY <3>1 DEF Inv, HeldAlone
  <2> QED BY <2>2, <2>3 DEF GroupsConserved
<1> QED BY InvCorrect, <1>1, PTL

(***************************************************************************)
(* While the block of a free group is in the empty list, exactly one       *)
(* thread is on the way to move the block.                                 *)
(***************************************************************************)
THEOREM FreeGroupsCorrect ==
  ASSUME ChecksList PROVE Spec => []FreeGroupsKnown
<1>1. Inv => FreeGroupsKnown
  <2> SUFFICES ASSUME Inv, NEW b \in InList(emptyBlockList), GroupBitmap[b] # {}
               PROVE  Cardinality(Movers(b)) = 1
    BY DEF FreeGroupsKnown, Movers
  <2>1. PICK t \in Thread : Movers(b) = {t}
    BY DEF Inv, MoverOfEach
  <2> QED BY <2>1, FS_Singleton
<1> QED BY InvCorrect, <1>1, PTL

(***************************************************************************)
(* A thread that takes a block out of a list under the lock finds it       *)
(* there, whatever the others did since it set its bit.                    *)
(***************************************************************************)
THEOREM RemovalsCorrect ==
  ASSUME ChecksList PROVE Spec => []RemovalsSound
<1>1. ChecksList /\ Inv => RemovalsSound
  BY DEF Inv, MoversSound, RemovalsSound, CanReturnBlock
<1> QED BY InvCorrect, <1>1, PTL

(***************************************************************************)
(* A list without repetition has as many blocks as its length says.        *)
(***************************************************************************)
LEMMA CountFacts ==
  ASSUME NEW list \in Seq(Block), Once(list)
  PROVE  IsFiniteSet(InList(list)) /\ Cardinality(InList(list)) = Len(list)
<1>1. Len(list) \in Nat /\ DOMAIN list = 1 .. Len(list)
  OBVIOUS
<1>2. list \in Bijection(1 .. Len(list), InList(list))
  <2>1. list \in [1 .. Len(list) -> InList(list)]
    BY <1>1 DEF InList
  <2>2. list \in Injection(1 .. Len(list), InList(list))
    BY <1>1, <2>1 DEF Once, Injection, IsInjective
  <2>3. list \in Surjection(1 .. Len(list), InList(list))
    BY <1>1, <2>1 DEF InList, Surjection
  <2> QED BY <2>2, <2>3 DEF Bijection
<1>3. IsFiniteSet(1 .. Len(list)) /\ Cardinality(1 .. Len(list)) = Len(list)
  <2> DEFINE n == Len(list)
  <2>1. n \in Nat
    BY <1>1
  <2> HIDE DEF n
  <2>2. IsFiniteSet(1 .. n) /\ Cardinality(1 .. n) = IF 1 > n THEN 0 ELSE n - 1 + 1
    BY <2>1, FS_Interval
  <2>3. IsFiniteSet(1 .. n) /\ Cardinality(1 .. n) = n
    BY <2>1, <2>2
  <2> QED BY <2>3 DEF n
<1>4. ExistsBijection(1 .. Len(list), InList(list))
  BY <1>2 DEF ExistsBijection
<1> QED BY <1>3, <1>4, FS_Bijection

(***************************************************************************)
(* A step that gives a block back leaves CacheSize others, and nobody had  *)
(* a group of that block.                                                  *)
(***************************************************************************)
THEOREM CacheCorrect ==
  ASSUME ChecksList PROVE Spec => CacheKept
<1> DEFINE Kept == \A b \in InUse \ InUse' :
                     /\ \A t \in Thread : \A g \in held[t] : g[1] # b
                     /\ Cardinality(InUse') >= CacheSize
<1>1. Inv /\ [Next]_vars => [Kept]_vars
  <2> SUFFICES ASSUME Inv, [Next]_vars, NEW b \in InUse, b \notin InUse'
               PROVE  /\ \A t \in Thread : \A g \in held[t] : g[1] # b
                      /\ Cardinality(InUse') >= CacheSize
    BY DEF Kept
  <2> DEFINE F == InList(fullBlockList)
             E == InList(emptyBlockList)
  <2>1. ASSUME NEW t \in Thread, GetGroupFromFirst(t) PROVE InUse \subseteq InUse'
    <3>1. CASE UNCHANGED lists
      BY <3>1 DEF lists, InUse
    <3>2. CASE fullBlockList' = Tail(fullBlockList) /\ emptyBlockList' = <<Head(fullBlockList)>> \o emptyBlockList
      <4>1. F' = F \ {Head(fullBlockList)} /\ E' = {Head(fullBlockList)} \cup E
        BY <2>1, <3>2, ListFacts, RemoveFirstFacts, AddFirstFacts DEF GetGroupFromFirst
      <4> QED BY <4>1 DEF InUse
    <3> QED BY <2>1, <3>1, <3>2 DEF GetGroupFromFirst, MoveIfEmpty
  <2>2. ASSUME NEW t \in Thread, GetGroupFromNew(t) PROVE InUse \subseteq InUse'
    <3>1. F = {} /\ E' = E
      BY <2>2 DEF GetGroupFromNew, InList
    <3> QED BY <3>1 DEF InUse
  <2>3. ASSUME NEW t \in Thread, MoveToFullList(t) PROVE InUse \subseteq InUse'
    <3>1. CASE UNCHANGED lists
      BY <3>1 DEF lists, InUse
    <3>2. CASE /\ emptyBlockList' = Without(emptyBlockList, block[t])
               /\ fullBlockList' = <<block[t]>> \o fullBlockList
      <4>1. block[t] \in Block
        BY <2>3 DEF MoveToFullList, Inv, BlockKnown
      <4>2. E' = E \ {block[t]} /\ F' = {block[t]} \cup F
        BY <3>2, <4>1, ListFacts, RemoveFacts, AddFirstFacts
      <4> QED BY <4>2 DEF InUse
    <3> QED BY <2>3, <3>1, <3>2 DEF MoveToFullList
  <2>4. PICK t \in Thread : ReturnBlock(t)
    <3>1. \A t \in Thread : ~ GetGroupFromFirst(t) /\ ~ GetGroupFromNew(t) /\ ~ MoveToFullList(t)
      BY <2>1, <2>2, <2>3
    <3>2. \A t \in Thread : ~ ReturnGroupToBlock(t)
      BY DEF ReturnGroupToBlock, lists, InUse
    <3>3. ~ UNCHANGED vars
      BY DEF vars, lists, InUse
    <3> QED BY <3>1, <3>2, <3>3 DEF Next, Continue
  <2>5. /\ CanReturnBlock(block[t]) /\ block[t] \in F
        /\ fullBlockList' = Without(fullBlockList, block[t]) /\ E' = E
        /\ emptyBlockList' = emptyBlockList
    <3>1. CASE CanReturnBlock(block[t])
      BY <2>4, <3>1 DEF ReturnBlock, DeallocateBlock, CanReturnBlock
    <3>2. CASE ~ CanReturnBlock(block[t])
      BY <2>4, <3>2 DEF ReturnBlock, InUse
    <3> QED BY <3>1, <3>2
  <2>6. /\ F' = F \ {block[t]} /\ Len(fullBlockList') = Len(fullBlockList) - 1
        /\ fullBlockList' \in Seq(Block) /\ Once(fullBlockList')
    BY <2>5, ListFacts, RemoveFacts
  <2>7. b = block[t] /\ F' \cap E = {} /\ InUse' = F' \cup E
    BY <2>5, <2>6, ListFacts DEF InUse
  <2>8. \A u \in Thread : \A g \in held[u] : g[1] # b
    <3> SUFFICES ASSUME NEW u \in Thread, NEW g \in held[u], g[1] = b PROVE FALSE
      OBVIOUS
    <3>1. PICK i \in Index : g = <<b, i>> /\ b \in Block
      BY DEF Inv, TypeOK, Group
    <3>2. i \notin GroupBitmap[b]
      BY <3>1 DEF Inv, HeldAlone
    <3> QED BY <2>5, <2>7, <3>2 DEF CanReturnBlock, Mask
  <2>9. Cardinality(InUse') >= CacheSize
    <3>1. /\ IsFiniteSet(F') /\ Cardinality(F') = Len(fullBlockList')
          /\ IsFiniteSet(E) /\ Cardinality(E) = Len(emptyBlockList)
      BY <2>6, ListFacts, CountFacts
    <3>2. Len(fullBlockList) \in Nat /\ Len(emptyBlockList) \in Nat
      BY ListFacts
    <3> HIDE DEF F, E
    <3>3. Cardinality(InUse') = Cardinality(F') + Cardinality(E)
      <4>1. Cardinality(F' \cap E) = 0
        BY <2>7, FS_EmptySet
      <4>2. Cardinality(F' \cup E) = Cardinality(F') + Cardinality(E) - Cardinality(F' \cap E)
        BY <3>1, FS_Union
      <4> QED BY <2>6, <2>7, <3>1, <3>2, <4>1, <4>2
    <3>4. Len(fullBlockList) + Len(emptyBlockList) > CacheSize
      BY <2>5 DEF CanReturnBlock
    <3> QED BY <2>6, <3>1, <3>2, <3>3, <3>4, CacheSizeAssumption
  <2> QED BY <2>8, <2>9
<1> QED BY InvCorrect, <1>1, PTL DEF Spec, CacheKept
=============================================================================
