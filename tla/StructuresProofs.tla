--------------------------- MODULE StructuresProofs ---------------------------
(***************************************************************************)
(* Proofs about module Structures.  The pointers of a list stand for a     *)
(* sequence of nodes, and its methods change that sequence as module       *)
(* NodeList promises; the pool keeps to the rules of its list and accounts *)
(* for its objects; and the operations on a bitmap implement the atomic    *)
(* ones of module AtomicWord, for any number of threads and of parts in    *)
(* which the word is read.                                                 *)
(***************************************************************************)
EXTENDS Structures, ListProofs

-----------------------------------------------------------------------------
(* The pointers and the sequence.                                          *)

(* The node in place i, or a null pointer before and behind the list.      *)
At(s, i) == IF i \in DOMAIN s THEN s[i] ELSE NoNode

(* The pointers are those of the sequence s.                               *)
IsChain(s) ==
  /\ s \in Seq(Node) /\ Len(s) = count_ /\ Once(s)
  /\ first_ = At(s, 1) /\ last_ = At(s, Len(s))
  /\ \A i \in DOMAIN s : GetNext(s[i]) = At(s, i + 1) /\ GetPrevious(s[i]) = At(s, i - 1)

(* Two paths that start alike and go on alike are the same.                *)
GoOnAlike(n, f, g) == \A i \in 1 .. n : (i # 1 => f[i - 1] = g[i - 1]) => f[i] = g[i]

LEMMA SamePath ==
  ASSUME NEW n \in Nat, NEW f, NEW g, GoOnAlike(n, f, g)
  PROVE  \A i \in 1 .. n : f[i] = g[i]
<1> DEFINE Bad == {i \in 1 .. n : f[i] # g[i]}
<1> SUFFICES ASSUME Bad # {} PROVE FALSE
  OBVIOUS
<1>1. PICK i \in Bad : \A j \in Bad : i <= j
  <2>1. Bad \in SUBSET (0 .. (n + 1) - 1) /\ n + 1 \in Nat
    OBVIOUS
  <2> HIDE DEF Bad
  <2> QED BY <2>1, LeastExists
<1>2. ASSUME i # 1 PROVE f[i - 1] = g[i - 1]
  <2>1. i - 1 \in 1 .. n /\ ~ (i <= i - 1)
    BY <1>1, <1>2
  <2>2. i - 1 \notin Bad
    BY <1>1, <2>1
  <2> QED BY <2>1, <2>2
<1> QED BY <1>1, <1>2 DEF GoOnAlike

(* Read along its pointers, a list is that sequence in both directions.    *)
LEMMA ListIs ==
  ASSUME NEW s, IsChain(s)
  PROVE  list = s
<1> DEFINE Walked(f) == f = [i \in 1 .. count_ |->
                IF i = 1 THEN first_
                ELSE IF f[i - 1] = NoNode THEN NoNode ELSE GetNext(f[i - 1])]
<1>1. list = CHOOSE f : Walked(f)
  BY DEF list, Walk
<1>2. /\ count_ \in Nat /\ DOMAIN s = 1 .. count_ /\ \A i \in 1 .. count_ : s[i] \in Node
      /\ s = [i \in 1 .. count_ |-> s[i]]
  BY DEF IsChain
<1>3. \A i \in 1 .. count_ : s[i] = IF i = 1 THEN first_
                ELSE IF s[i - 1] = NoNode THEN NoNode ELSE GetNext(s[i - 1])
  <2> TAKE i \in 1 .. count_
  <2>1. CASE i = 1
    BY <1>2, <2>1 DEF IsChain, At
  <2>2. CASE i # 1
    <3>1. i - 1 \in 1 .. count_ /\ i - 1 + 1 = i
      BY <1>2, <2>2
    <3>2. GetNext(s[i - 1]) = s[i]
      BY <1>2, <3>1 DEF IsChain, At
    <3> QED BY <1>2, <2>2, <3>1, <3>2, NoNodeAssumption
  <2> QED BY <2>1, <2>2
<1>4. Walked(s)
  <2>1. [i \in 1 .. count_ |-> s[i]] = [i \in 1 .. count_ |-> IF i = 1 THEN first_
                ELSE IF s[i - 1] = NoNode THEN NoNode ELSE GetNext(s[i - 1])]
    BY <1>3
  <2> QED BY <1>2, <2>1
<1>5. ASSUME NEW f, Walked(f) PROVE f = s
  <2>1. /\ f = [i \in 1 .. count_ |-> f[i]]
        /\ \A i \in 1 .. count_ : f[i] = IF i = 1 THEN first_
                ELSE IF f[i - 1] = NoNode THEN NoNode ELSE GetNext(f[i - 1])
    BY <1>5
  <2> HIDE DEF Walked
  <2>2. GoOnAlike(count_, f, s)
    BY <1>3, <2>1 DEF GoOnAlike
  <2>3. \A i \in 1 .. count_ : f[i] = s[i]
    BY <1>2, <2>2, SamePath
  <2>4. [i \in 1 .. count_ |-> f[i]] = [i \in 1 .. count_ |-> s[i]]
    BY <2>3
  <2> QED BY <1>2, <2>1, <2>4
<1>6. Walked(list)
  BY <1>1, <1>4
<1> QED BY <1>5, <1>6

LEMMA BackwardsIs ==
  ASSUME NEW s, IsChain(s)
  PROVE  backwards = [i \in 1 .. count_ |-> s[count_ + 1 - i]]
<1> DEFINE r == [i \in 1 .. count_ |-> s[count_ + 1 - i]]
           Walked(f) == f = [i \in 1 .. count_ |->
                IF i = 1 THEN last_
                ELSE IF f[i - 1] = NoNode THEN NoNode ELSE GetPrevious(f[i - 1])]
<1>1. backwards = CHOOSE f : Walked(f)
  BY DEF backwards, Walk
<1>2. /\ count_ \in Nat /\ DOMAIN s = 1 .. count_ /\ Len(s) = count_
      /\ \A i \in 1 .. count_ : s[i] \in Node
  BY DEF IsChain
<1>3. \A i \in 1 .. count_ : r[i] = IF i = 1 THEN last_
                ELSE IF r[i - 1] = NoNode THEN NoNode ELSE GetPrevious(r[i - 1])
  <2> TAKE i \in 1 .. count_
  <2>1. CASE i = 1
    BY <1>2, <2>1 DEF IsChain, At
  <2>2. CASE i # 1
    <3> DEFINE k == count_ + 1 - i
    <3>1. k \in 1 .. count_ /\ k + 1 \in 1 .. count_ /\ (k + 1) - 1 = k /\ i - 1 \in 1 .. count_
          /\ count_ + 1 - (i - 1) = k + 1
      BY <1>2, <2>2
    <3>2. r[i] = s[k] /\ r[i - 1] = s[k + 1]
      BY <3>1
    <3> HIDE DEF k, r
    <3>3. GetPrevious(s[k + 1]) = s[k]
      BY <1>2, <3>1 DEF IsChain, At
    <3> QED BY <1>2, <2>2, <3>1, <3>2, <3>3, NoNodeAssumption
  <2> QED BY <2>1, <2>2
<1>4. Walked(r) /\ r = [i \in 1 .. count_ |-> r[i]]
  <2>1. r = [i \in 1 .. count_ |-> r[i]]
    OBVIOUS
  <2> HIDE DEF r
  <2>2. [i \in 1 .. count_ |-> r[i]] = [i \in 1 .. count_ |-> IF i = 1 THEN last_
                ELSE IF r[i - 1] = NoNode THEN NoNode ELSE GetPrevious(r[i - 1])]
    BY <1>3
  <2> QED BY <2>1, <2>2
<1> HIDE DEF r
<1>5. ASSUME NEW f, Walked(f) PROVE f = r
  <2>1. /\ f = [i \in 1 .. count_ |-> f[i]]
        /\ \A i \in 1 .. count_ : f[i] = IF i = 1 THEN last_
                ELSE IF f[i - 1] = NoNode THEN NoNode ELSE GetPrevious(f[i - 1])
    BY <1>5
  <2> HIDE DEF Walked
  <2>2. GoOnAlike(count_, f, r)
    BY <1>3, <2>1 DEF GoOnAlike
  <2>3. \A i \in 1 .. count_ : f[i] = r[i]
    BY <1>2, <2>2, SamePath
  <2>4. [i \in 1 .. count_ |-> f[i]] = [i \in 1 .. count_ |-> r[i]]
    BY <2>3
  <2> QED BY <1>4, <2>1, <2>4
<1>6. Walked(backwards)
  BY <1>1, <1>4
<1>7. backwards = r
  BY <1>5, <1>6
<1> QED BY <1>7 DEF r

(* What an operation does to the pointers, whichever of them it writes: a  *)
(* node comes between p and q, or p and q become neighbours.  Either may   *)
(* be a null pointer, for the ends of the list.                            *)
LinksTyped ==
  /\ Next_ \in [Node -> [Data : NodeData, Pointer : Pointer]]
  /\ Previous \in [Node -> Pointer]

DataSame == \A n \in Node : Next_'[n].Data = Next_[n].Data

Links(p, node, q) ==
  /\ \A n \in Node : GetNext(n)' = IF n = p THEN node ELSE IF n = node THEN q ELSE GetNext(n)
  /\ \A n \in Node : GetPrevious(n)' = IF n = q THEN node ELSE IF n = node THEN p ELSE GetPrevious(n)
  /\ first_' = IF p = NoNode THEN node ELSE first_
  /\ last_' = IF q = NoNode THEN node ELSE last_
  /\ count_' = count_ + 1

Unlinks(p, q) ==
  /\ \A n \in Node : GetNext(n)' = IF n = p THEN q ELSE GetNext(n)
  /\ \A n \in Node : GetPrevious(n)' = IF n = q THEN p ELSE GetPrevious(n)
  /\ first_' = IF p = NoNode THEN q ELSE first_
  /\ last_' = IF q = NoNode THEN p ELSE last_
  /\ count_' = count_ - 1

LEMMA NextFacts ==
  ASSUME LinksTyped, NEW node \in Pointer, NEW value \in Pointer
  PROVE  /\ SetNext(node, value) \in [Node -> [Data : NodeData, Pointer : Pointer]]
         /\ \A n \in Node :
              /\ SetNext(node, value)[n].Pointer = IF n = node THEN value ELSE GetNext(n)
              /\ SetNext(node, value)[n].Data = Next_[n].Data
BY NoNodeAssumption DEF LinksTyped, SetNext, Linked, Word, GetNext, Pointer

LEMMA PreviousFacts ==
  ASSUME LinksTyped, NEW node \in Pointer, NEW value \in Pointer
  PROVE  /\ SetPrevious(node, value) \in [Node -> Pointer]
         /\ \A n \in Node : SetPrevious(node, value)[n] = IF n = node THEN value ELSE GetPrevious(n)
BY NoNodeAssumption DEF LinksTyped, SetPrevious, GetPrevious, Pointer

LEMMA AddFirstLinks ==
  ASSUME LinksTyped, first_ \in Pointer, NEW node \in Node, node # first_, AddFirst(node)
  PROVE  LinksTyped' /\ DataSame /\ Links(NoNode, node, first_)
<1>1. node \in Pointer /\ NoNode \in Pointer /\ NoNode \notin Node
  BY NoNodeAssumption DEF Pointer
<1> DEFINE N == SetNext(node, first_)
           P == SetPrevious(first_, node)
<1>2. /\ N \in [Node -> [Data : NodeData, Pointer : Pointer]]
      /\ \A n \in Node : N[n].Pointer = (IF n = node THEN first_ ELSE GetNext(n))
                      /\ N[n].Data = Next_[n].Data
  BY <1>1, NextFacts
<1>3. P \in [Node -> Pointer] /\ \A n \in Node : P[n] = IF n = first_ THEN node ELSE GetPrevious(n)
  BY <1>1, PreviousFacts
<1>4. Next_' = N /\ Previous' = [P EXCEPT ![node] = NoNode]
  BY DEF AddFirst
<1> HIDE DEF N, P
<1>5. LinksTyped' /\ DataSame
  BY <1>1, <1>2, <1>3, <1>4 DEF LinksTyped, DataSame
<1>6. \A n \in Node : GetNext(n)' = IF n = NoNode THEN node ELSE IF n = node THEN first_ ELSE GetNext(n)
  BY <1>1, <1>2, <1>4 DEF GetNext
<1>7. \A n \in Node :
        GetPrevious(n)' = IF n = first_ THEN node ELSE IF n = node THEN NoNode ELSE GetPrevious(n)
  BY <1>1, <1>3, <1>4 DEF GetPrevious
<1> QED BY <1>5, <1>6, <1>7 DEF Links, AddFirst

LEMMA AddLastLinks ==
  ASSUME LinksTyped, last_ \in Pointer, first_ = NoNode <=> last_ = NoNode,
         NEW node \in Node, node # last_, AddLast(node)
  PROVE  LinksTyped' /\ DataSame /\ Links(last_, node, NoNode)
<1>1. node \in Pointer /\ NoNode \in Pointer /\ NoNode \notin Node
  BY NoNodeAssumption DEF Pointer
<1> DEFINE N == SetNext(last_, node)
           P == SetPrevious(node, last_)
<1>2. /\ N \in [Node -> [Data : NodeData, Pointer : Pointer]]
      /\ \A n \in Node : N[n].Pointer = (IF n = last_ THEN node ELSE GetNext(n))
                      /\ N[n].Data = Next_[n].Data
  <2>1. N \in [Node -> [Data : NodeData, Pointer : Pointer]]
    BY <1>1, NextFacts
  <2>2. \A n \in Node : N[n].Pointer = (IF n = last_ THEN node ELSE GetNext(n))
    BY <1>1, NextFacts
  <2>3. \A n \in Node : N[n].Data = Next_[n].Data
    BY <1>1, NextFacts
  <2> QED BY <2>1, <2>2, <2>3
<1>3. P \in [Node -> Pointer] /\ \A n \in Node : P[n] = IF n = node THEN last_ ELSE GetPrevious(n)
  BY <1>1, PreviousFacts
<1>4. Next_' = [N EXCEPT ![node] = [Data |-> N[node].Data, Pointer |-> NoNode]] /\ Previous' = P
  BY DEF AddLast, Linked, Word
<1> HIDE DEF N, P
<1>5. LinksTyped' /\ DataSame
  BY <1>1, <1>2, <1>3, <1>4 DEF LinksTyped, DataSame
<1>6. \A n \in Node : GetNext(n)' = IF n = last_ THEN node ELSE IF n = node THEN NoNode ELSE GetNext(n)
  BY <1>1, <1>2, <1>4 DEF GetNext
<1>7. \A n \in Node :
        GetPrevious(n)' = IF n = NoNode THEN node ELSE IF n = node THEN last_ ELSE GetPrevious(n)
  BY <1>1, <1>3, <1>4 DEF GetPrevious
<1> QED BY <1>5, <1>6, <1>7 DEF Links, AddLast

LEMMA AddAfterLinks ==
  ASSUME LinksTyped, NEW firstNode \in Node, GetNext(firstNode) \in Pointer,
         NEW node \in Node, node # firstNode, node # GetNext(firstNode), AddAfter(firstNode, node)
  PROVE  LinksTyped' /\ DataSame /\ Links(firstNode, node, GetNext(firstNode))
<1>1. node \in Pointer /\ firstNode \in Pointer /\ NoNode \in Pointer /\ NoNode \notin Node
  BY NoNodeAssumption DEF Pointer
<1> DEFINE q == GetNext(firstNode)
           N == SetNext(firstNode, node)
           P == SetPrevious(q, node)
<1>2. /\ N \in [Node -> [Data : NodeData, Pointer : Pointer]]
      /\ \A n \in Node : N[n].Pointer = (IF n = firstNode THEN node ELSE GetNext(n))
                      /\ N[n].Data = Next_[n].Data
  BY <1>1, NextFacts
<1>3. P \in [Node -> Pointer] /\ \A n \in Node : P[n] = IF n = q THEN node ELSE GetPrevious(n)
  BY <1>1, PreviousFacts
<1>4. /\ Next_' = [N EXCEPT ![node] = [Data |-> N[node].Data, Pointer |-> q]]
      /\ Previous' = [P EXCEPT ![node] = firstNode]
      /\ q \in Pointer /\ q # node
  BY DEF AddAfter, Linked, Word
<1>5. /\ first_' = first_ /\ last_' = (IF q = NoNode THEN node ELSE last_)
      /\ count_' = count_ + 1
  BY DEF AddAfter
<1>6. SUFFICES LinksTyped' /\ DataSame /\ Links(firstNode, node, q)
  OBVIOUS
<1> HIDE DEF N, P, q
<1>7. LinksTyped' /\ DataSame
  BY <1>1, <1>2, <1>3, <1>4 DEF LinksTyped, DataSame
<1>8. \A n \in Node : GetNext(n)' = IF n = firstNode THEN node ELSE IF n = node THEN q ELSE GetNext(n)
  BY <1>1, <1>2, <1>4 DEF GetNext
<1>9. \A n \in Node :
        GetPrevious(n)' = IF n = q THEN node ELSE IF n = node THEN firstNode ELSE GetPrevious(n)
  BY <1>1, <1>3, <1>4 DEF GetPrevious
<1> QED BY <1>1, <1>5, <1>7, <1>8, <1>9 DEF Links

LEMMA RemoveLinks ==
  ASSUME LinksTyped, NEW node \in Node, Remove(node)
  PROVE  LinksTyped' /\ DataSame /\ Unlinks(GetPrevious(node), GetNext(node))
<1> DEFINE p == GetPrevious(node)
           q == GetNext(node)
           N == SetNext(p, q)
           P == SetPrevious(q, p)
<1>1. p \in Pointer /\ q \in Pointer
  BY DEF LinksTyped, GetPrevious, GetNext
<1>2. /\ N \in [Node -> [Data : NodeData, Pointer : Pointer]]
      /\ \A n \in Node : N[n].Pointer = (IF n = p THEN q ELSE GetNext(n))
                      /\ N[n].Data = Next_[n].Data
  BY <1>1, NextFacts
<1>3. P \in [Node -> Pointer] /\ \A n \in Node : P[n] = IF n = q THEN p ELSE GetPrevious(n)
  BY <1>1, PreviousFacts
<1>4. Next_' = N /\ Previous' = P
  BY DEF Remove
<1>5. /\ first_' = (IF p = NoNode THEN q ELSE first_) /\ last_' = (IF q = NoNode THEN p ELSE last_)
      /\ count_' = count_ - 1
  BY DEF Remove
<1>6. SUFFICES LinksTyped' /\ DataSame /\ Unlinks(p, q)
  OBVIOUS
<1> HIDE DEF N, P, p, q
<1>7. LinksTyped' /\ DataSame
  BY <1>2, <1>3, <1>4 DEF LinksTyped, DataSame
<1>8. \A n \in Node : GetNext(n)' = IF n = p THEN q ELSE GetNext(n)
  BY <1>2, <1>4 DEF GetNext
<1>9. \A n \in Node : GetPrevious(n)' = IF n = q THEN p ELSE GetPrevious(n)
  BY <1>3, <1>4 DEF GetPrevious
<1> QED BY <1>5, <1>7, <1>8, <1>9 DEF Unlinks

LEMMA RemoveFirstLinks ==
  ASSUME LinksTyped, first_ \in Node, RemoveFirst
  PROVE  LinksTyped' /\ DataSame /\ Unlinks(NoNode, GetNext(first_))
<1> DEFINE q == GetNext(first_)
           P == SetPrevious(q, NoNode)
<1>1. q \in Pointer /\ NoNode \in Pointer /\ NoNode \notin Node
  BY NoNodeAssumption DEF LinksTyped, GetNext, Pointer
<1>2. P \in [Node -> Pointer] /\ \A n \in Node : P[n] = IF n = q THEN NoNode ELSE GetPrevious(n)
  BY <1>1, PreviousFacts
<1>3. /\ Next_' = Next_ /\ Previous' = P
      /\ first_' = q /\ last_' = (IF q = NoNode THEN NoNode ELSE last_)
      /\ count_' = count_ - 1
  BY DEF RemoveFirst
<1>4. SUFFICES LinksTyped' /\ DataSame /\ Unlinks(NoNode, q)
  OBVIOUS
<1> HIDE DEF P, q
<1>5. LinksTyped' /\ DataSame
  BY <1>2, <1>3 DEF LinksTyped, DataSame
<1>6. \A n \in Node : GetNext(n)' = IF n = NoNode THEN q ELSE GetNext(n)
  BY <1>1, <1>3 DEF GetNext
<1>7. \A n \in Node : GetPrevious(n)' = IF n = q THEN NoNode ELSE GetPrevious(n)
  BY <1>2, <1>3 DEF GetPrevious
<1> QED BY <1>3, <1>5, <1>6, <1>7 DEF Unlinks

(* A list of one node has no neighbours of it, and a longer one has.       *)
LEMMA RemoveLastLinks ==
  ASSUME LinksTyped, last_ \in Node, first_ = last_ <=> GetPrevious(last_) = NoNode, RemoveLast
  PROVE  LinksTyped' /\ DataSame /\ Unlinks(GetPrevious(last_), NoNode)
<1> DEFINE p == GetPrevious(last_)
           N == SetNext(p, NoNode)
<1>1. p \in Pointer /\ NoNode \in Pointer /\ NoNode \notin Node
  BY NoNodeAssumption DEF LinksTyped, GetPrevious, Pointer
<1>2. /\ N \in [Node -> [Data : NodeData, Pointer : Pointer]]
      /\ \A n \in Node : N[n].Pointer = (IF n = p THEN NoNode ELSE GetNext(n))
                      /\ N[n].Data = Next_[n].Data
  BY <1>1, NextFacts
<1>3. p = NoNode => N = Next_
  BY DEF SetNext
<1>4. /\ Next_' = N /\ Previous' = Previous
      /\ first_' = (IF p = NoNode THEN NoNode ELSE first_) /\ last_' = p
      /\ count_' = count_ - 1
  BY <1>3 DEF RemoveLast
<1>5. SUFFICES LinksTyped' /\ DataSame /\ Unlinks(p, NoNode)
  OBVIOUS
<1> HIDE DEF N, p
<1>6. LinksTyped' /\ DataSame
  BY <1>2, <1>4 DEF LinksTyped, DataSame
<1>7. \A n \in Node : GetNext(n)' = IF n = p THEN NoNode ELSE GetNext(n)
  BY <1>2, <1>4 DEF GetNext
<1>8. \A n \in Node : GetPrevious(n)' = IF n = NoNode THEN p ELSE GetPrevious(n)
  BY <1>1, <1>4 DEF GetPrevious
<1> QED BY <1>4, <1>6, <1>7, <1>8 DEF Unlinks

(* The sequence with a node more, behind place k, or with that of place k  *)
(* less.                                                                   *)
Inserted(s, k, node) ==
  [i \in 1 .. Len(s) + 1 |-> IF i <= k THEN s[i] ELSE IF i = k + 1 THEN node ELSE s[i - 1]]

Removed(s, k) == [i \in 1 .. Len(s) - 1 |-> IF i < k THEN s[i] ELSE s[i + 1]]

LEMMA ChainFacts ==
  ASSUME NEW s, IsChain(s)
  PROVE  /\ count_ \in Nat /\ Len(s) = count_ /\ DOMAIN s = 1 .. count_
         /\ \A i \in 1 .. count_ : s[i] \in Node /\ At(s, i) = s[i]
         /\ \A i \in Int : (At(s, i) = NoNode <=> i \notin 1 .. count_) /\ At(s, i) \in Pointer
         /\ \A i, j \in 1 .. count_ : s[i] = s[j] => i = j
         /\ \A i \in 1 .. count_ : GetNext(s[i]) = At(s, i + 1) /\ GetPrevious(s[i]) = At(s, i - 1)
         /\ first_ = At(s, 1) /\ last_ = At(s, count_)
<1>1. /\ count_ \in Nat /\ Len(s) = count_ /\ DOMAIN s = 1 .. count_
      /\ \A i \in 1 .. count_ : s[i] \in Node
  BY DEF IsChain
<1>2. \A i \in 1 .. count_ : At(s, i) = s[i]
  BY <1>1 DEF At
<1>3. \A i \in Int : (At(s, i) = NoNode <=> i \notin 1 .. count_) /\ At(s, i) \in Pointer
  BY <1>1, NoNodeAssumption DEF At, Pointer
<1>4. \A i, j \in 1 .. count_ : s[i] = s[j] => i = j
  BY <1>1 DEF IsChain, Once
<1>5. /\ \A i \in 1 .. count_ : GetNext(s[i]) = At(s, i + 1) /\ GetPrevious(s[i]) = At(s, i - 1)
      /\ first_ = At(s, 1) /\ last_ = At(s, count_)
  BY <1>1 DEF IsChain
<1> QED BY <1>1, <1>2, <1>3, <1>4, <1>5

(* Links puts the node behind place k, and Unlinks takes that of place k   *)
(* out.                                                                    *)
LEMMA InsertChain ==
  ASSUME NEW s, IsChain(s), NEW k \in 0 .. Len(s), NEW node \in Node, node \notin InList(s),
         Links(At(s, k), node, At(s, k + 1))
  PROVE  IsChain(Inserted(s, k, node))'
<1> DEFINE new == Inserted(s, k, node)
           p == At(s, k)
           q == At(s, k + 1)
           n == Len(s)
<1>0. n = count_
  BY DEF IsChain
<1>1. /\ n \in Nat /\ k \in 0 .. n /\ DOMAIN s = 1 .. n
      /\ \A i \in 1 .. n : s[i] \in Node /\ At(s, i) = s[i] /\ s[i] # node
      /\ \A i \in Int : At(s, i) = NoNode <=> i \notin 1 .. n
      /\ \A i, j \in 1 .. n : s[i] = s[j] => i = j
      /\ \A i \in 1 .. n : GetNext(s[i]) = At(s, i + 1) /\ GetPrevious(s[i]) = At(s, i - 1)
      /\ first_ = At(s, 1) /\ last_ = At(s, n)
  <2>1. /\ count_ \in Nat /\ DOMAIN s = 1 .. count_
        /\ \A i \in 1 .. count_ : s[i] \in Node /\ At(s, i) = s[i]
        /\ \A i \in Int : At(s, i) = NoNode <=> i \notin 1 .. count_
        /\ \A i, j \in 1 .. count_ : s[i] = s[j] => i = j
        /\ \A i \in 1 .. count_ : GetNext(s[i]) = At(s, i + 1) /\ GetPrevious(s[i]) = At(s, i - 1)
        /\ first_ = At(s, 1) /\ last_ = At(s, count_)
    BY ChainFacts
  <2>2. \A i \in 1 .. count_ : s[i] # node
    BY <2>1 DEF InList
  <2>3. k \in 0 .. n
    OBVIOUS
  <2> HIDE DEF n
  <2> QED BY <1>0, <2>1, <2>2, <2>3
<1>2. /\ new \in Seq(Node) /\ Len(new) = n + 1 /\ DOMAIN new = 1 .. n + 1
      /\ \A i \in 1 .. n + 1 :
           /\ i <= k => new[i] = s[i]
           /\ i = k + 1 => new[i] = node
           /\ i > k + 1 => new[i] = s[i - 1]
  BY <1>1 DEF Inserted
<1>3. Once(new)
  <2> HIDE DEF new, n
  <2> SUFFICES ASSUME NEW i \in 1 .. n + 1, NEW j \in 1 .. n + 1, new[i] = new[j] PROVE i = j
    BY <1>2 DEF Once
  <2>1. /\ i <= k => new[i] = s[i]
        /\ i = k + 1 => new[i] = node
        /\ i > k + 1 => new[i] = s[i - 1]
        /\ j <= k => new[j] = s[j]
        /\ j = k + 1 => new[j] = node
        /\ j > k + 1 => new[j] = s[j - 1]
    BY <1>2
  <2>2. n \in Nat /\ k \in 0 .. n /\ (\A a, b \in 1 .. n : s[a] = s[b] => a = b)
        /\ \A a \in 1 .. n : s[a] # node
    BY <1>1
  <2>3. CASE i <= k
    <3>1. i \in 1 .. n /\ s[i] # node
      BY <2>2, <2>3
    <3>2. j # k + 1
      BY <2>1, <2>2, <2>3, <3>1
    <3>3. CASE j <= k
      BY <2>1, <2>2, <2>3, <3>1, <3>3
    <3>4. CASE j > k + 1
      <4>1. j - 1 \in 1 .. n /\ s[j - 1] = s[i] /\ j - 1 # i
        BY <2>1, <2>2, <2>3, <3>4
      <4> QED BY <2>1, <2>2, <3>1, <4>1
    <3> QED BY <2>2, <3>2, <3>3, <3>4
  <2>4. CASE i = k + 1
    <3>1. new[i] = node
      BY <2>1, <2>2, <2>4
    <3>2. CASE j <= k
      <4>1. j \in 1 .. n
        BY <2>2, <3>2
      <4> QED BY <2>1, <2>2, <3>1, <3>2, <4>1
    <3>3. CASE j > k + 1
      <4>1. j - 1 \in 1 .. n /\ new[j] = s[j - 1]
        BY <2>1, <2>2, <2>4, <3>3
      <4> QED BY <2>1, <2>2, <3>1, <4>1
    <3> QED BY <2>2, <2>4, <3>2, <3>3
  <2>5. CASE i > k + 1
    <3>1. i - 1 \in 1 .. n /\ new[i] = s[i - 1] /\ s[i - 1] # node
      BY <2>1, <2>2, <2>5
    <3>2. j # k + 1
      BY <2>1, <2>2, <2>5, <3>1
    <3>3. CASE j <= k
      <4>1. j \in 1 .. n /\ s[j] = s[i - 1] /\ j # i - 1
        BY <2>1, <2>2, <2>5, <3>1, <3>3
      <4> QED BY <2>1, <2>2, <3>1, <4>1
    <3>4. CASE j > k + 1
      <4>1. j - 1 \in 1 .. n /\ s[j - 1] = s[i - 1]
        BY <2>1, <2>2, <3>1, <3>4
      <4>2. j - 1 = i - 1
        BY <2>1, <2>2, <3>1, <4>1
      <4> QED BY <2>2, <4>2
    <3> QED BY <2>2, <3>2, <3>3, <3>4
  <2> QED BY <2>2, <2>3, <2>4, <2>5
<1>4. \A i \in Int :
        At(new, i) = IF i <= k THEN At(s, i) ELSE IF i = k + 1 THEN node ELSE At(s, i - 1)
  BY <1>1, <1>2 DEF At
<1>5. /\ \A x \in Node : GetNext(x)' = IF x = p THEN node ELSE IF x = node THEN q ELSE GetNext(x)
      /\ \A x \in Node : GetPrevious(x)' = IF x = q THEN node ELSE IF x = node THEN p ELSE GetPrevious(x)
      /\ first_' = (IF p = NoNode THEN node ELSE first_)
      /\ last_' = (IF q = NoNode THEN node ELSE last_)
      /\ count_' = count_ + 1
  BY DEF Links
<1>6. /\ p = NoNode <=> k = 0
      /\ q = NoNode <=> k = n
      /\ p # node /\ q # node
      /\ \A i \in 1 .. n : (s[i] = p <=> i = k) /\ (s[i] = q <=> i = k + 1)
  <2> HIDE DEF n
  <2>1. k \in Int /\ k + 1 \in Int /\ NoNode \notin Node
    BY <1>1, NoNodeAssumption
  <2>2. /\ k = 0 => p = NoNode
        /\ k # 0 => k \in 1 .. n /\ p = s[k] /\ p # NoNode /\ p # node
    BY <1>1, <2>1
  <2>3. /\ k = n => q = NoNode
        /\ k # n => k + 1 \in 1 .. n /\ q = s[k + 1] /\ q # NoNode /\ q # node
    BY <1>1, <2>1
  <2> HIDE DEF p, q
  <2>4. \A i \in 1 .. n : s[i] = p <=> i = k
    BY <1>1, <2>1, <2>2
  <2>5. \A i \in 1 .. n : s[i] = q <=> i = k + 1
    BY <1>1, <2>1, <2>3
  <2> QED BY <2>1, <2>2, <2>3, <2>4, <2>5
<1> HIDE DEF new, p, q, n
<1>7. first_' = At(new, 1)
  <2>1. CASE k = 0
    BY <1>1, <1>4, <1>5, <1>6, <2>1
  <2>2. CASE k # 0
    BY <1>1, <1>4, <1>5, <1>6, <2>2
  <2> QED BY <2>1, <2>2
<1>8. last_' = At(new, n + 1)
  <2>1. CASE k = n
    BY <1>1, <1>4, <1>5, <1>6, <2>1
  <2>2. CASE k # n
    BY <1>1, <1>4, <1>5, <1>6, <2>2
  <2> QED BY <2>1, <2>2
<1>9. ASSUME NEW i \in 1 .. n + 1
      PROVE  GetNext(new[i])' = At(new, i + 1) /\ GetPrevious(new[i])' = At(new, i - 1)
  <2>1. CASE i <= k
    <3>1. i \in 1 .. n /\ new[i] = s[i] /\ s[i] \in Node /\ s[i] # node
      <4>1. i \in 1 .. n
        BY <1>1, <2>1
      <4>2. new[i] = s[i]
        BY <1>2, <2>1
      <4>3. s[i] \in Node /\ s[i] # node
        BY <1>1, <4>1
      <4> QED BY <4>1, <4>2, <4>3
    <3>2. GetNext(new[i])' = At(new, i + 1)
      <4>1. GetNext(new[i])' = IF i = k THEN node ELSE At(s, i + 1)
        BY <1>1, <1>5, <1>6, <3>1
      <4> QED BY <1>1, <1>4, <2>1, <3>1, <4>1
    <3>3. GetPrevious(new[i])' = At(new, i - 1)
      <4>1. GetPrevious(new[i])' = At(s, i - 1)
        BY <1>1, <1>5, <1>6, <2>1, <3>1
      <4> QED BY <1>1, <1>4, <2>1, <3>1, <4>1
    <3> QED BY <3>2, <3>3
  <2>2. CASE i = k + 1
    <3>1. new[i] = node /\ GetNext(node)' = q /\ GetPrevious(node)' = p
      BY <1>1, <1>2, <1>5, <1>6, <2>2
    <3>2. At(new, i + 1) = At(s, k + 1) /\ At(new, i - 1) = At(s, k)
      BY <1>1, <1>4, <2>2
    <3> QED BY <3>1, <3>2 DEF p, q
  <2>3. CASE i > k + 1
    <3>1. i - 1 \in 1 .. n /\ new[i] = s[i - 1] /\ s[i - 1] \in Node /\ s[i - 1] # node
      <4>1. i - 1 \in 1 .. n
        BY <1>1, <2>3
      <4>2. new[i] = s[i - 1]
        BY <1>2, <2>3
      <4>3. s[i - 1] \in Node /\ s[i - 1] # node
        BY <1>1, <4>1
      <4> QED BY <4>1, <4>2, <4>3
    <3>2. GetNext(new[i])' = At(new, i + 1)
      <4>1. GetNext(new[i])' = At(s, i)
        BY <1>1, <1>5, <1>6, <2>3, <3>1
      <4> QED BY <1>1, <1>4, <2>3, <3>1, <4>1
    <3>3. GetPrevious(new[i])' = At(new, i - 1)
      <4> PICK j : j = i - 1
        OBVIOUS
      <4>1. j \in 1 .. n /\ new[i] = s[j] /\ s[j] \in Node /\ s[j] # node
        BY <3>1
      <4>2. CASE j = k + 1
        <5>1. GetPrevious(s[j])' = node
          BY <1>5, <1>6, <4>1, <4>2
        <5>2. At(new, j) = node
          BY <1>1, <1>4, <4>1, <4>2
        <5> QED BY <4>1, <5>1, <5>2
      <4>3. CASE j # k + 1
        <5>1. GetPrevious(s[j])' = At(s, j - 1)
          BY <1>1, <1>5, <1>6, <4>1, <4>3
        <5>2. j > k + 1 /\ j \in Int
          BY <1>1, <2>3, <4>3
        <5>3. At(new, j) = At(s, j - 1)
          BY <1>1, <1>4, <5>2
        <5> QED BY <4>1, <5>1, <5>3
      <4> QED BY <4>2, <4>3
    <3> QED BY <3>2, <3>3
  <2> QED BY <1>1, <2>1, <2>2, <2>3
<1>10. Len(new) = count_'
  BY <1>0, <1>2, <1>5
<1>11. IsChain(new)'
  BY <1>2, <1>3, <1>7, <1>8, <1>9, <1>10 DEF IsChain
<1> QED BY <1>11 DEF new

LEMMA RemoveChain ==
  ASSUME NEW s, IsChain(s), NEW k \in 1 .. Len(s), Unlinks(At(s, k - 1), At(s, k + 1))
  PROVE  IsChain(Removed(s, k))'
<1> DEFINE new == Removed(s, k)
           p == At(s, k - 1)
           q == At(s, k + 1)
           n == Len(s)
<1>0. n = count_
  BY DEF IsChain
<1>1. /\ n \in Nat /\ k \in 1 .. n /\ DOMAIN s = 1 .. n
      /\ \A i \in 1 .. n : s[i] \in Node /\ At(s, i) = s[i]
      /\ \A i \in Int : At(s, i) = NoNode <=> i \notin 1 .. n
      /\ \A i, j \in 1 .. n : s[i] = s[j] => i = j
      /\ \A i \in 1 .. n : GetNext(s[i]) = At(s, i + 1) /\ GetPrevious(s[i]) = At(s, i - 1)
      /\ first_ = At(s, 1) /\ last_ = At(s, n)
  <2>1. /\ count_ \in Nat /\ DOMAIN s = 1 .. count_
        /\ \A i \in 1 .. count_ : s[i] \in Node /\ At(s, i) = s[i]
        /\ \A i \in Int : At(s, i) = NoNode <=> i \notin 1 .. count_
        /\ \A i, j \in 1 .. count_ : s[i] = s[j] => i = j
        /\ \A i \in 1 .. count_ : GetNext(s[i]) = At(s, i + 1) /\ GetPrevious(s[i]) = At(s, i - 1)
        /\ first_ = At(s, 1) /\ last_ = At(s, count_)
    BY ChainFacts
  <2>2. k \in 1 .. n
    OBVIOUS
  <2> HIDE DEF n
  <2> QED BY <1>0, <2>1, <2>2
<1>2. /\ new \in Seq(Node) /\ Len(new) = n - 1 /\ DOMAIN new = 1 .. n - 1
      /\ \A i \in 1 .. n - 1 : i < k => new[i] = s[i]
      /\ \A i \in 1 .. n - 1 : i >= k => new[i] = s[i + 1]
  BY <1>1 DEF Removed
<1>3. /\ \A x \in Node : GetNext(x)' = IF x = p THEN q ELSE GetNext(x)
      /\ \A x \in Node : GetPrevious(x)' = IF x = q THEN p ELSE GetPrevious(x)
      /\ first_' = (IF p = NoNode THEN q ELSE first_)
      /\ last_' = (IF q = NoNode THEN p ELSE last_)
      /\ count_' = count_ - 1
  BY DEF Unlinks
<1>4. /\ p = NoNode <=> k = 1
      /\ q = NoNode <=> k = n
      /\ \A i \in 1 .. n : (s[i] = p <=> i = k - 1) /\ (s[i] = q <=> i = k + 1)
  <2> HIDE DEF n
  <2>1. k - 1 \in Int /\ k + 1 \in Int /\ NoNode \notin Node
    BY <1>1, NoNodeAssumption
  <2>2. /\ k = 1 => p = NoNode
        /\ k # 1 => k - 1 \in 1 .. n /\ p = s[k - 1] /\ p # NoNode
    BY <1>1, <2>1
  <2>3. /\ k = n => q = NoNode
        /\ k # n => k + 1 \in 1 .. n /\ q = s[k + 1] /\ q # NoNode
    BY <1>1, <2>1
  <2> HIDE DEF p, q
  <2>4. /\ \A i \in 1 .. n : s[i] # NoNode
        /\ \A i, j \in 1 .. n : s[i] = s[j] => i = j
        /\ 1 - 1 \notin 1 .. n /\ n + 1 \notin 1 .. n
    BY <1>1, <2>1
  <2>5. \A i \in 1 .. n : s[i] = p <=> i = k - 1
    BY <2>2, <2>4
  <2>6. \A i \in 1 .. n : s[i] = q <=> i = k + 1
    BY <2>3, <2>4
  <2> QED BY <2>2, <2>3, <2>5, <2>6
<1>5. \A i \in Int : /\ i < k => At(new, i) = At(s, i)
                     /\ i >= k => At(new, i) = At(s, i + 1)
  <2> HIDE DEF n, p, q
  <2> TAKE i \in Int
  <2>1. CASE i \in 1 .. n - 1
    BY <1>1, <1>2, <2>1 DEF At
  <2>2. CASE i \notin 1 .. n - 1
    <3>1. At(new, i) = NoNode
      BY <1>2, <2>2 DEF At
    <3> QED BY <1>1, <2>2, <3>1
  <2> QED BY <2>1, <2>2
<1> HIDE DEF new, n
<1>6. Once(new)
  <2> HIDE DEF p, q
  <2> SUFFICES ASSUME NEW i \in 1 .. n - 1, NEW j \in 1 .. n - 1, new[i] = new[j] PROVE i = j
    BY <1>2 DEF Once
  <2>1. n \in Nat /\ k \in 1 .. n /\ (\A a, b \in 1 .. n : s[a] = s[b] => a = b)
    BY <1>1
  <2>2. i \in 1 .. n /\ i + 1 \in 1 .. n /\ j \in 1 .. n /\ j + 1 \in 1 .. n
    BY <2>1
  <2>3. /\ i < k => new[i] = s[i]
        /\ i >= k => new[i] = s[i + 1]
        /\ j < k => new[j] = s[j]
        /\ j >= k => new[j] = s[j + 1]
    BY <1>2
  <2> QED BY <2>1, <2>2, <2>3
<1> HIDE DEF p, q
<1>7. first_' = At(new, 1)
  <2>1. CASE k = 1
    BY <1>1, <1>3, <1>4, <1>5, <2>1 DEF q
  <2>2. CASE k # 1
    BY <1>1, <1>3, <1>4, <1>5, <2>2
  <2> QED BY <2>1, <2>2
<1>8. last_' = At(new, n - 1)
  <2>1. CASE k = n
    BY <1>1, <1>3, <1>4, <1>5, <2>1 DEF p
  <2>2. CASE k # n
    BY <1>1, <1>3, <1>4, <1>5, <2>2
  <2> QED BY <2>1, <2>2
<1>9. ASSUME NEW i \in 1 .. n - 1
      PROVE  GetNext(new[i])' = At(new, i + 1) /\ GetPrevious(new[i])' = At(new, i - 1)
  <2>1. CASE i < k
    <3>1. i \in 1 .. n /\ new[i] = s[i] /\ s[i] \in Node
      <4>1. n \in Nat /\ i \in 1 .. n
        <5>1. n \in Nat
          BY <1>1
        <5> QED BY <5>1
      <4>2. new[i] = s[i]
        BY <1>2, <2>1
      <4>3. \A j \in 1 .. n : s[j] \in Node
        BY <1>1
      <4> QED BY <4>1, <4>2, <4>3
    <3>2. GetNext(new[i])' = At(new, i + 1)
      <4>1. CASE i = k - 1
        <5>1. GetNext(new[i])' = q /\ q = At(s, i + 2)
          BY <1>1, <1>3, <1>4, <3>1, <4>1 DEF q
        <5> QED BY <1>1, <1>5, <4>1, <5>1
      <4>2. CASE i # k - 1
        <5>1. GetNext(new[i])' = At(s, i + 1)
          BY <1>1, <1>3, <1>4, <3>1, <4>2
        <5> QED BY <1>1, <1>5, <2>1, <4>2, <5>1
      <4> QED BY <4>1, <4>2
    <3>3. GetPrevious(new[i])' = At(new, i - 1)
      <4>1. GetPrevious(new[i])' = At(s, i - 1)
        BY <1>1, <1>3, <1>4, <2>1, <3>1
      <4> QED BY <1>1, <1>5, <2>1, <3>1, <4>1
    <3> QED BY <3>2, <3>3
  <2>2. CASE i >= k
    <3>1. i + 1 \in 1 .. n /\ new[i] = s[i + 1] /\ s[i + 1] \in Node
      <4>1. n \in Nat /\ i + 1 \in 1 .. n
        <5>1. n \in Nat
          BY <1>1
        <5> QED BY <5>1
      <4>2. new[i] = s[i + 1]
        BY <1>2, <2>2
      <4>3. \A j \in 1 .. n : s[j] \in Node
        BY <1>1
      <4> QED BY <4>1, <4>2, <4>3
    <3>2. GetNext(new[i])' = At(new, i + 1)
      <4>1. GetNext(new[i])' = At(s, i + 2)
        BY <1>1, <1>3, <1>4, <2>2, <3>1
      <4> QED BY <1>1, <1>5, <2>2, <3>1, <4>1
    <3>3. GetPrevious(new[i])' = At(new, i - 1)
      <4>1. CASE i = k
        <5>1. GetPrevious(new[i])' = p /\ p = At(s, i - 1)
          BY <1>1, <1>3, <1>4, <3>1, <4>1 DEF p
        <5> QED BY <1>1, <1>5, <4>1, <5>1
      <4>2. CASE i # k
        <5>1. GetPrevious(new[i])' = At(s, i)
          BY <1>1, <1>3, <1>4, <3>1, <4>2
        <5> QED BY <1>1, <1>5, <2>2, <4>2, <5>1
      <4> QED BY <4>1, <4>2
    <3> QED BY <3>2, <3>3
  <2> QED BY <1>1, <2>1, <2>2
<1>10. Len(new) = count_'
  BY <1>0, <1>2, <1>3
<1>11. IsChain(new)'
  BY <1>2, <1>6, <1>7, <1>8, <1>9, <1>10 DEF IsChain
<1> QED BY <1>11 DEF new

(* In the next state, too.                                                 *)
LEMMA ListOf == \A s : IsChain(s) => list = s
BY ListIs

LEMMA ListNextState == (\A s : IsChain(s) => list = s)'
BY ListOf, PTL

LEMMA ListIsNext ==
  ASSUME NEW s, IsChain(s)'
  PROVE  list' = s
<1>1. \A r : IsChain(r)' => list' = r
  BY ListNextState
<1> QED BY <1>1

-----------------------------------------------------------------------------
(* The operations of the promise.                                          *)

(* What the promised list is after each operation.                         *)
LEMMA InsertedIs ==
  ASSUME NEW s \in Seq(Node), NEW node \in Node, NEW k \in 0 .. Len(s), NEW new \in Seq(Node),
         Len(new) = Len(s) + 1,
         \A i \in 1 .. k : new[i] = s[i],
         new[k + 1] = node,
         \A i \in k + 1 .. Len(s) : new[i + 1] = s[i]
  PROVE  new = Inserted(s, k, node)
<1> DEFINE n == Len(s)
           value(i) == IF i <= k THEN s[i] ELSE IF i = k + 1 THEN node ELSE s[i - 1]
<1>1. /\ n \in Nat /\ k \in 0 .. n /\ new = [i \in 1 .. n + 1 |-> new[i]]
      /\ \A i \in 1 .. k : new[i] = s[i]
      /\ new[k + 1] = node
      /\ \A i \in k + 1 .. n : new[i + 1] = s[i]
  OBVIOUS
<1>2. Inserted(s, k, node) = [i \in 1 .. n + 1 |-> value(i)]
  BY DEF Inserted
<1> HIDE DEF n, value
<1>3. ASSUME NEW i \in 1 .. n + 1 PROVE new[i] = value(i)
  <2>1. CASE i <= k
    <3>1. i \in 1 .. k
      BY <1>1, <2>1
    <3>2. value(i) = s[i]
      BY <2>1 DEF value
    <3> QED BY <1>1, <3>1, <3>2
  <2>2. CASE i = k + 1
    <3>1. value(i) = node
      BY <1>1, <2>2 DEF value
    <3> QED BY <1>1, <2>2, <3>1
  <2>3. CASE i > k + 1
    <3>1. i - 1 \in k + 1 .. n /\ (i - 1) + 1 = i
      BY <1>1, <2>3
    <3>2. new[i] = s[i - 1]
      BY <1>1, <3>1
    <3>3. value(i) = s[i - 1]
      BY <1>1, <2>3 DEF value
    <3> QED BY <3>2, <3>3
  <2> QED BY <1>1, <2>1, <2>2, <2>3
<1>4. [i \in 1 .. n + 1 |-> new[i]] = [i \in 1 .. n + 1 |-> value(i)]
  BY <1>3
<1> QED BY <1>1, <1>2, <1>4

LEMMA RemovedIs ==
  ASSUME NEW s \in Seq(Node), NEW k \in 1 .. Len(s), NEW new \in Seq(Node),
         Len(new) = Len(s) - 1,
         \A i \in 1 .. k - 1 : new[i] = s[i],
         \A i \in k .. Len(s) - 1 : new[i] = s[i + 1]
  PROVE  new = Removed(s, k)
<1> DEFINE n == Len(s)
           value(i) == IF i < k THEN s[i] ELSE s[i + 1]
<1>1. /\ n \in Nat /\ k \in 1 .. n /\ new = [i \in 1 .. n - 1 |-> new[i]]
      /\ \A i \in 1 .. k - 1 : new[i] = s[i]
      /\ \A i \in k .. n - 1 : new[i] = s[i + 1]
  OBVIOUS
<1>2. Removed(s, k) = [i \in 1 .. n - 1 |-> value(i)]
  BY DEF Removed
<1> HIDE DEF n, value
<1>3. ASSUME NEW i \in 1 .. n - 1 PROVE new[i] = value(i)
  <2>1. CASE i < k
    <3>1. i \in 1 .. k - 1 /\ value(i) = s[i]
      BY <1>1, <2>1 DEF value
    <3> QED BY <1>1, <3>1
  <2>2. CASE i >= k
    <3>1. i \in k .. n - 1 /\ value(i) = s[i + 1]
      BY <1>1, <2>2 DEF value
    <3> QED BY <1>1, <3>1
  <2> QED BY <1>1, <2>1, <2>2
<1>4. [i \in 1 .. n - 1 |-> new[i]] = [i \in 1 .. n - 1 |-> value(i)]
  BY <1>3
<1> QED BY <1>1, <1>2, <1>4

LEMMA ConsIs ==
  ASSUME NEW s \in Seq(Node), NEW node \in Node
  PROVE  Promise!Seqs!Cons(node, s) = Inserted(s, 0, node)
<1> DEFINE new == <<node>> \o s
<1>1. Len(s) \in Nat /\ 0 \in 0 .. Len(s)
  OBVIOUS
<1>2. /\ new \in Seq(Node) /\ Len(new) = Len(s) + 1
      /\ \A i \in 1 .. 0 : new[i] = s[i]
      /\ new[0 + 1] = node
      /\ \A i \in 0 + 1 .. Len(s) : new[i + 1] = s[i]
  OBVIOUS
<1> HIDE DEF new
<1>3. new = Inserted(s, 0, node)
  BY <1>1, <1>2, InsertedIs
<1> QED BY <1>3 DEF new, Promise!Seqs!Cons

LEMMA AppendIs ==
  ASSUME NEW s \in Seq(Node), NEW node \in Node
  PROVE  Append(s, node) = Inserted(s, Len(s), node)
<1> DEFINE new == Append(s, node)
           n == Len(s)
<1>1. /\ n \in Nat /\ new \in Seq(Node) /\ Len(new) = n + 1
      /\ \A i \in 1 .. n : new[i] = s[i]
      /\ new[n + 1] = node
  OBVIOUS
<1>2. n \in 0 .. n /\ \A i \in n + 1 .. n : new[i + 1] = s[i]
  BY <1>1
<1> HIDE DEF new
<1> QED BY <1>1, <1>2, InsertedIs DEF new

LEMMA SubSeqFacts ==
  ASSUME NEW s \in Seq(Node), NEW a \in 1 .. Len(s) + 1, NEW b \in 0 .. Len(s), b >= a - 1
  PROVE  /\ SubSeq(s, a, b) \in Seq(Node) /\ Len(SubSeq(s, a, b)) = b - a + 1
         /\ \A i \in 1 .. b - a + 1 : SubSeq(s, a, b)[i] = s[a + i - 1]
<1>1. Len(s) \in Nat /\ \A i \in 1 .. Len(s) : s[i] \in Node
  OBVIOUS
<1>2. a \in Int /\ b \in Int /\ \A i \in a .. b : s[i] \in Node
  BY <1>1
<1>3. /\ SubSeq(s, a, b) \in Seq(Node)
      /\ Len(SubSeq(s, a, b)) = IF a <= b THEN b - a + 1 ELSE 0
      /\ \A i \in 1 .. b - a + 1 : SubSeq(s, a, b)[i] = s[a + i - 1]
  BY <1>2, SubSeqProperties
<1> QED BY <1>1, <1>2, <1>3

LEMMA FrontPart ==
  ASSUME NEW s \in Seq(Node), NEW k \in 0 .. Len(s)
  PROVE  /\ SubSeq(s, 1, k) \in Seq(Node) /\ Len(SubSeq(s, 1, k)) = k
         /\ \A i \in 1 .. k : SubSeq(s, 1, k)[i] = s[i]
<1> DEFINE part == SubSeq(s, 1, k)
<1>1. Len(s) \in Nat
  OBVIOUS
<1>2. 1 \in 1 .. Len(s) + 1 /\ k >= 1 - 1
  BY <1>1
<1>3. /\ part \in Seq(Node) /\ Len(part) = k - 1 + 1
      /\ \A i \in 1 .. k - 1 + 1 : part[i] = s[1 + i - 1]
  BY <1>2, SubSeqFacts
<1> HIDE DEF part
<1>4. k - 1 + 1 = k /\ \A i \in 1 .. k : 1 + i - 1 = i
  BY <1>1
<1>5. \A i \in 1 .. k : part[i] = s[i]
  <2> TAKE i \in 1 .. k
  <2>1. i \in 1 .. k - 1 + 1
    BY <1>4
  <2>2. part[i] = s[1 + i - 1]
    BY <1>3, <2>1
  <2> QED BY <1>4, <2>2
<1> QED BY <1>3, <1>4, <1>5 DEF part

LEMMA BackPart ==
  ASSUME NEW s \in Seq(Node), NEW k \in 0 .. Len(s)
  PROVE  /\ SubSeq(s, k + 1, Len(s)) \in Seq(Node) /\ Len(SubSeq(s, k + 1, Len(s))) = Len(s) - k
         /\ \A i \in 1 .. Len(s) - k : SubSeq(s, k + 1, Len(s))[i] = s[k + i]
<1> DEFINE part == SubSeq(s, k + 1, Len(s))
           n == Len(s)
<1>1. n \in Nat /\ k \in 0 .. n
  OBVIOUS
<1>2. k + 1 \in 1 .. n + 1 /\ n \in 0 .. n /\ n >= k + 1 - 1
  BY <1>1
<1>3. /\ part \in Seq(Node) /\ Len(part) = n - (k + 1) + 1
      /\ \A i \in 1 .. n - (k + 1) + 1 : part[i] = s[k + 1 + i - 1]
  BY <1>2, SubSeqFacts
<1> HIDE DEF part, n
<1>4. n - (k + 1) + 1 = n - k /\ \A i \in 1 .. n - k : k + 1 + i - 1 = k + i
  BY <1>1
<1>5. \A i \in 1 .. n - k : part[i] = s[k + i]
  <2> TAKE i \in 1 .. n - k
  <2>1. i \in 1 .. n - (k + 1) + 1
    BY <1>4
  <2>2. part[i] = s[k + 1 + i - 1]
    BY <1>3, <2>1
  <2> QED BY <1>4, <2>2
<1> QED BY <1>3, <1>4, <1>5 DEF part, n

LEMMA InsertAtIs ==
  ASSUME NEW s \in Seq(Node), NEW node \in Node, NEW k \in 1 .. Len(s)
  PROVE  Promise!Seqs!InsertAt(s, k + 1, node) = Inserted(s, k, node)
<1> DEFINE n == Len(s)
           before == SubSeq(s, 1, k)
           after == SubSeq(s, k + 1, n)
           head == Append(before, node)
           new == head \o after
<1>1. n \in Nat /\ k \in 1 .. n /\ k \in 0 .. n
  OBVIOUS
<1>2. before \in Seq(Node) /\ Len(before) = k /\ \A i \in 1 .. k : before[i] = s[i]
  BY <1>1, FrontPart
<1>3. after \in Seq(Node) /\ Len(after) = n - k /\ \A i \in 1 .. n - k : after[i] = s[k + i]
  BY <1>1, BackPart
<1> HIDE DEF before, after, n
<1>4. /\ head \in Seq(Node) /\ Len(head) = k + 1
      /\ \A i \in 1 .. k : head[i] = s[i]
      /\ head[k + 1] = node
      /\ head = before \o <<node>>
  <2>1. /\ head \in Seq(Node) /\ Len(head) = k + 1
        /\ \A i \in 1 .. k : head[i] = before[i]
        /\ head[k + 1] = node
    BY <1>1, <1>2
  <2>2. head = before \o <<node>>
    BY <1>2
  <2> HIDE DEF head
  <2> QED BY <1>2, <2>1, <2>2
<1> HIDE DEF head
<1>5. /\ new \in Seq(Node) /\ Len(new) = Len(head) + Len(after)
      /\ \A i \in 1 .. Len(head) + Len(after) :
           new[i] = IF i <= Len(head) THEN head[i] ELSE after[i - Len(head)]
  BY <1>3, <1>4, ConcatProperties
<1> HIDE DEF new
<1>6. Len(new) = n + 1
  <2>1. Len(new) = Len(head) + Len(after) /\ Len(head) = k + 1 /\ Len(after) = n - k
    BY <1>3, <1>4, <1>5
  <2> QED BY <1>1, <2>1
<1>7. ASSUME NEW i \in 1 .. k PROVE new[i] = s[i]
  <2>1. i \in 1 .. Len(head) + Len(after) /\ i <= Len(head)
    BY <1>1, <1>3, <1>4
  <2>2. new[i] = head[i]
    BY <1>5, <2>1
  <2> QED BY <1>4, <2>2
<1>8. new[k + 1] = node
  <2>1. k + 1 \in 1 .. Len(head) + Len(after) /\ k + 1 <= Len(head)
    BY <1>1, <1>3, <1>4
  <2>2. new[k + 1] = head[k + 1]
    BY <1>5, <2>1
  <2> QED BY <1>4, <2>2
<1>9. ASSUME NEW i \in k + 1 .. n PROVE new[i + 1] = s[i]
  <2>1. i + 1 \in 1 .. Len(head) + Len(after) /\ ~ (i + 1 <= Len(head))
        /\ i + 1 - Len(head) = i - k /\ i - k \in 1 .. n - k /\ k + (i - k) = i
    <3>1. Len(head) = k + 1 /\ Len(after) = n - k
      BY <1>3, <1>4
    <3> QED BY <1>1, <3>1
  <2> DEFINE j == i + 1
  <2>2. new[j] = after[j - Len(head)]
    <3>1. j \in 1 .. Len(head) + Len(after) /\ ~ (j <= Len(head))
      BY <2>1
    <3> HIDE DEF j
    <3> QED BY <1>5, <3>1
  <2>3. after[i - k] = s[k + (i - k)]
    BY <1>3, <2>1
  <2> QED BY <2>1, <2>2, <2>3
<1>10. new = Inserted(s, k, node)
  BY <1>1, <1>5, <1>6, <1>7, <1>8, <1>9, InsertedIs DEF n
<1>11. k + 1 - 1 = k
  BY <1>1
<1>12. Promise!Seqs!InsertAt(s, k + 1, node) = (before \o <<node>>) \o after
  <2> DEFINE j == k + 1
             i == j - 1
  <2>1. i = k
    BY <1>11
  <2>2. Promise!Seqs!InsertAt(s, j, node) = (SubSeq(s, 1, i) \o <<node>>) \o SubSeq(s, j, Len(s))
    <3> HIDE DEF j
    <3> QED BY DEF Promise!Seqs!InsertAt
  <2>3. SubSeq(s, 1, i) = before
    <3> HIDE DEF i
    <3> QED BY <2>1 DEF before
  <2>4. SubSeq(s, j, Len(s)) = after
    BY DEF n, after
  <2> HIDE DEF i
  <2> QED BY <2>2, <2>3, <2>4
<1>13. new = (before \o <<node>>) \o after
  BY <1>4 DEF new
<1> QED BY <1>10, <1>12, <1>13

LEMMA RemoveAtIs ==
  ASSUME NEW s \in Seq(Node), NEW k \in 1 .. Len(s)
  PROVE  Promise!Seqs!RemoveAt(s, k) = Removed(s, k)
<1> DEFINE n == Len(s)
           before == SubSeq(s, 1, k - 1)
           after == SubSeq(s, k + 1, n)
           new == before \o after
<1>1. n \in Nat /\ k \in 1 .. n /\ k \in 0 .. n /\ k - 1 \in 0 .. n
  OBVIOUS
<1>2. before \in Seq(Node) /\ Len(before) = k - 1 /\ \A i \in 1 .. k - 1 : before[i] = s[i]
  BY <1>1, FrontPart
<1>3. after \in Seq(Node) /\ Len(after) = n - k /\ \A i \in 1 .. n - k : after[i] = s[k + i]
  BY <1>1, BackPart
<1> HIDE DEF before, after, n
<1>4. /\ new \in Seq(Node) /\ Len(new) = Len(before) + Len(after)
      /\ \A i \in 1 .. Len(before) + Len(after) :
           new[i] = IF i <= Len(before) THEN before[i] ELSE after[i - Len(before)]
  BY <1>2, <1>3, ConcatProperties
<1> HIDE DEF new
<1>5. Len(new) = n - 1
  BY <1>1, <1>2, <1>3, <1>4
<1>6. ASSUME NEW i \in 1 .. k - 1 PROVE new[i] = s[i]
  <2>1. i \in 1 .. Len(before) + Len(after) /\ i <= Len(before)
    BY <1>1, <1>2, <1>3
  <2>2. new[i] = before[i]
    BY <1>4, <2>1
  <2> QED BY <1>2, <2>2
<1>7. ASSUME NEW i \in k .. n - 1 PROVE new[i] = s[i + 1]
  <2>1. i \in 1 .. Len(before) + Len(after) /\ ~ (i <= Len(before))
        /\ i - Len(before) = i - (k - 1) /\ i - (k - 1) \in 1 .. n - k /\ k + (i - (k - 1)) = i + 1
    BY <1>1, <1>2, <1>3
  <2>2. new[i] = after[i - Len(before)]
    BY <1>4, <2>1
  <2>3. after[i - (k - 1)] = s[k + (i - (k - 1))]
    BY <1>3, <2>1
  <2> QED BY <2>1, <2>2, <2>3
<1>8. new = Removed(s, k)
  BY <1>1, <1>4, <1>5, <1>6, <1>7, RemovedIs DEF n
<1> QED BY <1>8 DEF n, new, before, after, Promise!Seqs!RemoveAt

LEMMA TailIs ==
  ASSUME NEW s \in Seq(Node), s # <<>>
  PROVE  /\ Tail(s) = Removed(s, 1) /\ Head(s) = s[1]
         /\ Promise!Seqs!Front(s) = Removed(s, Len(s)) /\ Promise!Seqs!Last(s) = s[Len(s)]
<1>1. Len(s) \in Nat \ {0} /\ Head(s) = s[1] /\ 1 \in 1 .. Len(s) /\ Len(s) \in 1 .. Len(s)
  OBVIOUS
<1>2. Tail(s) = Removed(s, 1)
  <2>1. /\ Tail(s) \in Seq(Node) /\ Len(Tail(s)) = Len(s) - 1
        /\ \A i \in 1 .. Len(s) - 1 : Tail(s)[i] = s[i + 1]
    BY <1>1
  <2>2. \A i \in 1 .. 1 - 1 : Tail(s)[i] = s[i]
    OBVIOUS
  <2> QED BY <1>1, <2>1, <2>2, RemovedIs
<1>3. SubSeq(s, 1, Len(s) - 1) = Removed(s, Len(s))
  <2> DEFINE n == Len(s)
             front == SubSeq(s, 1, n - 1)
  <2>1. n \in Nat \ {0} /\ n - 1 \in 0 .. n
    BY <1>1
  <2>2. front \in Seq(Node) /\ Len(front) = n - 1 /\ \A i \in 1 .. n - 1 : front[i] = s[i]
    BY <2>1, FrontPart
  <2> HIDE DEF front
  <2>3. \A i \in n .. n - 1 : front[i] = s[i + 1]
    BY <2>1
  <2>4. front = Removed(s, n)
    BY <1>1, <2>2, <2>3, RemovedIs
  <2> QED BY <2>4 DEF front
<1> QED BY <1>1, <1>2, <1>3 DEF Promise!Seqs!Front, Promise!Seqs!Last

(* The operations on a list whose pointers are those of the sequence s.    *)
LEMMA AddFirstStep ==
  ASSUME LinksTyped, NEW s, IsChain(s), NEW node \in Node, node \notin InList(s), AddFirst(node)
  PROVE  LinksTyped' /\ DataSame /\ IsChain(Inserted(s, 0, node))'
<1>1. /\ Len(s) \in Nat /\ 0 \in 0 .. Len(s) /\ first_ \in Pointer
      /\ first_ = At(s, 0 + 1) /\ NoNode = At(s, 0) /\ first_ # node
  <2>1. /\ count_ \in Nat /\ Len(s) = count_ /\ DOMAIN s = 1 .. count_
        /\ At(s, 1) \in Pointer /\ At(s, 0) = NoNode /\ first_ = At(s, 1)
    BY ChainFacts
  <2>2. first_ # node
    BY <2>1, NoNodeAssumption DEF At, InList
  <2> QED BY <2>1, <2>2
<1>2. LinksTyped' /\ DataSame /\ Links(NoNode, node, first_)
  BY <1>1, AddFirstLinks
<1> QED BY <1>1, <1>2, InsertChain

LEMMA AddLastStep ==
  ASSUME LinksTyped, NEW s, IsChain(s), NEW node \in Node, node \notin InList(s), AddLast(node)
  PROVE  LinksTyped' /\ DataSame /\ IsChain(Inserted(s, Len(s), node))'
<1>1. /\ Len(s) \in 0 .. Len(s) /\ last_ \in Pointer
      /\ last_ = At(s, Len(s)) /\ NoNode = At(s, Len(s) + 1) /\ last_ # node
      /\ first_ = NoNode <=> last_ = NoNode
  <2>1. /\ count_ \in Nat /\ Len(s) = count_ /\ DOMAIN s = 1 .. count_
        /\ \A i \in Int : (At(s, i) = NoNode <=> i \notin 1 .. count_) /\ At(s, i) \in Pointer
        /\ first_ = At(s, 1) /\ last_ = At(s, count_)
    BY ChainFacts
  <2>2. last_ # node
    BY <2>1, NoNodeAssumption DEF At, InList
  <2> QED BY <2>1, <2>2
<1>2. LinksTyped' /\ DataSame /\ Links(last_, node, NoNode)
  BY <1>1, AddLastLinks
<1> QED BY <1>1, <1>2, InsertChain

LEMMA AddAfterStep ==
  ASSUME LinksTyped, NEW s, IsChain(s), NEW k \in 1 .. Len(s),
         NEW node \in Node, node \notin InList(s), AddAfter(s[k], node)
  PROVE  LinksTyped' /\ DataSame /\ IsChain(Inserted(s, k, node))'
<1>1. /\ k \in 0 .. Len(s) /\ s[k] \in Node /\ s[k] = At(s, k) /\ s[k] # node
      /\ GetNext(s[k]) = At(s, k + 1) /\ GetNext(s[k]) \in Pointer /\ GetNext(s[k]) # node
  <2>1. /\ count_ \in Nat /\ Len(s) = count_ /\ DOMAIN s = 1 .. count_
        /\ s[k] \in Node /\ At(s, k) = s[k]
        /\ At(s, k + 1) \in Pointer /\ GetNext(s[k]) = At(s, k + 1)
    BY ChainFacts
  <2>2. At(s, k + 1) # node /\ s[k] # node
    BY <2>1, NoNodeAssumption DEF At, InList
  <2> QED BY <2>1, <2>2
<1>2. LinksTyped' /\ DataSame /\ Links(s[k], node, GetNext(s[k]))
  BY <1>1, AddAfterLinks
<1> QED BY <1>1, <1>2, InsertChain

LEMMA RemoveStep ==
  ASSUME LinksTyped, NEW s, IsChain(s), NEW k \in 1 .. Len(s), Remove(s[k])
  PROVE  LinksTyped' /\ DataSame /\ IsChain(Removed(s, k))'
<1>1. /\ s[k] \in Node /\ GetNext(s[k]) = At(s, k + 1) /\ GetPrevious(s[k]) = At(s, k - 1)
  <2>1. Len(s) = count_
    BY ChainFacts
  <2> QED BY <2>1, ChainFacts
<1>2. LinksTyped' /\ DataSame /\ Unlinks(GetPrevious(s[k]), GetNext(s[k]))
  BY <1>1, RemoveLinks
<1> QED BY <1>1, <1>2, RemoveChain

LEMMA RemoveFirstStep ==
  ASSUME LinksTyped, NEW s, IsChain(s), RemoveFirst
  PROVE  /\ LinksTyped' /\ DataSame /\ IsChain(Removed(s, 1))'
         /\ s # <<>> /\ first_ = s[1]
<1>1. /\ count_ \in Nat /\ Len(s) = count_ /\ 1 \in 1 .. count_ /\ s # <<>>
  <2>1. count_ \in Nat /\ Len(s) = count_ /\ count_ > 0
    BY ChainFacts DEF RemoveFirst
  <2> QED BY <2>1
<1>2. /\ first_ = s[1] /\ s[1] \in Node
      /\ GetNext(s[1]) = At(s, 1 + 1) /\ NoNode = At(s, 1 - 1)
  <2>1. /\ first_ = At(s, 1) /\ At(s, 1) = s[1] /\ s[1] \in Node
        /\ GetNext(s[1]) = At(s, 1 + 1)
    BY <1>1, ChainFacts
  <2>2. 1 - 1 \in Int /\ 1 - 1 \notin 1 .. count_
    BY <1>1
  <2>3. At(s, 1 - 1) = NoNode
    BY <2>2, ChainFacts
  <2> QED BY <2>1, <2>3
<1>3. LinksTyped' /\ DataSame /\ Unlinks(NoNode, GetNext(first_))
  BY <1>2, RemoveFirstLinks
<1>4. 1 \in 1 .. Len(s) /\ Unlinks(At(s, 1 - 1), At(s, 1 + 1))
  BY <1>1, <1>2, <1>3
<1> QED BY <1>1, <1>2, <1>3, <1>4, RemoveChain

LEMMA RemoveLastStep ==
  ASSUME LinksTyped, NEW s, IsChain(s), RemoveLast
  PROVE  /\ LinksTyped' /\ DataSame /\ IsChain(Removed(s, Len(s)))'
         /\ s # <<>> /\ last_ = s[Len(s)]
<1>1. /\ count_ \in Nat /\ Len(s) = count_ /\ count_ \in 1 .. count_ /\ 1 \in 1 .. count_ /\ s # <<>>
  <2>1. count_ \in Nat /\ Len(s) = count_ /\ count_ > 0
    BY ChainFacts DEF RemoveLast
  <2> QED BY <2>1
<1>2. /\ last_ = s[count_] /\ s[count_] \in Node /\ first_ = s[1]
      /\ GetPrevious(s[count_]) = At(s, count_ - 1)
  BY <1>1, ChainFacts
<1>3. NoNode = At(s, count_ + 1)
  <2>1. count_ + 1 \in Int /\ count_ + 1 \notin 1 .. count_
    BY <1>1
  <2> QED BY <2>1, ChainFacts
<1>4. first_ = last_ <=> GetPrevious(last_) = NoNode
  <2>1. count_ - 1 \in Int /\ (count_ - 1 \notin 1 .. count_ <=> count_ = 1)
    BY <1>1
  <2>2. At(s, count_ - 1) = NoNode <=> count_ = 1
    BY <2>1, ChainFacts
  <2>3. s[1] = s[count_] <=> count_ = 1
    BY <1>1, ChainFacts
  <2> QED BY <1>2, <2>2, <2>3
<1>5. LinksTyped' /\ DataSame /\ Unlinks(GetPrevious(last_), NoNode)
  BY <1>2, <1>4, RemoveLastLinks
<1>6. Len(s) \in 1 .. Len(s) /\ Unlinks(At(s, Len(s) - 1), At(s, Len(s) + 1))
  BY <1>1, <1>2, <1>3, <1>5
<1> QED BY <1>1, <1>2, <1>5, <1>6, RemoveChain

LEMMA SetDataStep ==
  ASSUME LinksTyped, NEW s, IsChain(s), NEW node \in Node, NEW data \in NodeData, SetData(node, data)
  PROVE  LinksTyped' /\ IsChain(s)'
<1>1. /\ Next_' = [Next_ EXCEPT ![node] = [Data |-> data, Pointer |-> Next_[node].Pointer]]
      /\ UNCHANGED <<first_, last_, count_, Previous, call>>
  BY DEF SetData, Word
<1>2. LinksTyped' /\ \A n \in Node : GetNext(n)' = GetNext(n) /\ GetPrevious(n)' = GetPrevious(n)
  BY <1>1 DEF LinksTyped, GetNext, GetPrevious
<1>3. \A i \in DOMAIN s : s[i] \in Node
  BY DEF IsChain
<1> QED BY <1>1, <1>2, <1>3 DEF IsChain

LEMMA SameStep ==
  ASSUME LinksTyped, NEW s, IsChain(s), UNCHANGED listVars
  PROVE  LinksTyped' /\ IsChain(s)' /\ DataSame
BY DEF listVars, LinksTyped, IsChain, DataSame, GetNext, GetPrevious

CallTyped ==
  call \in {"none", "AddFirst", "AddLast", "AddAfter", "Remove",
            "RemoveFirst", "RemoveLast"} \X Pointer

(* A step that takes the list from the sequence s to r, as it promised.    *)
Moves(s, r) ==
  /\ LinksTyped' /\ IsChain(r)' /\ CallTyped'
  /\ DataSame \/ r = s
  /\ [Promise!Next]_<<list, call>>

LEMMA ListFacts ==
  ASSUME NEW s, IsChain(s)
  PROVE  /\ s \in Seq(Node) /\ Len(s) \in Nat /\ DOMAIN s = 1 .. Len(s) /\ Len(s) = count_
         /\ list = s /\ Promise!Outside = Node \ InList(s)
         /\ Listed = InList(s)
<1>1. /\ s \in Seq(Node) /\ DOMAIN s = 1 .. count_ /\ Len(s) = count_ /\ count_ \in Nat
      /\ \A i \in 1 .. count_ : s[i] \in Node
  BY ChainFacts DEF IsChain
<1>2. list = s
  BY ListIs
<1> HIDE DEF list
<1> QED BY <1>1, <1>2 DEF Promise!Outside, Promise!Seqs!ToSet, InList, Listed

LEMMA AddFirstMoves ==
  ASSUME LinksTyped, NEW s, IsChain(s), NEW node \in Node, node \notin InList(s), AddFirst(node)
  PROVE  Moves(s, Inserted(s, 0, node))
<1>1. LinksTyped' /\ DataSame /\ IsChain(Inserted(s, 0, node))'
  BY AddFirstStep
<1>2. list = s /\ list' = Inserted(s, 0, node) /\ node \in Promise!Outside
  BY <1>1, ListFacts, ListIsNext
<1>3. call' = <<"AddFirst", node>>
  BY DEF AddFirst
<1> HIDE DEF list
<1>4. list' = Promise!Seqs!Cons(node, list)
  BY <1>2, ListFacts, ConsIs
<1>5. Promise!Next
  BY <1>2, <1>3, <1>4 DEF Promise!Next, Promise!AddFirst
<1> QED BY <1>1, <1>3, <1>5 DEF Moves, CallTyped, Pointer

LEMMA AddLastMoves ==
  ASSUME LinksTyped, NEW s, IsChain(s), NEW node \in Node, node \notin InList(s), AddLast(node)
  PROVE  Moves(s, Inserted(s, Len(s), node))
<1>1. LinksTyped' /\ DataSame /\ IsChain(Inserted(s, Len(s), node))'
  BY AddLastStep
<1>2. list = s /\ list' = Inserted(s, Len(s), node) /\ node \in Promise!Outside
  BY <1>1, ListFacts, ListIsNext
<1>3. call' = <<"AddLast", node>>
  BY DEF AddLast
<1> HIDE DEF list
<1>4. list' = Append(list, node)
  BY <1>2, ListFacts, AppendIs
<1>5. Promise!Next
  BY <1>2, <1>3, <1>4 DEF Promise!Next, Promise!AddLast
<1> QED BY <1>1, <1>3, <1>5 DEF Moves, CallTyped, Pointer

LEMMA AddAfterMoves ==
  ASSUME LinksTyped, NEW s, IsChain(s), NEW k \in 1 .. Len(s),
         NEW node \in Node, node \notin InList(s), AddAfter(s[k], node)
  PROVE  Moves(s, Inserted(s, k, node))
<1>1. LinksTyped' /\ DataSame /\ IsChain(Inserted(s, k, node))'
  BY AddAfterStep
<1>2. list = s /\ list' = Inserted(s, k, node) /\ node \in Promise!Outside
  BY <1>1, ListFacts, ListIsNext
<1>3. call' = <<"AddAfter", node>>
  BY DEF AddAfter
<1> HIDE DEF list
<1>4. list' = Promise!Seqs!InsertAt(list, k + 1, node) /\ k \in DOMAIN list
  BY <1>2, ListFacts, InsertAtIs
<1>5. Promise!Next
  BY <1>2, <1>3, <1>4 DEF Promise!Next, Promise!AddAfter
<1> QED BY <1>1, <1>3, <1>5 DEF Moves, CallTyped, Pointer

LEMMA RemoveMoves ==
  ASSUME LinksTyped, NEW s, IsChain(s), NEW k \in 1 .. Len(s), Remove(s[k])
  PROVE  Moves(s, Removed(s, k))
<1>1. LinksTyped' /\ DataSame /\ IsChain(Removed(s, k))'
  BY RemoveStep
<1>2. list = s /\ list' = Removed(s, k) /\ k \in DOMAIN s /\ s[k] \in Node
  BY <1>1, ListFacts, ListIsNext
<1>3. call' = <<"Remove", s[k]>>
  BY DEF Remove
<1> HIDE DEF list
<1>4. list' = Promise!Seqs!RemoveAt(list, k) /\ k \in DOMAIN list
  BY <1>2, ListFacts, RemoveAtIs
<1>5. Promise!Next
  BY <1>2, <1>3, <1>4 DEF Promise!Next, Promise!Remove
<1> QED BY <1>1, <1>2, <1>3, <1>5 DEF Moves, CallTyped, Pointer

LEMMA RemoveFirstMoves ==
  ASSUME LinksTyped, NEW s, IsChain(s), RemoveFirst
  PROVE  Moves(s, Removed(s, 1))
<1>1. LinksTyped' /\ DataSame /\ IsChain(Removed(s, 1))' /\ s # <<>> /\ first_ = s[1]
  BY RemoveFirstStep
<1>2. list = s /\ list' = Removed(s, 1) /\ s \in Seq(Node) /\ s[1] \in Node
  BY <1>1, ListFacts, ListIsNext
<1>3. call' = <<"RemoveFirst", s[1]>>
  BY <1>1 DEF RemoveFirst
<1> HIDE DEF list
<1>4. list' = Tail(list) /\ Head(list) = s[1] /\ list # <<>>
  BY <1>1, <1>2, TailIs
<1>5. Promise!Next
  BY <1>3, <1>4 DEF Promise!Next, Promise!RemoveFirst
<1> QED BY <1>1, <1>2, <1>3, <1>5 DEF Moves, CallTyped, Pointer

LEMMA RemoveLastMoves ==
  ASSUME LinksTyped, NEW s, IsChain(s), RemoveLast
  PROVE  Moves(s, Removed(s, Len(s)))
<1>1. LinksTyped' /\ DataSame /\ IsChain(Removed(s, Len(s)))' /\ s # <<>> /\ last_ = s[Len(s)]
  BY RemoveLastStep
<1>2. list = s /\ list' = Removed(s, Len(s)) /\ s \in Seq(Node) /\ s[Len(s)] \in Node
  BY <1>1, ListFacts, ListIsNext
<1>3. call' = <<"RemoveLast", s[Len(s)]>>
  BY <1>1 DEF RemoveLast
<1> HIDE DEF list
<1>4. list' = Promise!Seqs!Front(list) /\ Promise!Seqs!Last(list) = s[Len(s)] /\ list # <<>>
  BY <1>1, <1>2, TailIs
<1>5. Promise!Next
  BY <1>3, <1>4 DEF Promise!Next, Promise!RemoveLast
<1> QED BY <1>1, <1>2, <1>3, <1>5 DEF Moves, CallTyped, Pointer

LEMMA SetDataMoves ==
  ASSUME LinksTyped, CallTyped, NEW s, IsChain(s),
         NEW node \in Node, NEW data \in NodeData, SetData(node, data)
  PROVE  Moves(s, s)
<1>1. LinksTyped' /\ IsChain(s)' /\ call' = call
  BY SetDataStep DEF SetData
<1>2. list = s /\ list' = s
  BY <1>1, ListFacts, ListIsNext
<1> HIDE DEF list
<1> QED BY <1>1, <1>2 DEF Moves, CallTyped

LEMMA SameMoves ==
  ASSUME LinksTyped, CallTyped, NEW s, IsChain(s), UNCHANGED listVars
  PROVE  Moves(s, s)
<1>1. LinksTyped' /\ IsChain(s)' /\ call' = call
  BY SameStep DEF listVars
<1>2. list = s /\ list' = s
  BY <1>1, ListFacts, ListIsNext
<1> HIDE DEF list
<1> QED BY <1>1, <1>2 DEF Moves, CallTyped

LEMMA ListNextMoves ==
  ASSUME LinksTyped, CallTyped, NEW s, IsChain(s), ListNext
  PROVE  \E r : Moves(s, r)
<1>1. Listed = InList(s) /\ DOMAIN s = 1 .. Len(s)
  BY ListFacts
<1>2. ASSUME NEW node \in Node \ Listed, AddFirst(node) PROVE \E r : Moves(s, r)
  BY <1>1, <1>2, AddFirstMoves
<1>3. ASSUME NEW node \in Node \ Listed, AddLast(node) PROVE \E r : Moves(s, r)
  BY <1>1, <1>3, AddLastMoves
<1>4. ASSUME NEW node \in Node \ Listed, NEW firstNode \in Listed, AddAfter(firstNode, node)
      PROVE  \E r : Moves(s, r)
  <2>1. PICK k \in 1 .. Len(s) : firstNode = s[k]
    BY <1>1 DEF InList
  <2> QED BY <1>1, <1>4, <2>1, AddAfterMoves
<1>5. ASSUME NEW node \in Listed, Remove(node) PROVE \E r : Moves(s, r)
  <2>1. PICK k \in 1 .. Len(s) : node = s[k]
    BY <1>1 DEF InList
  <2> QED BY <1>5, <2>1, RemoveMoves
<1>6. ASSUME RemoveFirst PROVE \E r : Moves(s, r)
  BY <1>6, RemoveFirstMoves
<1>7. ASSUME RemoveLast PROVE \E r : Moves(s, r)
  BY <1>7, RemoveLastMoves
<1>8. ASSUME NEW node \in Node, NEW data \in NodeData, SetData(node, data) PROVE \E r : Moves(s, r)
  BY <1>8, SetDataMoves
<1> QED BY <1>2, <1>3, <1>4, <1>5, <1>6, <1>7, <1>8 DEF ListNext

(* The nodes of the sequences.                                             *)
LEMMA InsertedNodes ==
  ASSUME NEW s \in Seq(Node), NEW k \in 0 .. Len(s), NEW node \in Node
  PROVE  InList(Inserted(s, k, node)) = InList(s) \cup {node}
<1> DEFINE new == Inserted(s, k, node)
           n == Len(s)
<1>1. n \in Nat /\ DOMAIN s = 1 .. n /\ DOMAIN new = 1 .. n + 1 /\ k \in 0 .. n
  BY DEF Inserted
<1>2. ASSUME NEW i \in 1 .. n + 1
      PROVE  /\ i <= k => new[i] = s[i]
             /\ i = k + 1 => new[i] = node
             /\ i > k + 1 => new[i] = s[i - 1]
  BY <1>1 DEF Inserted
<1> HIDE DEF new, n
<1>3. ASSUME NEW i \in 1 .. n + 1 PROVE new[i] \in InList(s) \cup {node}
  <2>1. CASE i <= k
    BY <1>1, <1>2, <2>1 DEF InList
  <2>2. CASE i = k + 1
    BY <1>2, <2>2
  <2>3. CASE i > k + 1
    <3>1. i - 1 \in 1 .. n
      BY <1>1, <2>3
    <3> QED BY <1>1, <1>2, <2>3, <3>1 DEF InList
  <2> QED BY <1>1, <2>1, <2>2, <2>3
<1>4. node \in InList(new)
  <2>1. k + 1 \in 1 .. n + 1
    BY <1>1
  <2>2. new[k + 1] = node
    BY <1>2, <2>1
  <2> QED BY <1>1, <2>1, <2>2 DEF InList
<1>5. ASSUME NEW i \in 1 .. n PROVE s[i] \in InList(new)
  <2>1. CASE i <= k
    <3>1. i \in 1 .. n + 1
      BY <1>1
    <3> QED BY <1>1, <1>2, <2>1, <3>1 DEF InList
  <2>2. CASE i > k
    <3>1. i + 1 \in 1 .. n + 1 /\ i + 1 > k + 1 /\ (i + 1) - 1 = i
      BY <1>1, <2>2
    <3>2. new[i + 1] = s[i]
      BY <1>2, <3>1
    <3> QED BY <1>1, <3>1, <3>2 DEF InList
  <2> QED BY <1>1, <2>1, <2>2
<1>6. InList(new) = InList(s) \cup {node}
  BY <1>1, <1>3, <1>4, <1>5 DEF InList
<1> QED BY <1>6 DEF new

LEMMA RemovedNodes ==
  ASSUME NEW s \in Seq(Node), Once(s), NEW k \in 1 .. Len(s)
  PROVE  InList(Removed(s, k)) = InList(s) \ {s[k]}
<1> DEFINE new == Removed(s, k)
           n == Len(s)
<1>1. n \in Nat /\ DOMAIN s = 1 .. n /\ DOMAIN new = 1 .. n - 1 /\ k \in 1 .. n
  BY DEF Removed
<1>2. ASSUME NEW i \in 1 .. n - 1
      PROVE  /\ i < k => new[i] = s[i]
             /\ i >= k => new[i] = s[i + 1]
  BY <1>1 DEF Removed
<1> HIDE DEF new, n
<1>3. ASSUME NEW i \in 1 .. n, NEW j \in 1 .. n, s[i] = s[j] PROVE i = j
  BY <1>1, <1>3 DEF Once
<1>4. ASSUME NEW i \in 1 .. n - 1 PROVE new[i] \in InList(s) \ {s[k]}
  <2>1. CASE i < k
    <3>1. i \in 1 .. n /\ i # k
      BY <1>1, <2>1
    <3> QED BY <1>1, <1>2, <1>3, <2>1, <3>1 DEF InList
  <2>2. CASE i >= k
    <3>1. i + 1 \in 1 .. n /\ i + 1 # k
      BY <1>1, <2>2
    <3> QED BY <1>1, <1>2, <1>3, <2>2, <3>1 DEF InList
  <2> QED BY <1>1, <2>1, <2>2
<1>5. ASSUME NEW i \in 1 .. n, s[i] # s[k] PROVE s[i] \in InList(new)
  <2>1. CASE i < k
    <3>1. i \in 1 .. n - 1
      BY <1>1, <2>1
    <3> QED BY <1>1, <1>2, <2>1, <3>1 DEF InList
  <2>2. CASE i > k
    <3>1. i - 1 \in 1 .. n - 1 /\ i - 1 >= k /\ (i - 1) + 1 = i
      BY <1>1, <2>2
    <3>2. new[i - 1] = s[i]
      BY <1>2, <3>1
    <3> QED BY <1>1, <3>1, <3>2 DEF InList
  <2> QED BY <1>1, <1>5, <2>1, <2>2
<1>6. InList(new) = InList(s) \ {s[k]}
  BY <1>1, <1>4, <1>5 DEF InList
<1> QED BY <1>6 DEF new

-----------------------------------------------------------------------------
(* The pool.                                                               *)

(* The blocks of the pool whose list is the sequence s, and the objects    *)
(* taken from a block.                                                     *)
BlocksOf(s) == InList(s) \cup (IF pc \in {"AddFirst", "AddAfter"} THEN {block} ELSE {})

Taken(b) == {i \in Bit : <<b, i>> \in used}

BlockSound(b) ==
  /\ Bitmap[b] = Bit \ Taken(b)
  /\ FreeObjects[b] + Cardinality(Taken(b)) = MaxObjectNumber

PoolTyped ==
  /\ Bitmap \in [Node -> SUBSET Bit]
  /\ FreeObjects \in [Node -> 0 .. MaxObjectNumber]
  /\ used \subseteq Object
  /\ pc \in {"idle", "AddFirst", "AddAfter", "crashed"}
  /\ block \in Pointer

UsedKnown(s) == \A object \in used : object[1] \in BlocksOf(s) /\ object[2] < MaxObjectNumber

(* The block that was removed comes back where a free object will be at    *)
(* the front.                                                              *)
MoveSound(s) ==
  /\ pc \in {"AddFirst", "AddAfter"} => block \in Node \ InList(s) /\ s # <<>>
  /\ pc = "AddFirst" => FreeObjects[block] > 0
  /\ pc = "AddAfter" => FreeObjects[s[1]] > 0

PoolSound(s) ==
  /\ PoolTyped
  /\ UsedKnown(s)
  /\ \A b \in BlocksOf(s) : BlockSound(b)
  /\ MoveSound(s)

LEMMA TakenFinite ==
  ASSUME NEW b
  PROVE  IsFiniteSet(Taken(b)) /\ Cardinality(Taken(b)) \in Nat
<1>1. BitmapSize - 1 \in Int /\ 0 \in Int
  BY BitmapSizeAssumption
<1>2. IsFiniteSet(Bit)
  BY <1>1, FS_Interval DEF Bit
<1>3. Taken(b) \subseteq Bit
  BY DEF Taken
<1> QED BY <1>2, <1>3, FS_Subset, FS_CardinalityType

(* The bit that the search finds is that of an object, if a free one is    *)
(* left: the bits without an object come behind.                           *)
LEMMA FirstFacts ==
  ASSUME NEW b \in Node, NEW free \in 1 .. MaxObjectNumber,
         free + Cardinality(Taken(b)) = MaxObjectNumber,
         \A i \in Taken(b) : i < MaxObjectNumber
  PROVE  LET i == First(Bit \ Taken(b))
         IN  i \in Bit \ Taken(b) /\ i < MaxObjectNumber
<1> DEFINE S == Bit \ Taken(b)
           Objects == 0 .. MaxObjectNumber - 1
<1>1. MaxObjectNumber \in Nat \ {0} /\ BitmapSize \in Nat /\ BitmapSize >= MaxObjectNumber
  BY MaxObjectNumberAssumption, BitmapSizeAssumption
<1>2. Objects \subseteq Bit /\ Bit \subseteq Int
  BY <1>1 DEF Bit
<1>3. PICK o \in Objects : o \notin Taken(b)
  <2> SUFFICES ASSUME Objects \subseteq Taken(b) PROVE FALSE
    OBVIOUS
  <2>1. Objects = Taken(b)
    BY <1>1 DEF Taken, Bit
  <2>2. Cardinality(Objects) = MaxObjectNumber
    <3> DEFINE top == MaxObjectNumber - 1
    <3>1. 0 \in Int /\ top \in Int /\ 0 <= top
      BY <1>1
    <3> HIDE DEF top
    <3>2. Cardinality(0 .. top) = IF 0 > top THEN 0 ELSE top - 0 + 1
      BY <3>1, FS_Interval
    <3>3. Cardinality(0 .. top) = top + 1
      BY <3>1, <3>2
    <3> QED BY <1>1, <3>3 DEF top
  <2> HIDE DEF Objects
  <2> QED BY <1>1, <2>1, <2>2
<1>4. \E i \in S : \A j \in S : i <= j
  <2>1. S \in SUBSET (0 .. BitmapSize - 1) /\ S # {} /\ BitmapSize \in Nat
    BY <1>1, <1>2, <1>3 DEF Bit
  <2> HIDE DEF S
  <2> QED BY <2>1, LeastExists
<1>5. First(S) \in S /\ \A j \in S : First(S) <= j
  <2> HIDE DEF S
  <2> QED BY <1>4 DEF First
<1>6. o \in S /\ o \in Int /\ o < MaxObjectNumber
  BY <1>1, <1>2, <1>3
<1> DEFINE f == First(S)
<1>7. f \in Int /\ f <= o
  BY <1>2, <1>5, <1>6
<1> HIDE DEF f
<1>8. f < MaxObjectNumber
  BY <1>1, <1>6, <1>7
<1> QED BY <1>5, <1>8 DEF f

(* GetObjectFromBlock and ReturnObjectToBlock keep the sums.               *)
LEMMA TakeSound ==
  ASSUME PoolTyped, NEW b \in Node, NEW free \in 1 .. MaxObjectNumber,
         free + Cardinality(Taken(b)) = MaxObjectNumber,
         \A object \in used : object[2] < MaxObjectNumber,
         GetObjectFromBlock(b, Bit \ Taken(b), free)
  PROVE  /\ Bitmap' \in [Node -> SUBSET Bit]
         /\ FreeObjects' \in [Node -> 0 .. MaxObjectNumber]
         /\ BlockSound(b)'
         /\ \A c \in Node \ {b} : BlockSound(c) => BlockSound(c)'
         /\ \E i \in Bit : /\ <<b, i>> \notin used /\ i < MaxObjectNumber
                           /\ used' = used \cup {<<b, i>>}
<1>1. \A i \in Taken(b) : i < MaxObjectNumber
  BY DEF Taken
<1>2. PICK i : i = First(Bit \ Taken(b))
  OBVIOUS
<1>3. i \in Bit /\ i \notin Taken(b) /\ i < MaxObjectNumber
  BY <1>1, <1>2, FirstFacts
<1>4. /\ Bitmap' = [Bitmap EXCEPT ![b] = (Bit \ Taken(b)) \ {i}]
      /\ FreeObjects' = [FreeObjects EXCEPT ![b] = free - 1]
      /\ used' = used \cup {<<b, i>>}
  BY <1>2 DEF GetObjectFromBlock
<1>5. Taken(b)' = Taken(b) \cup {i} /\ \A c \in Node \ {b} : Taken(c)' = Taken(c)
  BY <1>3, <1>4 DEF Taken
<1>6. Cardinality(Taken(b) \cup {i}) = Cardinality(Taken(b)) + 1
  BY <1>3, TakenFinite, FS_AddElement
<1>7. MaxObjectNumber \in Nat /\ Cardinality(Taken(b)) \in Nat /\ free - 1 \in 0 .. MaxObjectNumber
  BY MaxObjectNumberAssumption, TakenFinite
<1>8. FreeObjects' \in [Node -> 0 .. MaxObjectNumber] /\ Bitmap' \in [Node -> SUBSET Bit]
  BY <1>4, <1>7 DEF PoolTyped
<1>9. BlockSound(b)'
  <2>1. Bitmap'[b] = (Bit \ Taken(b)) \ {i} /\ FreeObjects'[b] = free - 1
    BY <1>4 DEF PoolTyped
  <2>2. Bitmap'[b] = Bit \ Taken(b)'
    BY <1>5, <2>1
  <2>3. FreeObjects'[b] + Cardinality(Taken(b)') = MaxObjectNumber
    <3> DEFINE n == Cardinality(Taken(b))
    <3>1. FreeObjects'[b] = free - 1 /\ Cardinality(Taken(b)') = n + 1
      BY <1>5, <1>6, <2>1
    <3> HIDE DEF n
    <3>2. n \in Nat /\ free + n = MaxObjectNumber
      BY <1>7 DEF n
    <3> QED BY <3>1, <3>2
  <2> QED BY <2>2, <2>3 DEF BlockSound
<1>10. ASSUME NEW c \in Node \ {b}, BlockSound(c) PROVE BlockSound(c)'
  BY <1>4, <1>5, <1>10 DEF BlockSound, PoolTyped
<1>11. <<b, i>> \notin used
  BY <1>3 DEF Taken
<1> QED BY <1>3, <1>4, <1>8, <1>9, <1>10, <1>11

LEMMA GiveSound ==
  ASSUME PoolTyped, NEW b \in Node, BlockSound(b), NEW i \in Bit, <<b, i>> \in used,
         ReturnObjectToBlock(b, i)
  PROVE  /\ Bitmap' \in [Node -> SUBSET Bit]
         /\ FreeObjects' \in [Node -> 0 .. MaxObjectNumber]
         /\ FreeObjects'[b] = FreeObjects[b] + 1
         /\ \A c \in Node \ {b} : FreeObjects'[c] = FreeObjects[c]
         /\ BlockSound(b)'
         /\ \A c \in Node \ {b} : BlockSound(c) => BlockSound(c)'
         /\ used' = used \ {<<b, i>>}
<1>1. /\ Bitmap' = [Bitmap EXCEPT ![b] = Bitmap[b] \cup {i}]
      /\ FreeObjects' = [FreeObjects EXCEPT ![b] = FreeObjects[b] + 1]
      /\ used' = used \ {<<b, i>>}
  BY DEF ReturnObjectToBlock
<1>2. /\ i \in Taken(b) /\ Taken(b)' = Taken(b) \ {i}
      /\ \A c \in Node \ {b} : Taken(c)' = Taken(c)
  BY <1>1 DEF Taken
<1> DEFINE n == Cardinality(Taken(b))
<1>3. n \in Nat \ {0} /\ Cardinality(Taken(b)') = n - 1
  <2>1. IsFiniteSet(Taken(b)) /\ n \in Nat
    BY TakenFinite
  <2>2. Cardinality(Taken(b) \ {i}) = n - 1
    BY <1>2, <2>1, FS_RemoveElement
  <2>3. n # 0
    BY <1>2, <2>1, FS_EmptySet
  <2> QED BY <1>2, <2>1, <2>2, <2>3
<1>4. /\ FreeObjects[b] \in 0 .. MaxObjectNumber /\ MaxObjectNumber \in Nat
      /\ FreeObjects[b] + n = MaxObjectNumber
      /\ FreeObjects'[b] = FreeObjects[b] + 1
  BY <1>1, MaxObjectNumberAssumption DEF PoolTyped, BlockSound
<1> HIDE DEF n
<1>5. FreeObjects'[b] \in 0 .. MaxObjectNumber /\ FreeObjects'[b] + (n - 1) = MaxObjectNumber
  BY <1>3, <1>4
<1>6. Bitmap' \in [Node -> SUBSET Bit] /\ FreeObjects' \in [Node -> 0 .. MaxObjectNumber]
  BY <1>1, <1>5 DEF PoolTyped
<1>7. BlockSound(b)'
  <2>1. Bitmap'[b] = (Bit \ Taken(b)) \cup {i}
    BY <1>1 DEF PoolTyped, BlockSound
  <2>2. Bitmap'[b] = Bit \ Taken(b)'
    BY <1>2, <2>1
  <2> QED BY <1>3, <1>5, <2>2 DEF BlockSound
<1>8. ASSUME NEW c \in Node \ {b} PROVE FreeObjects'[c] = FreeObjects[c] /\ Bitmap'[c] = Bitmap[c]
  BY <1>1 DEF PoolTyped
<1>9. ASSUME NEW c \in Node \ {b}, BlockSound(c) PROVE BlockSound(c)'
  BY <1>2, <1>8, <1>9 DEF BlockSound
<1> QED BY <1>1, <1>4, <1>6, <1>7, <1>8, <1>9

(* The pool can give an object after a return: ReturnMakesUsable's step.   *)
Usable ==
  (used' # used \/ pc # "idle") /\ used' \subseteq used /\ pc' = "idle"
    => FreeObjects'[first_'] > 0

LEMMA GetObjectSound ==
  ASSUME LinksTyped, CallTyped, NEW s, IsChain(s), PoolSound(s), GetObject
  PROVE  Moves(s, s) /\ PoolSound(s)' /\ Usable
<1>1. pc = "idle" /\ pc' = pc /\ block' = block /\ UNCHANGED listVars
      /\ count_ > 0 /\ FreeObjects[first_] > 0
      /\ GetObjectFromBlock(first_, Bitmap[first_], FreeObjects[first_])
  BY DEF GetObject
<1>2. Moves(s, s)
  BY <1>1, SameMoves
<1>3. first_ \in Node /\ first_ \in InList(s)
  <2>1. count_ \in Nat /\ DOMAIN s = 1 .. count_ /\ 1 \in 1 .. count_
    BY <1>1, ChainFacts
  <2>2. first_ = s[1] /\ s[1] \in Node
    BY <2>1, ChainFacts
  <2> QED BY <2>1, <2>2 DEF InList
<1>4. /\ PoolTyped /\ BlockSound(first_) /\ FreeObjects[first_] \in 1 .. MaxObjectNumber
      /\ \A object \in used : object[2] < MaxObjectNumber
  <2>1. PoolTyped /\ BlockSound(first_) /\ \A object \in used : object[2] < MaxObjectNumber
    BY <1>1, <1>3 DEF PoolSound, UsedKnown, BlocksOf
  <2>2. FreeObjects[first_] \in 0 .. MaxObjectNumber
    BY <1>3, <2>1 DEF PoolTyped
  <2> QED BY <1>1, <2>1, <2>2, MaxObjectNumberAssumption
<1>5. /\ Bitmap[first_] = Bit \ Taken(first_)
      /\ FreeObjects[first_] + Cardinality(Taken(first_)) = MaxObjectNumber
  BY <1>4 DEF BlockSound
<1>6. /\ Bitmap' \in [Node -> SUBSET Bit]
      /\ FreeObjects' \in [Node -> 0 .. MaxObjectNumber]
      /\ BlockSound(first_)'
      /\ \A c \in Node \ {first_} : BlockSound(c) => BlockSound(c)'
      /\ \E i \in Bit : /\ <<first_, i>> \notin used /\ i < MaxObjectNumber
                        /\ used' = used \cup {<<first_, i>>}
  <2> PICK f : f = first_
    OBVIOUS
  <2>1. GetObjectFromBlock(f, Bit \ Taken(f), FreeObjects[f])
    BY <1>1, <1>5
  <2>2. f \in Node /\ FreeObjects[f] \in 1 .. MaxObjectNumber
        /\ FreeObjects[f] + Cardinality(Taken(f)) = MaxObjectNumber
    BY <1>3, <1>4, <1>5
  <2>3. f = first_'
    BY <1>1 DEF listVars
  <2>4. /\ Bitmap' \in [Node -> SUBSET Bit]
        /\ FreeObjects' \in [Node -> 0 .. MaxObjectNumber]
        /\ BlockSound(f)'
        /\ \A c \in Node \ {f} : BlockSound(c) => BlockSound(c)'
        /\ \E i \in Bit : /\ <<f, i>> \notin used /\ i < MaxObjectNumber
                          /\ used' = used \cup {<<f, i>>}
    BY <1>4, <2>1, <2>2, TakeSound
  <2> QED BY <2>3, <2>4 DEF BlockSound
<1>7. PICK i \in Bit : <<first_, i>> \notin used /\ i < MaxObjectNumber
                       /\ used' = used \cup {<<first_, i>>}
  BY <1>6
<1>8. BlocksOf(s)' = BlocksOf(s) /\ BlocksOf(s) = InList(s) /\ InList(s) \subseteq Node
  <2>1. \A j \in DOMAIN s : s[j] \in Node
    BY DEF IsChain
  <2> QED BY <1>1, <2>1 DEF BlocksOf, InList
<1>9. PoolTyped'
  BY <1>1, <1>3, <1>4, <1>6, <1>7 DEF PoolTyped, Object
<1>10. UsedKnown(s)'
  BY <1>3, <1>7, <1>8 DEF UsedKnown, PoolSound
<1>11. \A b \in BlocksOf(s)' : BlockSound(b)'
  <2> TAKE b \in BlocksOf(s)'
  <2>1. CASE b = first_
    <3>1. first_' = first_
      BY <1>1 DEF listVars
    <3> QED BY <1>6, <2>1, <3>1 DEF BlockSound
  <2>2. CASE b # first_
    <3>1. b \in Node \ {first_} /\ BlockSound(b)
      BY <1>8, <2>2 DEF PoolSound
    <3> QED BY <1>6, <3>1
  <2> QED BY <2>1, <2>2
<1>12. MoveSound(s)'
  BY <1>1 DEF MoveSound
<1>13. ~ (used' \subseteq used)
  BY <1>7
<1> QED BY <1>2, <1>9, <1>10, <1>11, <1>12, <1>13 DEF PoolSound, Usable

LEMMA GetObjectFromNewSound ==
  ASSUME LinksTyped, CallTyped, NEW s, IsChain(s), PoolSound(s), GetObjectFromNew
  PROVE  \E r : Moves(s, r) /\ PoolSound(r)' /\ Usable
<1>1. PICK b \in Node \ Blocks :
        /\ AddFirst(b)
        /\ GetObjectFromBlock(b, InitialBitmap, MaxObjectNumber)
  BY DEF GetObjectFromNew
<1>2. pc = "idle" /\ pc' = pc /\ block' = block
  BY DEF GetObjectFromNew
<1>3. /\ b \in Node /\ b \notin InList(s) /\ s \in Seq(Node) /\ 0 \in 0 .. Len(s)
      /\ BlocksOf(s) = InList(s)
  <2>1. Listed = InList(s) /\ s \in Seq(Node) /\ Len(s) \in Nat
    BY ListFacts
  <2> QED BY <1>2, <2>1 DEF Blocks, BlocksOf
<1> DEFINE r == Inserted(s, 0, b)
<1>4. Moves(s, r)
  BY <1>1, <1>3, AddFirstMoves
<1>5. InList(r) = InList(s) \cup {b}
  BY <1>3, InsertedNodes
<1> HIDE DEF r
<1>6. PoolTyped /\ UsedKnown(s) /\ \A c \in InList(s) : BlockSound(c)
  BY <1>3 DEF PoolSound
<1>7. Taken(b) = {} /\ \A object \in used : object[2] < MaxObjectNumber
  BY <1>3, <1>6 DEF Taken, UsedKnown
<1>8. /\ MaxObjectNumber \in 1 .. MaxObjectNumber
      /\ MaxObjectNumber + Cardinality(Taken(b)) = MaxObjectNumber
      /\ GetObjectFromBlock(b, Bit \ Taken(b), MaxObjectNumber)
  <2>1. Cardinality({}) = 0
    BY FS_EmptySet
  <2>2. Bit \ Taken(b) = InitialBitmap
    BY <1>7 DEF InitialBitmap
  <2> QED BY <1>1, <1>7, <2>1, <2>2, MaxObjectNumberAssumption
<1>9. /\ Bitmap' \in [Node -> SUBSET Bit]
      /\ FreeObjects' \in [Node -> 0 .. MaxObjectNumber]
      /\ BlockSound(b)'
      /\ \A c \in Node \ {b} : BlockSound(c) => BlockSound(c)'
      /\ \E i \in Bit : /\ <<b, i>> \notin used /\ i < MaxObjectNumber
                        /\ used' = used \cup {<<b, i>>}
  BY <1>3, <1>6, <1>7, <1>8, TakeSound
<1>10. PICK i \in Bit : <<b, i>> \notin used /\ i < MaxObjectNumber /\ used' = used \cup {<<b, i>>}
  BY <1>9
<1>11. BlocksOf(r)' = BlocksOf(s) \cup {b} /\ InList(s) \subseteq Node
  <2>1. \A j \in DOMAIN s : s[j] \in Node
    BY <1>3
  <2> QED BY <1>2, <1>3, <1>5, <2>1 DEF BlocksOf, InList
<1>12. PoolTyped'
  BY <1>2, <1>3, <1>6, <1>9, <1>10 DEF PoolTyped, Object
<1>13. UsedKnown(r)'
  BY <1>6, <1>10, <1>11 DEF UsedKnown
<1>14. \A c \in BlocksOf(r)' : BlockSound(c)'
  BY <1>3, <1>6, <1>9, <1>11
<1>15. MoveSound(r)'
  BY <1>2 DEF MoveSound
<1>16. ~ (used' \subseteq used)
  BY <1>10
<1> QED BY <1>4, <1>12, <1>13, <1>14, <1>15, <1>16 DEF PoolSound, Usable

LEMMA ReturnToFirstSound ==
  ASSUME LinksTyped, CallTyped, NEW s, IsChain(s), PoolSound(s), ReturnToFirst
  PROVE  Moves(s, s) /\ PoolSound(s)' /\ Usable
<1>1. PICK object \in used : object[1] = first_ /\ ReturnObjectToBlock(first_, object[2])
  BY DEF ReturnToFirst
<1>2. pc = "idle" /\ pc' = pc /\ block' = block /\ UNCHANGED listVars
  BY DEF ReturnToFirst
<1>3. Moves(s, s)
  BY <1>2, SameMoves
<1>4. PoolTyped /\ UsedKnown(s) /\ BlocksOf(s) = InList(s) /\ \A c \in InList(s) : BlockSound(c)
  BY <1>2 DEF PoolSound, BlocksOf
<1>5. PICK b : b = first_
  OBVIOUS
<1>6. PICK i : i = object[2]
  OBVIOUS
<1>7. /\ b \in Node /\ i \in Bit /\ object = <<b, i>> /\ b \in InList(s)
      /\ ReturnObjectToBlock(b, i)
  <2>1. object \in Node \X Bit
    BY <1>4 DEF PoolTyped, Object
  <2> QED BY <1>1, <1>4, <1>5, <1>6, <2>1 DEF UsedKnown
<1>8. /\ Bitmap' \in [Node -> SUBSET Bit]
      /\ FreeObjects' \in [Node -> 0 .. MaxObjectNumber]
      /\ FreeObjects'[b] = FreeObjects[b] + 1
      /\ BlockSound(b)'
      /\ \A c \in Node \ {b} : BlockSound(c) => BlockSound(c)'
      /\ used' = used \ {<<b, i>>}
  BY <1>4, <1>7, GiveSound
<1>9. BlocksOf(s)' = InList(s) /\ InList(s) \subseteq Node
  <2>1. \A j \in DOMAIN s : s[j] \in Node
    BY DEF IsChain
  <2> QED BY <1>2, <2>1 DEF BlocksOf, InList
<1>10. PoolTyped'
  BY <1>2, <1>4, <1>8 DEF PoolTyped
<1>11. UsedKnown(s)'
  BY <1>4, <1>8, <1>9 DEF UsedKnown
<1>12. \A c \in BlocksOf(s)' : BlockSound(c)'
  BY <1>4, <1>8, <1>9
<1>13. MoveSound(s)'
  BY <1>2 DEF MoveSound
<1>14. Usable
  <2>1. first_' = b /\ FreeObjects[b] \in Nat
    BY <1>2, <1>4, <1>5, <1>7, MaxObjectNumberAssumption DEF listVars, PoolTyped
  <2>2. FreeObjects[b] + 1 > 0
    BY <2>1
  <2> QED BY <1>8, <2>1, <2>2 DEF Usable
<1> QED BY <1>3, <1>10, <1>11, <1>12, <1>13, <1>14 DEF PoolSound

LEMMA ReturnToOtherSound ==
  ASSUME LinksTyped, CallTyped, NEW s, IsChain(s), PoolSound(s), ReturnToOther
  PROVE  \E r : Moves(s, r) /\ PoolSound(r)' /\ Usable
<1>1. PICK object \in used :
        LET b == object[1]
            free == FreeObjects[b] + 1
        IN  /\ b # first_
            /\ ReturnObjectToBlock(b, object[2])
            /\ Remove(b)
            /\ IF CanDeallocate(b, free)
               THEN UNCHANGED <<pc, block>>
               ELSE /\ block' = b
                    /\ pc' = IF BecomesFirst(b, free) THEN "AddFirst" ELSE "AddAfter"
  BY DEF ReturnToOther
<1>2. pc = "idle"
  BY DEF ReturnToOther
<1>3. /\ PoolTyped /\ UsedKnown(s) /\ BlocksOf(s) = InList(s)
      /\ \A c \in InList(s) : BlockSound(c)
  BY <1>2 DEF PoolSound, BlocksOf
<1>4. PICK b \in Node, i \in Bit : object = <<b, i>>
  BY <1>3 DEF PoolTyped, Object
<1>5. /\ b # first_ /\ ReturnObjectToBlock(b, i) /\ Remove(b) /\ b \in InList(s) /\ <<b, i>> \in used
      /\ i < MaxObjectNumber
      /\ CanDeallocate(b, FreeObjects[b] + 1) => UNCHANGED <<pc, block>>
      /\ ~ CanDeallocate(b, FreeObjects[b] + 1) =>
           /\ block' = b
           /\ pc' = IF BecomesFirst(b, FreeObjects[b] + 1) THEN "AddFirst" ELSE "AddAfter"
  BY <1>1, <1>3, <1>4 DEF UsedKnown
<1>6. /\ s \in Seq(Node) /\ Once(s) /\ Len(s) \in Nat /\ DOMAIN s = 1 .. Len(s)
      /\ \A j \in 1 .. Len(s) : s[j] \in Node
      /\ first_ = At(s, 1)
  BY ListFacts DEF IsChain
<1>7. PICK k \in 1 .. Len(s) : b = s[k]
  BY <1>5, <1>6 DEF InList
<1>8. k # 1 /\ first_ = s[1] /\ 1 \in 1 .. Len(s) /\ first_ \in Node /\ first_ \in InList(s)
  BY <1>5, <1>6, <1>7 DEF At, InList
<1> DEFINE r == Removed(s, k)
<1>9. Moves(s, r)
  BY <1>5, <1>7, RemoveMoves
<1>10. InList(r) = InList(s) \ {b}
  BY <1>6, <1>7, RemovedNodes
<1>11. r # <<>> /\ r[1] = s[1] /\ DOMAIN r = 1 .. Len(s) - 1 /\ 1 \in DOMAIN r
  <2>1. 1 \in 1 .. Len(s) - 1 /\ 1 < k
    BY <1>6, <1>7, <1>8
  <2>2. DOMAIN r = 1 .. Len(s) - 1 /\ r[1] = s[1]
    BY <2>1 DEF Removed
  <2>3. 1 \notin DOMAIN <<>>
    OBVIOUS
  <2> HIDE DEF r
  <2> QED BY <2>1, <2>2, <2>3
<1> HIDE DEF r
<1>12. first_' = s[1]
  BY <1>9, <1>11 DEF Moves, IsChain, At
<1>13. /\ Bitmap' \in [Node -> SUBSET Bit]
       /\ FreeObjects' \in [Node -> 0 .. MaxObjectNumber]
       /\ FreeObjects'[b] = FreeObjects[b] + 1
       /\ \A c \in Node \ {b} : FreeObjects'[c] = FreeObjects[c]
       /\ BlockSound(b)'
       /\ \A c \in Node \ {b} : BlockSound(c) => BlockSound(c)'
       /\ used' = used \ {<<b, i>>}
  BY <1>3, <1>5, GiveSound
<1>14. InList(s) \subseteq Node
  BY <1>6 DEF InList
<1>15. \A c \in InList(s) : BlockSound(c)'
  BY <1>3, <1>13, <1>14
<1>16. /\ FreeObjects[b] \in 0 .. MaxObjectNumber /\ FreeObjects[s[1]] \in 0 .. MaxObjectNumber
       /\ MaxObjectNumber \in Nat /\ FreeObjects'[s[1]] = FreeObjects[s[1]]
  BY <1>3, <1>5, <1>8, <1>13, MaxObjectNumberAssumption DEF PoolTyped
<1>17. CASE CanDeallocate(b, FreeObjects[b] + 1)
  <2>1. pc' = "idle" /\ block' = block /\ FreeObjects'[b] = MaxObjectNumber /\ FreeObjects[first_] > 0
    BY <1>2, <1>5, <1>13, <1>17 DEF CanDeallocate
  <2>2. Taken(b)' = {}
    <3>1. FreeObjects'[b] + Cardinality(Taken(b)') = MaxObjectNumber
      BY <1>13 DEF BlockSound
    <3>2. IsFiniteSet(Taken(b)') /\ Cardinality(Taken(b)') \in Nat
      <4>1. Taken(b)' \subseteq Taken(b)
        BY <1>13 DEF Taken
      <4> QED BY <4>1, TakenFinite, FS_Subset, FS_CardinalityType
    <3>3. Cardinality(Taken(b)') = 0
      <4> PICK n : n = Cardinality(Taken(b)')
        OBVIOUS
      <4>1. MaxObjectNumber + n = MaxObjectNumber /\ n \in Nat
        BY <2>1, <3>1, <3>2
      <4>2. n = 0
        BY <1>16, <4>1
      <4> QED BY <4>2
    <3> QED BY <3>2, <3>3, FS_EmptySet
  <2>3. BlocksOf(r)' = InList(s) \ {b}
    BY <1>10, <2>1 DEF BlocksOf
  <2>4. PoolTyped'
    BY <1>3, <1>13, <2>1 DEF PoolTyped
  <2>5. UsedKnown(r)'
    <3>1. ASSUME NEW o \in used' PROVE o[1] \in InList(s) \ {b} /\ o[2] < MaxObjectNumber
      <4>1. o \in used /\ o \in Node \X Bit
        BY <1>3, <1>13 DEF PoolTyped, Object
      <4>2. o[1] # b
        BY <2>2, <4>1 DEF Taken
      <4> QED BY <1>3, <4>1, <4>2 DEF UsedKnown
    <3> QED BY <2>3, <3>1 DEF UsedKnown
  <2>6. \A c \in BlocksOf(r)' : BlockSound(c)'
    BY <1>15, <2>3
  <2>7. MoveSound(r)'
    BY <2>1 DEF MoveSound
  <2>8. Usable
    BY <1>8, <1>12, <1>16, <2>1 DEF Usable
  <2> QED BY <1>9, <2>4, <2>5, <2>6, <2>7, <2>8 DEF PoolSound
<1>18. CASE ~ CanDeallocate(b, FreeObjects[b] + 1)
  <2>1. /\ block' = b
        /\ pc' = IF BecomesFirst(b, FreeObjects[b] + 1) THEN "AddFirst" ELSE "AddAfter"
    BY <1>5, <1>18
  <2>2. pc' \in {"AddFirst", "AddAfter"}
    BY <2>1
  <2>3. BlocksOf(r)' = InList(s)
    BY <1>5, <1>10, <2>1, <2>2 DEF BlocksOf
  <2>4. PoolTyped'
    BY <1>3, <1>13, <2>1, <2>2 DEF PoolTyped, Pointer
  <2>5. UsedKnown(r)'
    BY <1>3, <1>13, <2>3 DEF UsedKnown
  <2>6. \A c \in BlocksOf(r)' : BlockSound(c)'
    BY <1>15, <2>3
  <2>7. MoveSound(r)'
    <3>1. block' \in Node \ InList(r) /\ r # <<>>
      BY <1>10, <1>11, <2>1
    <3>2. FreeObjects'[b] > 0
      BY <1>13, <1>16
    <3>3. ASSUME pc' = "AddAfter" PROVE FreeObjects'[s[1]] > 0
      <4>1. ~ (FreeObjects[s[1]] <= MaxObjectNumber \div 4 /\ FreeObjects[b] + 1 > FreeObjects[s[1]])
        BY <1>8, <2>1, <3>3 DEF BecomesFirst
      <4>2. MaxObjectNumber \div 4 \in Nat
        BY <1>16
      <4> PICK quarter : quarter = MaxObjectNumber \div 4
        OBVIOUS
      <4> QED BY <1>16, <4>1, <4>2
    <3> QED BY <1>11, <2>1, <3>1, <3>2, <3>3 DEF MoveSound
  <2>8. Usable
    BY <2>2 DEF Usable
  <2> QED BY <1>9, <2>4, <2>5, <2>6, <2>7, <2>8 DEF PoolSound
<1> QED BY <1>17, <1>18

LEMMA MakeBlockActiveSound ==
  ASSUME LinksTyped, CallTyped, NEW s, IsChain(s), PoolSound(s), MakeBlockActive
  PROVE  \E r : Moves(s, r) /\ PoolSound(r)' /\ Usable
<1>1. /\ pc' = "idle" /\ block' = NoNode /\ UNCHANGED <<Bitmap, FreeObjects, used>>
      /\ \/ pc = "AddFirst" /\ AddFirst(block)
         \/ pc = "AddAfter" /\ AddAfter(first_, block)
  BY DEF MakeBlockActive
<1>2. /\ pc # "idle" /\ block \in Node /\ block \notin InList(s) /\ s # <<>>
      /\ BlocksOf(s) = InList(s) \cup {block}
      /\ PoolTyped /\ UsedKnown(s) /\ \A c \in BlocksOf(s) : BlockSound(c)
  BY <1>1 DEF PoolSound, MoveSound, BlocksOf
<1>3. /\ s \in Seq(Node) /\ Len(s) \in Nat /\ 1 \in 1 .. Len(s) /\ 0 \in 0 .. Len(s) /\ 1 \in 0 .. Len(s)
      /\ first_ = s[1]
  <2>1. s \in Seq(Node) /\ Len(s) \in Nat /\ DOMAIN s = 1 .. Len(s) /\ first_ = At(s, 1)
    BY ListFacts DEF IsChain
  <2>2. 1 \in 1 .. Len(s) /\ 1 \in 0 .. Len(s) /\ 0 \in 0 .. Len(s)
    BY <1>2, <2>1
  <2> QED BY <2>1, <2>2 DEF At
<1>4. PICK node : node = block
  OBVIOUS
<1>5. \A c \in Node : BlockSound(c)' <=> BlockSound(c)
  BY <1>1 DEF BlockSound, Taken
<1>6. InList(s) \subseteq Node
  <2>1. \A j \in DOMAIN s : s[j] \in Node
    BY <1>3
  <2> QED BY <2>1 DEF InList
<1>7. ASSUME NEW r, Moves(s, r), InList(r) = InList(s) \cup {node} PROVE PoolSound(r)'
  <2>1. BlocksOf(r)' = BlocksOf(s)
    BY <1>1, <1>2, <1>4, <1>7 DEF BlocksOf
  <2>2. PoolTyped' /\ MoveSound(r)'
    BY <1>1, <1>2 DEF PoolTyped, MoveSound, Pointer
  <2>3. UsedKnown(r)'
    BY <1>1, <1>2, <2>1 DEF UsedKnown
  <2>4. \A c \in BlocksOf(r)' : BlockSound(c)'
    BY <1>2, <1>5, <1>6, <2>1
  <2> QED BY <2>2, <2>3, <2>4 DEF PoolSound
<1>8. CASE pc = "AddFirst" /\ AddFirst(block)
  <2>1. Moves(s, Inserted(s, 0, node))
    BY <1>2, <1>4, <1>8, AddFirstMoves
  <2>2. InList(Inserted(s, 0, node)) = InList(s) \cup {node}
    BY <1>2, <1>3, <1>4, InsertedNodes
  <2>3. first_' = node /\ FreeObjects[node] > 0
    BY <1>4, <1>8 DEF AddFirst, PoolSound, MoveSound
  <2>4. Usable
    BY <1>1, <2>3 DEF Usable
  <2> QED BY <1>7, <2>1, <2>2, <2>4
<1>9. CASE pc = "AddAfter" /\ AddAfter(first_, block)
  <2>1. AddAfter(s[1], node)
    BY <1>3, <1>4, <1>9
  <2>2. Moves(s, Inserted(s, 1, node))
    BY <1>2, <1>3, <1>4, <2>1, AddAfterMoves
  <2>3. InList(Inserted(s, 1, node)) = InList(s) \cup {node}
    BY <1>2, <1>3, <1>4, InsertedNodes
  <2>4. first_' = s[1] /\ FreeObjects[s[1]] > 0
    BY <1>3, <1>9 DEF AddAfter, PoolSound, MoveSound
  <2>5. Usable
    BY <1>1, <2>4 DEF Usable
  <2> QED BY <1>7, <2>2, <2>3, <2>5
<1> QED BY <1>1, <1>8, <1>9

-----------------------------------------------------------------------------
(* The invariant, and what follows from it.                                *)

(* The invariant: the pointers are those of some sequence, and a pool      *)
(* whose list is that sequence is sound.                                   *)
ListsInv ==
  /\ LinksTyped
  /\ CallTyped
  /\ used_as # "pool" => pc = "idle"
  /\ \E s : IsChain(s) /\ (used_as = "pool" => PoolSound(s))

LEMMA InitInv == StructuresInit => ListsInv /\ Promise!Init
<1> SUFFICES ASSUME StructuresInit PROVE ListsInv /\ Promise!Init
  OBVIOUS
<1>1. Init /\ ListInit /\ pc = "idle"
  BY DEF StructuresInit, Init
<1>2. IsChain(<<>>)
  BY <1>1 DEF IsChain, ListInit, Once, At
<1>3. LinksTyped /\ CallTyped
  BY <1>1, NodeDataAssumption DEF LinksTyped, CallTyped, ListInit, Word, Pointer
<1>4. PoolSound(<<>>)
  <2>1. InList(<<>>) = {}
    BY DEF InList
  <2>2. PoolTyped
    BY <1>1, MaxObjectNumberAssumption DEF Init, PoolTyped, Pointer
  <2> QED BY <1>1, <2>1, <2>2 DEF Init, PoolSound, UsedKnown, BlocksOf, MoveSound
<1>5. list = <<>>
  BY <1>2, ListIs
<1>6. call = <<"none", NoNode>>
  BY <1>1 DEF ListInit
<1> HIDE DEF list
<1> QED BY <1>1, <1>2, <1>3, <1>4, <1>5, <1>6 DEF ListsInv, Promise!Init

LEMMA InvStep ==
  ASSUME ListsInv, [StructuresNext]_allVars
  PROVE  /\ ListsInv'
         /\ [Promise!Next]_<<list, call>>
         /\ list' # list => DataSame
         /\ Usable \/ UNCHANGED vars
<1>1. PICK s : IsChain(s) /\ (used_as = "pool" => PoolSound(s))
  BY DEF ListsInv
<1>2. LinksTyped /\ CallTyped /\ (used_as # "pool" => pc = "idle")
  BY DEF ListsInv
<1>3. ASSUME NEW r, Moves(s, r)
      PROVE  /\ LinksTyped' /\ CallTyped' /\ IsChain(r)' /\ [Promise!Next]_<<list, call>>
             /\ list' # list => DataSame
  <2>1. LinksTyped' /\ CallTyped' /\ IsChain(r)' /\ [Promise!Next]_<<list, call>> /\ (DataSame \/ r = s)
    BY <1>3 DEF Moves
  <2>2. list = s /\ list' = r
    BY <1>1, <2>1, ListIs, ListIsNext
  <2> HIDE DEF list
  <2> QED BY <2>1, <2>2
<1>4. CASE PoolStep
  <2>1. used_as = "pool" /\ used_as' = used_as /\ PoolSound(s)
    BY <1>1, <1>4 DEF PoolStep
  <2>2. PICK r : Moves(s, r) /\ PoolSound(r)' /\ Usable
    <3>1. CASE GetObject
      BY <1>1, <1>2, <2>1, <3>1, GetObjectSound
    <3>2. CASE GetObjectFromNew
      BY <1>1, <1>2, <2>1, <3>2, GetObjectFromNewSound
    <3>3. CASE ReturnToFirst
      BY <1>1, <1>2, <2>1, <3>3, ReturnToFirstSound
    <3>4. CASE ReturnToOther
      BY <1>1, <1>2, <2>1, <3>4, ReturnToOtherSound
    <3>5. CASE MakeBlockActive
      BY <1>1, <1>2, <2>1, <3>5, MakeBlockActiveSound
    <3>6. CASE GetObjectWithoutMemory \/ Crashed
      <4>1. UNCHANGED listVars /\ pc' = "crashed" /\ UNCHANGED <<Bitmap, FreeObjects, used, block>>
        BY <3>6 DEF GetObjectWithoutMemory, Crashed, vars
      <4>2. Moves(s, s)
        BY <1>1, <1>2, <4>1, SameMoves
      <4>3. BlocksOf(s)' \subseteq BlocksOf(s) /\ (pc = "idle" \/ pc = "crashed")
        BY <3>6, <4>1 DEF BlocksOf, GetObjectWithoutMemory, Crashed
      <4>4. BlocksOf(s)' = BlocksOf(s)
        BY <4>1, <4>3 DEF BlocksOf
      <4>5. PoolSound(s)'
        BY <2>1, <4>1, <4>4 DEF PoolSound, PoolTyped, UsedKnown, BlockSound, Taken, MoveSound
      <4>6. Usable
        BY <4>1 DEF Usable
      <4> QED BY <4>2, <4>5, <4>6
    <3> QED BY <1>4, <3>1, <3>2, <3>3, <3>4, <3>5, <3>6 DEF PoolStep, Next
  <2> QED BY <1>3, <2>1, <2>2 DEF ListsInv
<1>5. CASE ListStep
  <2>1. used_as = "list" /\ used_as' = used_as /\ pc = "idle" /\ pc' = pc /\ used' = used
    BY <1>2, <1>5 DEF ListStep, poolVars
  <2>2. PICK r : Moves(s, r)
    BY <1>1, <1>2, <1>5, ListNextMoves DEF ListStep
  <2>3. Usable
    BY <2>1 DEF Usable
  <2> QED BY <1>3, <2>1, <2>2, <2>3 DEF ListsInv
<1>6. CASE BitmapStep \/ UNCHANGED allVars
  <2>1. UNCHANGED vars /\ UNCHANGED listVars /\ used_as' = used_as
    BY <1>6 DEF BitmapStep, allVars, vars
  <2>2. Moves(s, s)
    BY <1>1, <1>2, <2>1, SameMoves
  <2>3. PoolSound(s)' <=> PoolSound(s)
    BY <2>1 DEF vars, PoolSound, PoolTyped, UsedKnown, BlocksOf, BlockSound, Taken, MoveSound
  <2>4. used_as' # "pool" => pc' = "idle"
    BY <1>2, <2>1 DEF vars
  <2> QED BY <1>1, <1>3, <2>1, <2>2, <2>3, <2>4 DEF ListsInv
<1> QED BY <1>4, <1>5, <1>6 DEF StructuresNext

LEMMA InvLinks == ListsInv => LinksAgree
<1> SUFFICES ASSUME ListsInv PROVE LinksAgree
  OBVIOUS
<1>1. PICK s : IsChain(s)
  BY DEF ListsInv
<1>2. list = s /\ backwards = [i \in 1 .. count_ |-> s[count_ + 1 - i]]
  BY <1>1, ListIs, BackwardsIs
<1>3. /\ count_ \in Nat
      /\ \A i \in 1 .. count_ : s[i] \in Node
      /\ \A i \in Int : At(s, i) = NoNode <=> i \notin 1 .. count_
      /\ \A i, j \in 1 .. count_ : s[i] = s[j] => i = j
  BY <1>1, ChainFacts
<1> HIDE DEF list, backwards
<1>4. CASE count_ = 0
  <2>1. first_ = At(s, 1) /\ last_ = At(s, count_)
    BY <1>1, ChainFacts
  <2>2. 1 \notin 1 .. count_ /\ count_ \notin 1 .. count_
    BY <1>4
  <2>3. first_ = NoNode /\ last_ = NoNode
    BY <1>3, <2>1, <2>2
  <2> QED BY <1>4, <2>3 DEF LinksAgree
<1>5. CASE count_ # 0
  <2>1. 1 \in 1 .. count_ /\ count_ \in 1 .. count_ /\ 1 - 1 \notin 1 .. count_ /\ count_ + 1 \notin 1 .. count_
        /\ 1 - 1 \in Int /\ count_ + 1 \in Int
    BY <1>3, <1>5
  <2>2. first_ = s[1] /\ last_ = s[count_] /\ GetPrevious(s[1]) = At(s, 1 - 1)
        /\ GetNext(s[count_]) = At(s, count_ + 1)
    BY <1>1, <2>1, ChainFacts
  <2>3. GetNext(last_) = NoNode /\ GetPrevious(first_) = NoNode
    BY <1>3, <2>1, <2>2
  <2> QED BY <1>2, <1>3, <1>5, <2>3 DEF LinksAgree
<1> QED BY <1>4, <1>5

LEMMA InvPool ==
  ASSUME ListsInv
  PROVE  PoolAccounted
<1> SUFFICES ASSUME used_as = "pool" PROVE ObjectsAccounted
  BY DEF PoolAccounted
<1>1. PICK s : IsChain(s) /\ PoolSound(s)
  BY DEF ListsInv
<1>2. /\ s \in Seq(Node) /\ Len(s) \in Nat /\ DOMAIN s = 1 .. Len(s) /\ Len(s) = count_
      /\ Listed = InList(s)
  BY <1>1, ListFacts
<1>3. Blocks = BlocksOf(s)
  BY <1>2 DEF Blocks, BlocksOf
<1>4. count_ \in 0 .. Cardinality(Node)
  <2>1. s \in Injection(1 .. count_, Node)
    BY <1>1, <1>2 DEF IsChain, Once, Injection, IsInjective
  <2>2. Cardinality(1 .. count_) <= Cardinality(Node)
    BY <2>1, NodeAssumption, FS_Injection
  <2>3. Cardinality(1 .. count_) = count_
    <3>1. 1 \in Int /\ count_ \in Int /\ count_ \in Nat
      BY <1>2
    <3>2. Cardinality(1 .. count_) = IF 1 > count_ THEN 0 ELSE count_ - 1 + 1
      BY <3>1, FS_Interval
    <3> QED BY <3>1, <3>2
  <2>4. Cardinality(Node) \in Nat
    BY NodeAssumption, FS_CardinalityType
  <2> QED BY <1>2, <2>2, <2>3, <2>4
<1>5. first_ \in Pointer /\ last_ \in Pointer
  <2>1. first_ = At(s, 1) /\ last_ = At(s, count_) /\ count_ \in Int
    BY <1>1, <1>2, ChainFacts
  <2> QED BY <1>1, <2>1, ChainFacts
<1>6. TypeOK
  BY <1>1, <1>4, <1>5 DEF ListsInv, TypeOK, ListTypeOK, LinksTyped, CallTyped, PoolSound, PoolTyped
<1>7. \A object \in used : object[1] \in Blocks /\ object[2] < MaxObjectNumber
  BY <1>1, <1>3 DEF PoolSound, UsedKnown
<1>8. \A b \in Blocks : /\ Bitmap[b] = Bit \ Taken(b)
                        /\ FreeObjects[b] + Cardinality(Taken(b)) = MaxObjectNumber
  BY <1>1, <1>3 DEF PoolSound, BlockSound
<1> QED BY <1>6, <1>7, <1>8 DEF ObjectsAccounted, Taken

(***************************************************************************)
(* From the ends and the pointers of a list one reads the sequence that    *)
(* its methods promise, whatever pointers a node had left from before when *)
(* it was added, and the pointers agree in both directions: the list       *)
(* implements NodeList, under the pool and under any use within its rules. *)
(***************************************************************************)
THEOREM ListsCorrect == StructuresSpec => ImplementsNodeList
<1>1. StructuresInit => ListsInv /\ Promise!Init
  BY InitInv
<1>2. ListsInv /\ [StructuresNext]_allVars => ListsInv' /\ [Promise!Next]_<<list, call>>
  BY InvStep
<1>3. ListsInv => LinksAgree
  BY InvLinks
<1> QED BY <1>1, <1>2, <1>3, PTL DEF StructuresSpec, ImplementsNodeList, Promise!Spec

(***************************************************************************)
(* No operation that changes a list changes the type or the subgroup that  *)
(* a group keeps in its pointer to the next one.                           *)
(***************************************************************************)
THEOREM DataCorrect == StructuresSpec => DataKept
<1>1. StructuresInit => ListsInv
  BY InitInv
<1>2. ListsInv /\ [StructuresNext]_allVars => ListsInv'
  BY InvStep
<1>3. ListsInv /\ [StructuresNext]_allVars
        => [list' # list => \A node \in Node : Next_'[node].Data = Next_[node].Data]_listVars
  BY InvStep DEF DataSame
<1> QED BY <1>1, <1>2, <1>3, PTL DEF StructuresSpec, DataKept

(***************************************************************************)
(* Every object that was taken lies in a block of the pool and is one of   *)
(* its objects, and for each block the taken ones, the bitmap and the      *)
(* count add up, for any number of blocks, objects and bits.               *)
(***************************************************************************)
THEOREM PoolCorrect == StructuresSpec => []PoolAccounted
<1>1. StructuresInit => ListsInv
  BY InitInv
<1>2. ListsInv /\ [StructuresNext]_allVars => ListsInv'
  BY InvStep
<1>3. ListsInv => PoolAccounted
  BY InvPool
<1> QED BY <1>1, <1>2, <1>3, PTL DEF StructuresSpec

(***************************************************************************)
(* After every ReturnObject the active block has a free object.            *)
(***************************************************************************)
THEOREM ReturnCorrect == StructuresSpec => ReturnMakesUsable
<1>1. StructuresInit => ListsInv
  BY InitInv
<1>2. ListsInv /\ [StructuresNext]_allVars => ListsInv'
  BY InvStep
<1>3. ListsInv /\ [StructuresNext]_allVars
        => [(used' # used \/ pc # "idle") /\ used' \subseteq used /\ pc' = "idle"
              => FreeObjects'[first_'] > 0]_vars
  BY InvStep DEF Usable
<1> QED BY <1>1, <1>2, <1>3, PTL DEF StructuresSpec, ReturnMakesUsable

-----------------------------------------------------------------------------
(* The bitmap.                                                             *)

LEMMA OperationKind ==
  ASSUME NEW operation \in Bits!Operation, operation # Bits!NoOperation
  PROVE  \E p \in Bits!Bit, name \in {"SetBit64", "ResetBit64"} : operation = <<name, {p}>>
BY DEF Bits!Operation, Bits!NoOperation

LEMMA BitsTypeStep ==
  ASSUME Bits!TypeOK, [StructuresNext]_allVars
  PROVE  Bits!TypeOK'
<1>1. CASE UNCHANGED bitVars
  BY <1>1 DEF bitVars, Bits!TypeOK
<1>2. ASSUME NEW t \in Thread, Bits!Call(t)
      PROVE  Bits!TypeOK'
  BY <1>2 DEF Bits!Call, Bits!ReadAgain, Bits!TypeOK
<1>3. ASSUME NEW t \in Thread, Bits!ReadHalf(t)
      PROVE  Bits!TypeOK'
  <2>1. PICK half \in unread[t] :
          /\ oldValue' = [oldValue EXCEPT ![t] = @ \cup (word \cap half)]
          /\ unread' = [unread EXCEPT ![t] = @ \ {half}]
    BY <1>3 DEF Bits!ReadHalf
  <2>2. UNCHANGED <<word, asked, result>>
    BY <1>3 DEF Bits!ReadHalf
  <2> QED BY <2>1, <2>2 DEF Bits!TypeOK
<1>4. ASSUME NEW t \in Thread, Bits!CompareExchange64(t)
      PROVE  Bits!TypeOK'
  <2>1. CASE Bits!SwapSucceeds(t)
    <3>1. PICK p \in Bits!Bit, name \in {"SetBit64", "ResetBit64"} : asked[t] = <<name, {p}>>
      BY <1>4, OperationKind DEF Bits!CompareExchange64, Bits!TypeOK
    <3>2. Bits!NewValue(asked[t], oldValue[t]) \subseteq Bits!Bit
      BY <3>1 DEF Bits!NewValue, Bits!TypeOK
    <3> QED BY <1>4, <2>1, <3>2 DEF Bits!CompareExchange64, Bits!TypeOK, Bits!Operation
  <2>2. CASE ~ Bits!SwapSucceeds(t)
    BY <1>4, <2>2 DEF Bits!CompareExchange64, Bits!ReadAgain, Bits!TypeOK
  <2> QED BY <2>1, <2>2
<1> QED BY <1>1, <1>2, <1>3, <1>4
        DEF StructuresNext, PoolStep, ListStep, BitmapStep, Bits!Next, allVars

(* A swap that succeeds is the operation; everything else but a call       *)
(* changes nothing that AtomicWord knows of.                               *)
LEMMA BitsStep ==
  ASSUME Bits!TypeOK, [StructuresNext]_allVars
  PROVE  [Atomically!Next]_<<word, asked, result>>
<1>1. CASE UNCHANGED bitVars
  BY <1>1 DEF bitVars
<1>2. ASSUME NEW t \in Thread, Bits!Call(t)
      PROVE  Atomically!Next
  <2>1. PICK operation \in Bits!Operation \ {Bits!NoOperation} :
          asked' = [asked EXCEPT ![t] = operation]
    BY <1>2 DEF Bits!Call
  <2>2. PICK p \in UNION Halves, name \in {"SetBit64", "ResetBit64"} : operation = <<name, {p}>>
    BY <2>1, OperationKind DEF Bits!Bit
  <2>3. Atomically!Call(t)
    BY <1>2, <2>1, <2>2 DEF Bits!Call, Atomically!Call, Bits!NoOperation, Atomically!NoOperation
  <2> QED BY <2>3 DEF Atomically!Next
<1>3. ASSUME NEW t \in Thread, Bits!ReadHalf(t)
      PROVE  UNCHANGED <<word, asked, result>>
  BY <1>3 DEF Bits!ReadHalf
<1>4. ASSUME NEW t \in Thread, Bits!CompareExchange64(t)
      PROVE  [Atomically!Next]_<<word, asked, result>>
  <2>1. CASE Bits!SwapSucceeds(t)
    <3>1. PICK p \in Bits!Bit, name \in {"SetBit64", "ResetBit64"} : asked[t] = <<name, {p}>>
      BY <1>4, OperationKind DEF Bits!CompareExchange64, Bits!TypeOK
    <3>2. oldValue[t] = word
      BY <2>1 DEF Bits!SwapSucceeds
    <3>3. /\ word' = Bits!NewValue(asked[t], word)
          /\ result' = [result EXCEPT ![t] = word]
          /\ asked' = [asked EXCEPT ![t] = Bits!NoOperation]
      BY <1>4, <2>1, <3>2 DEF Bits!CompareExchange64
    <3>4. Atomically!Return(t)
      BY <3>3 DEF Atomically!Return, Bits!NoOperation, Atomically!NoOperation
    <3>5. CASE name = "SetBit64"
      BY <3>1, <3>3, <3>4, <3>5 DEF Bits!NewValue, Atomically!SetBit64, Atomically!Next
    <3>6. CASE name = "ResetBit64"
      BY <3>1, <3>3, <3>4, <3>6 DEF Bits!NewValue, Atomically!ResetBit64, Atomically!Next
    <3> QED BY <3>5, <3>6
  <2>2. CASE ~ Bits!SwapSucceeds(t)
    BY <1>4, <2>2 DEF Bits!CompareExchange64
  <2> QED BY <2>1, <2>2
<1> QED BY <1>1, <1>2, <1>3, <1>4
        DEF StructuresNext, PoolStep, ListStep, BitmapStep, Bits!Next, allVars

(***************************************************************************)
(* The loops of SetBit64 and ResetBit64 are atomic operations, whatever    *)
(* copies of the word they start from and whatever the other threads do to *)
(* it meanwhile: they implement AtomicWord.                                *)
(***************************************************************************)
THEOREM WordAtomicCorrect == StructuresSpec => WordAtomic
<1>1. StructuresInit => Bits!TypeOK /\ Atomically!Init
  BY DEF StructuresInit, Bits!Init, Bits!TypeOK, Bits!Operation, Atomically!Init,
         Bits!NoOperation, Atomically!NoOperation
<1>2. Bits!TypeOK /\ [StructuresNext]_allVars => Bits!TypeOK'
  BY BitsTypeStep
<1>3. Bits!TypeOK /\ [StructuresNext]_allVars => [Atomically!Next]_<<word, asked, result>>
  BY BitsStep
<1> QED BY <1>1, <1>2, <1>3, PTL DEF StructuresSpec, WordAtomic, Atomically!Spec
=============================================================================
