----------------------------- MODULE AtomicWord -----------------------------
(***************************************************************************)
(* What the block allocator takes the operations on a bitmap for: one step *)
(* between call and return, in which the bit is set or reset and the word  *)
(* it was part of is learnt.                                               *)
(***************************************************************************)
EXTENDS FiniteSets

CONSTANTS Thread, Bit

VARIABLES word, asked, result

NoOperation == <<"none", {}>>

Call(t) ==
  /\ asked[t] = NoOperation
  /\ \E p \in Bit, name \in {"SetBit64", "ResetBit64"} :
       asked' = [asked EXCEPT ![t] = <<name, {p}>>]
  /\ result' = [result EXCEPT ![t] = {}]
  /\ UNCHANGED word

Return(t) ==
  /\ result' = [result EXCEPT ![t] = word]
  /\ asked' = [asked EXCEPT ![t] = NoOperation]

SetBit64(t) ==
  /\ asked[t][1] = "SetBit64"
  /\ word' = word \cup asked[t][2]
  /\ Return(t)

ResetBit64(t) ==
  /\ asked[t][1] = "ResetBit64"
  /\ word' = word \ asked[t][2]
  /\ Return(t)

Init ==
  /\ word = {}
  /\ asked = [t \in Thread |-> NoOperation]
  /\ result = [t \in Thread |-> {}]

Next == \E t \in Thread : Call(t) \/ SetBit64(t) \/ ResetBit64(t)

Spec == Init /\ [][Next]_<<word, asked, result>>
=============================================================================
