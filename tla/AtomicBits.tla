----------------------------- MODULE AtomicBits -----------------------------
(***************************************************************************)
(* Atomic::SetBit64 and ResetBit64 (src/Allocator/Atomic.hpp), by which    *)
(* the threads give groups back to the bitmap of a block and take them.    *)
(* Each reads the word, swaps the changed word in by CompareExchange64 if  *)
(* the word is still the one it read, and tries again otherwise; it        *)
(* returns what the swap found, from which the block allocator learns      *)
(* whether the block was empty or has become full.                         *)
(*                                                                         *)
(* The word has 64 bits.  In the 32-bit build the copy is made by two      *)
(* reads, in the order the compiler chose, and may be of no word there     *)
(* ever was; the swap compares all 64 bits.                                *)
(***************************************************************************)
EXTENDS FiniteSets

CONSTANTS
  Thread,   \* The threads.
  Halves    \* The sets of bits read at once: two, or one in the 64-bit build.

VARIABLES
  word,      \* The bits that are set.
  asked,     \* The operation each thread is in, with the position it was given,
  result,    \* and what its last one returned.
  oldValue,  \* The copy of the word, as far as it was read,
  unread     \* and the halves that are missing.

vars == <<word, asked, result, oldValue, unread>>

Bit == UNION Halves

NoOperation == <<"none", {}>>

Operation == {NoOperation} \cup {"SetBit64", "ResetBit64"} \X {{p} : p \in Bit}

TypeOK ==
  /\ word \subseteq Bit
  /\ asked \in [Thread -> Operation]
  /\ result \in [Thread -> SUBSET Bit]
  /\ oldValue \in [Thread -> SUBSET Bit]
  /\ unread \in [Thread -> SUBSET Halves]

(* What the operation makes of a word.                                     *)
NewValue(operation, old) ==
  IF operation[1] = "SetBit64" THEN old \cup operation[2] ELSE old \ operation[2]

Init ==
  /\ word = {}
  /\ asked = [t \in Thread |-> NoOperation]
  /\ result = [t \in Thread |-> {}]
  /\ oldValue = [t \in Thread |-> {}]
  /\ unread = [t \in Thread |-> {}]

(* The start of a round of the loop.                                       *)
ReadAgain(t) ==
  /\ oldValue' = [oldValue EXCEPT ![t] = {}]
  /\ unread' = [unread EXCEPT ![t] = Halves]

Call(t) ==
  /\ asked[t] = NoOperation
  /\ \E operation \in Operation \ {NoOperation} : asked' = [asked EXCEPT ![t] = operation]
  /\ result' = [result EXCEPT ![t] = {}]
  /\ ReadAgain(t)
  /\ UNCHANGED word

ReadHalf(t) ==
  \E half \in unread[t] :
    /\ oldValue' = [oldValue EXCEPT ![t] = @ \cup (word \cap half)]
    /\ unread' = [unread EXCEPT ![t] = @ \ {half}]
    /\ UNCHANGED <<word, asked, result>>

(* Bug: only the first half is compared.                                   *)
SwapSucceedsHalf(t) ==
  LET half == CHOOSE h \in Halves : TRUE IN word \cap half = oldValue[t] \cap half

SwapSucceeds(t) == word = oldValue[t]

CompareExchange64(t) ==
  /\ asked[t] # NoOperation
  /\ unread[t] = {}
  /\ IF SwapSucceeds(t)
     THEN /\ word' = NewValue(asked[t], oldValue[t])
          /\ result' = [result EXCEPT ![t] = oldValue[t]]
          /\ asked' = [asked EXCEPT ![t] = NoOperation]
          /\ oldValue' = [oldValue EXCEPT ![t] = {}]
          /\ UNCHANGED unread
     ELSE ReadAgain(t) /\ UNCHANGED <<word, asked, result>>

Next == \E t \in Thread : Call(t) \/ ReadHalf(t) \/ CompareExchange64(t)

Spec == Init /\ [][Next]_vars
=============================================================================
