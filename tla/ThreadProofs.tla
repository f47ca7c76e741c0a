---------------------------- MODULE ThreadProofs ----------------------------
(***************************************************************************)
(* Proofs about the threads of a process: how they start (module Startup), *)
(* and what those of the test program do (module Tester).                  *)
(*                                                                         *)
(* The two start-ups are guarded by double-checked locking, each of them.  *)
(* That a thread comes to one context only is proved for a process in      *)
(* which no other library uses thread-local storage (Foreign = {}): the    *)
(* index is used before it is allocated, and may then be that of another   *)
(* library.                                                                *)
(***************************************************************************)
EXTENDS Startup, Tester, SequenceTheorems, TLAPS


-----------------------------------------------------------------------------
(* The cleaning thread.                                                    *)

InCleanLock(t) == step[t] \in {"Check", "CreateThread", "SetFlag", "Unlock"}

(* A thread is created by the one thread that has the lock and has seen    *)
(* the flag under it; from then on that thread is about to set the flag,   *)
(* or the flag is set.                                                     *)
CleaningInv ==
  /\ Cleaning!TypeOK
  /\ \A t \in Thread : InCleanLock(t) <=> cacheThreadLock_ = t
  /\ \A t \in Thread : step[t] \in {"CreateThread", "SetFlag"} => ~ cacheThreadInitialized_
  /\ cleaners > 0 => cacheThreadInitialized_ \/ \E t \in Thread : step[t] = "SetFlag"
  /\ cleaners <= 1

-----------------------------------------------------------------------------
(* The contexts.                                                           *)

InInitLock(t) == doing[t] \in {"Check", "SetFlag", "Unlock"}

LockSound ==
  /\ \A t \in Thread : InInitLock(t) <=> initLock_ = t
  /\ \A t \in Thread : doing[t] = "SetFlag" => ~ initialized_
  /\ \A t \in Thread :
       doing[t] \in {"Unlock", "GetObject", "SetTLSValue", "Allocate", "Deallocate"} => initialized_

(* Nothing is in a slot before the flag is set, and nothing but contexts,  *)
(* in that slot if there is one, afterwards.                               *)
SlotsSound ==
  /\ \A t \in Thread, slot \in Slot : TLS[t][slot] # NoContext => slot = tlsIndex_ /\ initialized_
  /\ \A t \in Thread : GetTLSValue(t) \in Context \cup {NoContext}
  /\ \A t \in Thread :
       doing[t] \notin {"idle", "Allocate", "Deallocate", "crashed"} => GetTLSValue(t) = NoContext

(* The context a thread has: that it took from the pool, or in its slot.   *)
(* Without a slot it has one during the call for which it took it.         *)
Mine(t) ==
  IF doing[t] = "SetTLSValue" \/ tlsIndex_ \notin Slot THEN context[t] ELSE TLS[t][tlsIndex_]

ContextsSound ==
  /\ \A t \in Thread :
       /\ doing[t] \in {"SetTLSValue", "Allocate"} => context[t] \in Context
       /\ doing[t] \notin {"SetTLSValue", "Allocate", "Deallocate"} => context[t] = NoContext
       /\ context[t] \in {NoContext, Mine(t)}
  /\ \A t \in Thread : Mine(t) # NoContext =>
       /\ Mine(t) \in Context \ threadContextPool_
       /\ \A u \in Thread \ {t} : Mine(u) # Mine(t)
  /\ tlsIndex_ \in Slot =>
       \A c \in Context \ threadContextPool_ : \E t \in Thread : Mine(t) = c
  /\ ~ initialized_ => threadContextPool_ = Context

ContextInv == ContextTypeOK /\ LockSound /\ SlotsSound /\ ContextsSound

-----------------------------------------------------------------------------
(* The invariant of the cleaning thread is inductive.                      *)

LEMMA InitCleaning == StartupInit => CleaningInv
<1> SUFFICES ASSUME StartupInit PROVE CleaningInv
  OBVIOUS
<1>1. /\ cacheThreadInitialized_ = FALSE /\ cacheThreadLock_ = NoThread
      /\ cleaners = 0 /\ step = [t \in Thread |-> "idle"]
  BY DEF StartupInit, Cleaning!Init
<1>2. NoThread \notin Thread /\ 0 \in 0 .. MaxCleaners
  BY MaxCleanersAssumption, NoThreadAssumption
<1>3. Cleaning!TypeOK
  BY <1>1, <1>2 DEF Cleaning!TypeOK
<1>4. \A t \in Thread : step[t] = "idle"
  BY <1>1
<1>5. \A t \in Thread : InCleanLock(t) <=> cacheThreadLock_ = t
  BY <1>1, <1>2, <1>4 DEF InCleanLock
<1>6. \A t \in Thread : step[t] \in {"CreateThread", "SetFlag"} => ~ cacheThreadInitialized_
  BY <1>1
<1>7. cleaners > 0 => cacheThreadInitialized_ \/ \E t \in Thread : step[t] = "SetFlag"
  BY <1>1
<1>8. cleaners <= 1
  BY <1>1
<1> QED BY <1>3, <1>5, <1>6, <1>7, <1>8 DEF CleaningInv

LEMMA CleaningStep ==
  ASSUME CleaningInv, NEW t \in Thread, Cleaning!EnsureCacheThreadActive(t) \/ Cleaning!Continue(t)
  PROVE  CleaningInv'
<1> USE DEF CleaningInv, Cleaning!TypeOK, Cleaning!Goto, InCleanLock
<1>0. cleaners \in Nat /\ NoThread \notin Thread /\ MaxCleaners \in Nat
  BY MaxCleanersAssumption, NoThreadAssumption
<1>1. CASE Cleaning!EnsureCacheThreadActive(t) \/ Cleaning!ReadFlag(t)
  BY <1>1 DEF Cleaning!EnsureCacheThreadActive, Cleaning!ReadFlag
<1>2. CASE Cleaning!Lock(t)
  BY <1>0, <1>2 DEF Cleaning!Lock
<1>3. CASE Cleaning!Check(t)
  BY <1>3 DEF Cleaning!Check, Cleaning!MustCreate
<1>4. CASE Cleaning!CreateThread(t)
  <2>1. cacheThreadLock_ = t /\ ~ cacheThreadInitialized_ /\ step[t] = "CreateThread"
    BY <1>4 DEF Cleaning!CreateThread
  <2>2. \A u \in Thread : step[u] # "SetFlag"
    BY <2>1
  <2>3. cleaners = 0
    BY <1>0, <2>1, <2>2
  <2>4. /\ cleaners' \in 0 .. MaxCleaners /\ cleaners' <= 1
        /\ step' = [step EXCEPT ![t] = "SetFlag"]
        /\ UNCHANGED <<cacheThreadInitialized_, cacheThreadLock_>>
    BY <1>0, <1>4, <2>3 DEF Cleaning!CreateThread
  <2> QED BY <2>1, <2>4
<1>5. CASE Cleaning!SetFlag(t)
  BY <1>5 DEF Cleaning!SetFlag
<1>6. CASE Cleaning!Unlock(t)
  BY <1>0, <1>6 DEF Cleaning!Unlock
<1> QED BY <1>1, <1>2, <1>3, <1>4, <1>5, <1>6 DEF Cleaning!Continue

LEMMA NextCleaning ==
  ASSUME CleaningInv, [StartupNext]_allVars
  PROVE  CleaningInv'
<1>1. CASE UNCHANGED cleaningVars
  BY <1>1 DEF cleaningVars, CleaningInv, Cleaning!TypeOK, InCleanLock
<1>2. CASE \E t \in Thread : Cleaning!EnsureCacheThreadActive(t) \/ Cleaning!Continue(t)
  BY <1>2, CleaningStep
<1> QED BY <1>1, <1>2 DEF StartupNext, ContextStep, AllocateHuge, Crashed, allVars

(***************************************************************************)
(* However many threads allocate huge locations at once, and whatever the  *)
(* system refused before, there is at most one cleaning thread.            *)
(***************************************************************************)
THEOREM OneCleanerCorrect == StartupSpec => []OneCleaner
<1>1. CleaningInv /\ [StartupNext]_allVars => CleaningInv'
  BY NextCleaning
<1>2. CleaningInv => OneCleaner
  BY DEF CleaningInv, OneCleaner
<1> QED BY InitCleaning, <1>1, <1>2, PTL DEF StartupSpec

-----------------------------------------------------------------------------
(* The invariant of the contexts is inductive.                             *)

LEMMA InitContext ==
  ASSUME Foreign = {}, ContextInit
  PROVE  ContextInv
<1>1. /\ initialized_ = FALSE /\ initLock_ = NoThread /\ tlsIndex_ \in Slot \cup {NoSlot}
      /\ taken = {} /\ threadContextPool_ = Context
      /\ TLS = [t \in Thread |-> [slot \in Slot |-> NoContext]]
      /\ doing = [t \in Thread |-> "idle"]
      /\ context = [t \in Thread |-> NoContext]
  BY DEF ContextInit
<1>2. NoThread \notin Thread
  BY NoThreadAssumption
<1>3. ContextTypeOK
  BY <1>1 DEF ContextTypeOK
<1>4. \A t \in Thread : /\ doing[t] = "idle" /\ context[t] = NoContext
                        /\ \A slot \in Slot : TLS[t][slot] = NoContext
  BY <1>1
<1>5. \A t \in Thread : Mine(t) = NoContext
  BY <1>1, <1>4 DEF Mine
<1>6. LockSound
  BY <1>1, <1>2, <1>4 DEF LockSound, InInitLock
<1>7. SlotsSound
  BY <1>1, <1>4 DEF SlotsSound, GetTLSValue
<1>8. ContextsSound
  BY <1>1, <1>4, <1>5 DEF ContextsSound
<1> QED BY <1>3, <1>6, <1>7, <1>8 DEF ContextInv

LEMMA LockStep ==
  ASSUME ContextInv, NEW t \in Thread, GetCurrentContext(t) \/ StartDeallocate(t) \/ Continue(t)
  PROVE  ContextTypeOK' /\ LockSound'
<1>1. NoThread \notin Thread
  BY NoThreadAssumption
<1>2. ContextTypeOK /\ LockSound /\ SlotsSound
  BY DEF ContextInv
<1>3. GetTLSValue(t) \in Context \cup {NoContext} /\ (GetTLSValue(t) # NoContext => initialized_)
  BY <1>2 DEF SlotsSound, ContextTypeOK, GetTLSValue
<1> USE DEF ContextTypeOK, LockSound, InInitLock, Proceed
<1>4. CASE GetCurrentContext(t)
  BY <1>2, <1>3, <1>4 DEF GetCurrentContext
<1>5. CASE StartDeallocate(t)
  <2>1. initialized_
    BY <1>5 DEF StartDeallocate, ContextInv, ContextsSound
  <2> QED BY <1>2, <1>3, <1>5, <2>1 DEF StartDeallocate
<1>6. CASE ReadFlag(t)
  BY <1>2, <1>6 DEF ReadFlag
<1>7. CASE Lock(t)
  BY <1>1, <1>2, <1>7 DEF Lock
<1>8. CASE Check(t)
  <2>1. /\ tlsIndex_' \in Slot \cup {NoSlot} /\ taken' \subseteq Slot
        /\ TLS' \in [Thread -> [Slot -> Context \cup {NoContext, Other}]]
    <3>1. CASE initialized_
      BY <1>2, <1>8, <3>1 DEF Check, MustAllocateIndex
    <3>2. CASE ~ initialized_ /\ tlsIndex_' = NoSlot /\ UNCHANGED <<taken, TLS>>
      BY <1>2, <3>2
    <3>3. CASE ~ initialized_ /\ ~ (tlsIndex_' = NoSlot /\ UNCHANGED <<taken, TLS>>)
      <4>1. PICK slot \in Slot \ taken :
              /\ tlsIndex_' = slot /\ taken' = taken \cup {slot}
              /\ TLS' = [u \in Thread |-> [TLS[u] EXCEPT ![slot] = NoContext]]
        BY <1>8, <3>3 DEF Check, MustAllocateIndex, AllocateTLSIndex
      <4>2. \A u \in Thread : TLS[u] \in [Slot -> Context \cup {NoContext, Other}]
        BY <1>2
      <4>3. \A u \in Thread :
              [TLS[u] EXCEPT ![slot] = NoContext] \in [Slot -> Context \cup {NoContext, Other}]
        BY <4>2
      <4>4. TLS' \in [Thread -> [Slot -> Context \cup {NoContext, Other}]]
        BY <4>1, <4>3
      <4> QED BY <1>2, <4>1, <4>4
    <3> QED BY <3>1, <3>2, <3>3
  <2>2. PICK next \in {"SetFlag", "Unlock"} :
          doing' = [doing EXCEPT ![t] = next] /\ (next = "SetFlag" <=> ~ initialized_)
    BY <1>8 DEF Check, MustAllocateIndex
  <2>3. doing[t] = "Check" /\ UNCHANGED <<initialized_, initLock_, threadContextPool_, context>>
    BY <1>8 DEF Check
  <2> QED BY <1>2, <2>1, <2>2, <2>3
<1>9. CASE SetFlag(t)
  BY <1>1, <1>2, <1>9 DEF SetFlag
<1>10. CASE Unlock(t)
  BY <1>1, <1>2, <1>10 DEF Unlock
<1>11. CASE GetObject(t)
  BY <1>2, <1>11 DEF GetObject, PoolAfter
<1>12. CASE SetTLSValue(t)
  BY <1>2, <1>12 DEF SetTLSValue, SetTLSValueTo
<1>13. CASE Finish(t)
  BY <1>2, <1>13 DEF Finish
<1>14. CASE UseNull(t)
  BY <1>2, <1>14 DEF UseNull
<1> QED BY <1>4, <1>5, <1>6, <1>7, <1>8, <1>9, <1>10, <1>11, <1>12, <1>13, <1>14 DEF Continue

(* Steps that neither fill a slot nor take a context from the pool.        *)
LEMMA ContextsKept ==
  ASSUME ContextInv, UNCHANGED <<tlsIndex_, TLS, threadContextPool_>>,
         initialized_ => initialized_', NEW t \in Thread,
         \A u \in Thread \ {t} : doing'[u] = doing[u] /\ context'[u] = context[u],
         doing[t] # "SetTLSValue", doing'[t] # "SetTLSValue",
         context'[t] \in {NoContext, GetTLSValue(t)},
         doing'[t] \notin {"idle", "Allocate", "Deallocate", "crashed"} => GetTLSValue(t) = NoContext,
         doing'[t] \notin {"Allocate", "Deallocate"} => context'[t] = NoContext,
         doing'[t] = "Allocate" => context'[t] \in Context
  PROVE  SlotsSound' /\ ContextsSound'
<1>1. /\ \A u \in Thread : GetTLSValue(u)' = GetTLSValue(u)
      /\ \A u \in Thread : Mine(u)' = Mine(u) \/ Mine(u)' = NoContext
      /\ tlsIndex_ \in Slot => \A u \in Thread : Mine(u)' = Mine(u)
  BY DEF Mine, GetTLSValue
<1>2. SlotsSound'
  BY <1>1 DEF ContextInv, SlotsSound
<1>3. \A u \in Thread :
        /\ doing'[u] \in {"SetTLSValue", "Allocate"} => context'[u] \in Context
        /\ doing'[u] \notin {"SetTLSValue", "Allocate", "Deallocate"} => context'[u] = NoContext
        /\ context'[u] \in {NoContext, Mine(u)'}
  <2>1. ASSUME NEW u \in Thread \ {t}
        PROVE  /\ doing'[u] \in {"SetTLSValue", "Allocate"} => context'[u] \in Context
               /\ doing'[u] \notin {"SetTLSValue", "Allocate", "Deallocate"} => context'[u] = NoContext
               /\ context'[u] \in {NoContext, Mine(u)'}
    <3>1. Mine(u)' = Mine(u)
      BY DEF Mine
    <3> QED BY <2>1, <3>1 DEF ContextInv, ContextsSound
  <2>2. context'[t] \in {NoContext, Mine(t)'}
    BY DEF Mine, GetTLSValue
  <2> QED BY <2>1, <2>2
<1>4. \A u \in Thread : Mine(u)' # NoContext =>
        /\ Mine(u)' \in Context \ threadContextPool_'
        /\ \A v \in Thread \ {u} : Mine(v)' # Mine(u)'
  BY <1>1 DEF ContextInv, ContextsSound
<1>5. /\ tlsIndex_' \in Slot =>
           \A c \in Context \ threadContextPool_' : \E u \in Thread : Mine(u)' = c
      /\ ~ initialized_' => threadContextPool_' = Context
  BY <1>1 DEF ContextInv, ContextsSound
<1> QED BY <1>2, <1>3, <1>4, <1>5 DEF ContextsSound

LEMMA QuietStep ==
  ASSUME ContextInv, NEW t \in Thread,
         \/ GetCurrentContext(t) \/ StartDeallocate(t) \/ Finish(t) \/ UseNull(t)
         \/ ReadFlag(t) \/ Lock(t) \/ SetFlag(t) \/ Unlock(t)
  PROVE  SlotsSound' /\ ContextsSound'
<1>1. ContextTypeOK /\ LockSound /\ SlotsSound /\ ContextsSound
  BY DEF ContextInv
<1>2. /\ GetTLSValue(t) \in Context \cup {NoContext}
      /\ doing[t] \notin {"idle", "Allocate", "Deallocate", "crashed"} => GetTLSValue(t) = NoContext
  BY <1>1 DEF SlotsSound
<1>3. doing[t] \notin {"SetTLSValue", "Allocate", "Deallocate"} => context[t] = NoContext
  BY <1>1 DEF ContextsSound
<1>4. /\ UNCHANGED <<tlsIndex_, TLS, threadContextPool_>>
      /\ initialized_ => initialized_'
      /\ \A u \in Thread \ {t} : doing'[u] = doing[u] /\ context'[u] = context[u]
      /\ doing[t] # "SetTLSValue" /\ doing'[t] # "SetTLSValue"
  BY <1>1 DEF ContextTypeOK, Proceed, GetCurrentContext, StartDeallocate,
    Finish, UseNull, ReadFlag, Lock, SetFlag, Unlock
<1>5. /\ context'[t] \in {NoContext, GetTLSValue(t)}
      /\ doing'[t] \notin {"idle", "Allocate", "Deallocate", "crashed"} => GetTLSValue(t) = NoContext
      /\ doing'[t] \notin {"Allocate", "Deallocate"} => context'[t] = NoContext
      /\ doing'[t] = "Allocate" => context'[t] \in Context
  <2> USE DEF ContextTypeOK, Proceed
  <2>1. CASE GetCurrentContext(t)
    BY <1>1, <1>2, <2>1 DEF GetCurrentContext
  <2>2. CASE StartDeallocate(t)
    BY <1>1, <1>2, <2>2 DEF StartDeallocate
  <2>3. CASE Finish(t)
    BY <1>1, <1>2, <2>3 DEF Finish
  <2>4. CASE UseNull(t)
    BY <1>1, <1>3, <2>4 DEF UseNull
  <2>5. CASE ReadFlag(t) \/ Lock(t) \/ SetFlag(t) \/ Unlock(t)
    BY <1>1, <1>2, <1>3, <2>5 DEF ReadFlag, Lock, SetFlag, Unlock
  <2> QED BY <2>1, <2>2, <2>3, <2>4, <2>5
<1> QED BY <1>4, <1>5, ContextsKept

(* The index is obtained while every slot is empty.                        *)
LEMMA CheckStep ==
  ASSUME ContextInv, NEW t \in Thread, Check(t)
  PROVE  SlotsSound' /\ ContextsSound'
<1>1. ContextTypeOK /\ LockSound /\ SlotsSound /\ ContextsSound
  BY DEF ContextInv
<1>2. /\ doing[t] = "Check" /\ UNCHANGED <<initialized_, threadContextPool_, context>>
  BY DEF Check
<1>3. PICK next \in {"SetFlag", "Unlock"} : doing' = [doing EXCEPT ![t] = next]
  BY DEF Check, Proceed
<1>4. CASE initialized_
  <2>1. UNCHANGED <<tlsIndex_, TLS>>
    BY <1>4 DEF Check, MustAllocateIndex
  <2>2. \A u \in Thread : Mine(u)' = Mine(u) /\ GetTLSValue(u)' = GetTLSValue(u)
    BY <1>1, <1>2, <1>3, <2>1 DEF Mine, GetTLSValue, ContextTypeOK
  <2>3. SlotsSound'
    BY <1>1, <1>2, <1>3, <2>1, <2>2 DEF SlotsSound, ContextTypeOK
  <2>4. ContextsSound'
    BY <1>1, <1>2, <1>3, <2>1, <2>2 DEF ContextsSound, ContextTypeOK
  <2> QED BY <2>3, <2>4
<1>5. CASE ~ initialized_
  <2>1. \A u \in Thread, slot \in Slot : TLS[u][slot] = NoContext
    BY <1>1, <1>5 DEF SlotsSound
  <2>2. \A u \in Thread, slot \in Slot : TLS'[u][slot] = NoContext
    <3>1. CASE TLS' = TLS
      BY <2>1, <3>1
    <3>2. ASSUME NEW new \in Slot, TLS' = [u \in Thread |-> [TLS[u] EXCEPT ![new] = NoContext]]
          PROVE  \A u \in Thread, slot \in Slot : TLS'[u][slot] = NoContext
      BY <1>1, <2>1, <3>2 DEF ContextTypeOK
    <3> QED BY <1>5, <3>1, <3>2 DEF Check, MustAllocateIndex, AllocateTLSIndex
  <2>3. \A u \in Thread :
          /\ doing[u] \notin {"SetTLSValue", "Allocate", "Deallocate"}
          /\ doing'[u] \notin {"SetTLSValue", "Allocate", "Deallocate"}
    BY <1>1, <1>3, <1>5 DEF LockSound, ContextTypeOK
  <2>4. \A u \in Thread : context'[u] = NoContext
    BY <1>1, <1>2, <2>3 DEF ContextsSound
  <2>5. \A u \in Thread : Mine(u)' = NoContext /\ GetTLSValue(u)' = NoContext
    BY <2>2, <2>3, <2>4 DEF Mine, GetTLSValue
  <2>6. SlotsSound'
    BY <2>2, <2>5 DEF SlotsSound
  <2>7. threadContextPool_' = Context
    BY <1>1, <1>2, <1>5 DEF ContextsSound
  <2>8. ContextsSound'
    BY <2>3, <2>4, <2>5, <2>7 DEF ContextsSound
  <2> QED BY <2>6, <2>8
<1> QED BY <1>4, <1>5

LEMMA GetObjectStep ==
  ASSUME ContextInv, NEW t \in Thread, GetObject(t)
  PROVE  SlotsSound' /\ ContextsSound'
<1>1. ContextTypeOK /\ LockSound /\ SlotsSound /\ ContextsSound
  BY DEF ContextInv
<1>2. PICK c \in threadContextPool_ :
        /\ context' = [context EXCEPT ![t] = c] /\ threadContextPool_' = threadContextPool_ \ {c}
        /\ doing' = [doing EXCEPT ![t] = "SetTLSValue"]
        /\ UNCHANGED <<initialized_, tlsIndex_, TLS>>
  BY DEF GetObject, PoolAfter, Proceed
<1>3. /\ c \in Context /\ c # NoContext /\ doing[t] = "GetObject" /\ context[t] = NoContext
      /\ GetTLSValue(t) = NoContext /\ initialized_
  BY <1>1, ContextAssumption DEF GetObject, ContextTypeOK, SlotsSound, ContextsSound, LockSound
<1>4. Mine(t) = NoContext /\ Mine(t)' = c
  BY <1>1, <1>2, <1>3 DEF Mine, GetTLSValue, ContextTypeOK
<1>5. /\ \A u \in Thread \ {t} : Mine(u)' = Mine(u) /\ doing'[u] = doing[u] /\ context'[u] = context[u]
      /\ \A u \in Thread : GetTLSValue(u)' = GetTLSValue(u)
  BY <1>1, <1>2 DEF Mine, GetTLSValue, ContextTypeOK
<1>6. doing'[t] = "SetTLSValue" /\ context'[t] = c
  BY <1>1, <1>2 DEF ContextTypeOK
<1>7. \A u \in Thread \ {t} : Mine(u) # c
  BY <1>1, <1>2, <1>3 DEF ContextsSound
<1>8. SlotsSound'
  BY <1>1, <1>2, <1>3, <1>5 DEF SlotsSound
<1>9. \A u \in Thread :
        /\ doing'[u] \in {"SetTLSValue", "Allocate"} => context'[u] \in Context
        /\ doing'[u] \notin {"SetTLSValue", "Allocate", "Deallocate"} => context'[u] = NoContext
        /\ context'[u] \in {NoContext, Mine(u)'}
  BY <1>1, <1>3, <1>4, <1>5, <1>6 DEF ContextsSound
<1>10. \A u \in Thread : Mine(u)' # NoContext =>
         /\ Mine(u)' \in Context \ threadContextPool_'
         /\ \A v \in Thread \ {u} : Mine(v)' # Mine(u)'
  BY <1>1, <1>2, <1>3, <1>4, <1>5, <1>7 DEF ContextsSound
<1>11. ASSUME tlsIndex_' \in Slot, NEW d \in Context \ threadContextPool_'
       PROVE  \E u \in Thread : Mine(u)' = d
  <2>1. CASE d = c
    BY <1>4, <2>1
  <2>2. CASE d # c
    <3>1. PICK u \in Thread : Mine(u) = d
      BY <1>1, <1>2, <1>11, <2>2 DEF ContextsSound
    <3>2. u # t
      BY <1>4, <3>1, ContextAssumption
    <3> QED BY <1>5, <3>1, <3>2
  <2> QED BY <2>1, <2>2
<1> QED BY <1>2, <1>3, <1>8, <1>9, <1>10, <1>11 DEF ContextsSound

LEMMA SetTLSValueStep ==
  ASSUME ContextInv, NEW t \in Thread, SetTLSValue(t)
  PROVE  SlotsSound' /\ ContextsSound'
<1>1. ContextTypeOK /\ LockSound /\ SlotsSound /\ ContextsSound
  BY DEF ContextInv
<1>2. /\ doing[t] = "SetTLSValue" /\ doing' = [doing EXCEPT ![t] = "Allocate"]
      /\ TLS' = IF tlsIndex_ \in Slot THEN [TLS EXCEPT ![t][tlsIndex_] = context[t]] ELSE TLS
      /\ UNCHANGED <<initialized_, tlsIndex_, threadContextPool_, context>>
  BY DEF SetTLSValue, SetTLSValueTo, Proceed
<1>3. initialized_ /\ context[t] \in Context
  BY <1>1, <1>2 DEF LockSound, ContextsSound
<1>4. /\ tlsIndex_ \in Slot => TLS'[t][tlsIndex_] = context[t]
      /\ doing'[t] = "Allocate"
      /\ \A slot \in Slot \ {tlsIndex_} : TLS'[t][slot] = TLS[t][slot]
      /\ \A u \in Thread \ {t} : TLS'[u] = TLS[u] /\ doing'[u] = doing[u]
  BY <1>1, <1>2 DEF ContextTypeOK
<1>5. /\ \A u \in Thread : Mine(u)' = Mine(u)
      /\ GetTLSValue(t)' \in {NoContext, context[t]}
      /\ \A u \in Thread \ {t} : GetTLSValue(u)' = GetTLSValue(u)
  BY <1>2, <1>4 DEF Mine, GetTLSValue
<1>6. SlotsSound'
  <2>1. \A u \in Thread, slot \in Slot :
          TLS'[u][slot] # NoContext => slot = tlsIndex_ /\ initialized_
    BY <1>1, <1>3, <1>4 DEF SlotsSound
  <2>2. \A u \in Thread :
          /\ GetTLSValue(u)' \in Context \cup {NoContext}
          /\ doing'[u] \notin {"idle", "Allocate", "Deallocate", "crashed"} => GetTLSValue(u)' = NoContext
    BY <1>1, <1>3, <1>4, <1>5 DEF SlotsSound
  <2> QED BY <1>2, <2>1, <2>2 DEF SlotsSound
<1>7. \A u \in Thread :
        /\ doing'[u] \in {"SetTLSValue", "Allocate"} => context'[u] \in Context
        /\ doing'[u] \notin {"SetTLSValue", "Allocate", "Deallocate"} => context'[u] = NoContext
  BY <1>1, <1>2, <1>3, <1>4 DEF ContextsSound
<1>8. ContextsSound'
  BY <1>1, <1>2, <1>5, <1>7 DEF ContextsSound
<1> QED BY <1>6, <1>8

LEMMA NextContext ==
  ASSUME ContextInv, [StartupNext]_allVars
  PROVE  ContextInv'
<1>1. CASE UNCHANGED contextVars
  BY <1>1 DEF contextVars, ContextInv, ContextTypeOK, LockSound, InInitLock, SlotsSound,
    ContextsSound, Mine, GetTLSValue
<1>2. ASSUME NEW t \in Thread, GetCurrentContext(t) \/ StartDeallocate(t) \/ Continue(t)
      PROVE  ContextInv'
  <2>1. ContextTypeOK' /\ LockSound'
    BY <1>2, LockStep
  <2>2. SlotsSound' /\ ContextsSound'
    BY <1>2, QuietStep, CheckStep, GetObjectStep, SetTLSValueStep DEF Continue
  <2> QED BY <2>1, <2>2 DEF ContextInv
<1> QED BY <1>1, <1>2 DEF StartupNext, ContextStep, AllocateHuge, Crashed, allVars

(***************************************************************************)
(* In a process in which no other library uses thread-local storage, an    *)
(* allocation works with a context that no other thread uses or has, and   *)
(* each thread is given one, once, however the starts interleave, and      *)
(* whatever the index was before it was obtained.                          *)
(***************************************************************************)
THEOREM OneContextCorrect ==
  ASSUME Foreign = {}
  PROVE  StartupSpec => []OneContextEach
<1>1. StartupInit => ContextInv
  BY InitContext DEF StartupInit
<1>2. ContextInv /\ [StartupNext]_allVars => ContextInv'
  BY NextContext
<1>3. ContextInv => OneContextEach
  <2> SUFFICES ASSUME ContextInv PROVE OneContextEach
    OBVIOUS
  <2>1. ContextTypeOK /\ SlotsSound /\ ContextsSound
    BY DEF ContextInv
  <2>2. ASSUME NEW t \in Thread, Using(t)
        PROVE  /\ context[t] \in Context
               /\ \A u \in Thread \ {t} :
                    context[u] # context[t] /\ \A slot \in Slot : TLS[u][slot] # context[t]
    <3>1. context[t] \in Context /\ context[t] # NoContext /\ Mine(t) = context[t]
      BY <2>1, <2>2, ContextAssumption DEF Using, ContextsSound
    <3>2. ASSUME NEW u \in Thread \ {t}
          PROVE  context[u] # context[t] /\ \A slot \in Slot : TLS[u][slot] # context[t]
      <4>1. Mine(u) # context[t]
        BY <2>1, <3>1 DEF ContextsSound
      <4>2. context[u] # context[t]
        BY <2>1, <3>1, <4>1 DEF ContextsSound
      <4>3. tlsIndex_ \in Slot => TLS[u][tlsIndex_] \in {NoContext, Mine(u)}
        BY <2>1 DEF SlotsSound, GetTLSValue, Mine
      <4>4. \A slot \in Slot : TLS[u][slot] # context[t]
        BY <2>1, <3>1, <4>1, <4>3 DEF SlotsSound
      <4> QED BY <4>2, <4>4
    <3> QED BY <3>1, <3>2
  <2>3. ASSUME tlsIndex_ \in Slot, NEW c \in Context \ threadContextPool_
        PROVE  \E t \in Thread : (doing[t] = "SetTLSValue" /\ context[t] = c) \/ GetTLSValue(t) = c
    BY <2>1, <2>3 DEF ContextsSound, Mine, GetTLSValue
  <2> QED BY <2>1, <2>2, <2>3 DEF OneContextEach
<1> QED BY <1>1, <1>2, <1>3, PTL DEF StartupSpec

-----------------------------------------------------------------------------
(* The test program.  No lock is needed in its invariant: the one thread   *)
(* that takes from a vector of passed objects is its owner, and the others *)
(* append to it, so that a place in it stays what it is; and an object     *)
(* appended after the owner went through the vector is in a place beyond   *)
(* the last it looked at.                                                  *)

(* What Tester assumes of its constants.                                   *)
TestConstants ==
  /\ nullptr \notin Location /\ NoThread \notin Thread
  /\ ACTION_COUNT \in Nat \ {0}

Phases == {"Execute", "Pop", "Passed", "Own", "Enter", "Push",
           "FreeObjects", "EnterPassed", "FreePassed", "done"}

InLoop == {"Execute", "Pop", "Passed", "Own", "Enter", "Push"}

(* The free slots of a thread, and the counts that bound them.             *)
ListSound(t) ==
  /\ ToSet(FreeSlots[t]) = {s \in DOMAIN Objects[t] : Objects[t][s] = nullptr}
  /\ IsInjective(FreeSlots[t])
  /\ Len(FreeSlots[t]) <= deallocateObjects[t]
  /\ deallocateObjects[t] <= IF pc[t] \in {"Enter", "Push"} THEN i[t] + 1 ELSE i[t]
  /\ Len(Objects[t]) <= i[t]

(* What a thread has in its hands, and how far it is.                      *)
PlaceSound(t) ==
  /\ pc[t] \in InLoop => i[t] < ACTION_COUNT /\ it[t] = 1
  /\ it[t] >= 1
  /\ pc[t] \in {"FreePassed", "done"} => it[t] <= Len(PassedObjects[t]) + 1
  /\ object[t] # nullptr <=> pc[t] \in {"Passed", "Enter", "Push"}
  /\ pc[t] \in {"Enter", "Push"} => otherThread[t] \in Thread \ {t}
  /\ pc[t] = "Pop" /\ PassedObjectsLock[t] = NoThread => PassedObjects[t] # <<>>

(* Location l is in place k of a kind of thread t.                         *)
HasSlot(t, k, l) ==
  /\ k \in DOMAIN Objects[t] /\ l = Objects[t][k] /\ l # nullptr
  /\ pc[t] \notin {"EnterPassed", "FreePassed", "done"}
  /\ pc[t] = "FreeObjects" => k >= it[t]

HasPassed(t, k, l) ==
  /\ k \in DOMAIN PassedObjects[t] /\ l = PassedObjects[t][k]
  /\ pc[t] \in {"FreePassed", "done"} => k >= it[t]

HasObject(t, k, l) == k = 1 /\ l = object[t] /\ l # nullptr

Has(t, kind, k, l) ==
  \/ kind = "slot" /\ HasSlot(t, k, l)
  \/ kind = "passed" /\ HasPassed(t, k, l)
  \/ kind = "object" /\ HasObject(t, k, l)

(* ObjectsOwned, place by place.                                           *)
Owned ==
  process # "crashed" =>
    /\ \A t \in Thread : \A kind, k, l : Has(t, kind, k, l) => l \in allocated
    /\ \A l \in allocated : \E t \in Thread : \E kind, k : Has(t, kind, k, l)
    /\ \A t, u \in Thread : \A kind, other, k, m, l :
         Has(t, kind, k, l) /\ Has(u, other, m, l) => t = u /\ kind = other /\ k = m

TestInv ==
  /\ TestConstants
  /\ TypeOK
  /\ \A t \in Thread : ListSound(t) /\ PlaceSound(t)
  /\ Owned

-----------------------------------------------------------------------------
(* What a step may do to the places.                                       *)

(* The places and what is allocated stay.                                  *)
LEMMA OwnedSame ==
  ASSUME Owned, process = "running", allocated' = allocated,
         \A t \in Thread : \A kind, k, l : Has(t, kind, k, l)' <=> Has(t, kind, k, l)
  PROVE  Owned'
BY DEF Owned

(* A location is allocated, and put into a place.                          *)
Added(t0, kind0, k0, l0) ==
  \A t \in Thread : \A kind, k, l :
    Has(t, kind, k, l)' <=>
      Has(t, kind, k, l) \/ (t = t0 /\ kind = kind0 /\ k = k0 /\ l = l0)

LEMMA OwnedAdd ==
  ASSUME Owned, process = "running",
         NEW t0 \in Thread, NEW kind0, NEW k0, NEW l0, l0 \notin allocated,
         allocated' = allocated \cup {l0},
         Added(t0, kind0, k0, l0)
  PROVE  Owned'
BY DEF Owned, Added

(* What is in a place is deallocated, or the process crashes over it.      *)
Removed(t0, kind0, k0) ==
  \A t \in Thread : \A kind, k, l :
    Has(t, kind, k, l)' <=> Has(t, kind, k, l) /\ ~ (t = t0 /\ kind = kind0 /\ k = k0)

LEMMA OwnedRemove ==
  ASSUME Owned, process = "running",
         NEW t0 \in Thread, NEW kind0, NEW k0, NEW l0, Has(t0, kind0, k0, l0),
         \A l : Has(t0, kind0, k0, l) => l = l0,
         process' = "crashed" \/ allocated' = allocated \ {l0},
         Removed(t0, kind0, k0)
  PROVE  Owned'
BY DEF Owned, Removed

(* What is in a place is put into another.                                 *)
Moved(t0, kind0, k0, l0, t1, kind1, k1) ==
  \A t \in Thread : \A kind, k, l :
    Has(t, kind, k, l)' <=>
      \/ Has(t, kind, k, l) /\ ~ (t = t0 /\ kind = kind0 /\ k = k0)
      \/ t = t1 /\ kind = kind1 /\ k = k1 /\ l = l0

LEMMA OwnedMove ==
  ASSUME Owned, process = "running", allocated' = allocated,
         NEW t0 \in Thread, NEW kind0, NEW k0, NEW l0, Has(t0, kind0, k0, l0),
         \A l : Has(t0, kind0, k0, l) => l = l0,
         NEW t1 \in Thread, NEW kind1, NEW k1,
         Moved(t0, kind0, k0, l0, t1, kind1, k1)
  PROVE  Owned'
<1> DEFINE From(t, kind, k) == t = t0 /\ kind = kind0 /\ k = k0
           To(t, kind, k) == t = t1 /\ kind = kind1 /\ k = k1
<1> SUFFICES ASSUME process' # "crashed" PROVE Owned'
  BY DEF Owned
<1>1. /\ \A t \in Thread : \A kind, k, l : Has(t, kind, k, l) => l \in allocated
      /\ \A l \in allocated : \E t \in Thread : \E kind, k : Has(t, kind, k, l)
      /\ \A t, u \in Thread : \A kind, other, k, m, l :
           Has(t, kind, k, l) /\ Has(u, other, m, l) => t = u /\ kind = other /\ k = m
  BY DEF Owned
<1>2. \A t \in Thread : \A kind, k, l : Has(t, kind, k, l)' => l \in allocated'
  BY <1>1 DEF Moved
<1>3. ASSUME NEW l \in allocated' PROVE \E t \in Thread : \E kind, k : Has(t, kind, k, l)'
  <2>1. CASE l = l0
    BY <2>1 DEF Moved
  <2>2. CASE l # l0
    <3>1. PICK t \in Thread : \E kind, k : Has(t, kind, k, l)
      BY <1>1, <1>3
    <3>2. \E kind, k : Has(t, kind, k, l)'
      BY <2>2, <3>1 DEF Moved
    <3> QED BY <3>2
  <2> QED BY <2>1, <2>2
<1>4. ASSUME NEW t \in Thread, NEW u \in Thread, NEW kind, NEW other, NEW k, NEW m, NEW l,
             Has(t, kind, k, l)', Has(u, other, m, l)'
      PROVE  t = u /\ kind = other /\ k = m
  <2>1. CASE l = l0
    <3>1. \A v \in Thread : \A x, y : Has(v, x, y, l0) => From(v, x, y)
      BY <1>1
    <3>2. \A v \in Thread : \A x, y : Has(v, x, y, l0)' => To(v, x, y)
      BY <3>1 DEF Moved
    <3> QED BY <1>4, <2>1, <3>2
  <2>2. CASE l # l0
    <3>1. Has(t, kind, k, l) /\ Has(u, other, m, l)
      BY <1>4, <2>2 DEF Moved
    <3> QED BY <1>1, <3>1
  <2> QED BY <2>1, <2>2
<1> QED BY <1>2, <1>3, <1>4 DEF Owned

-----------------------------------------------------------------------------
(* What the other threads keep.                                            *)

Untouched(u) ==
  /\ Objects'[u] = Objects[u] /\ FreeSlots'[u] = FreeSlots[u]
  /\ deallocateObjects'[u] = deallocateObjects[u]
  /\ PassedObjects'[u] = PassedObjects[u] /\ PassedObjectsLock'[u] = PassedObjectsLock[u]
  /\ i'[u] = i[u] /\ pc'[u] = pc[u] /\ object'[u] = object[u]
  /\ otherThread'[u] = otherThread[u] /\ it'[u] = it[u]

LEMMA UntouchedSound ==
  ASSUME NEW u \in Thread, Untouched(u), ListSound(u), PlaceSound(u)
  PROVE  ListSound(u)' /\ PlaceSound(u)'
BY DEF Untouched, ListSound, PlaceSound

LEMMA UntouchedHas ==
  ASSUME NEW u \in Thread, Untouched(u), NEW kind, NEW k, NEW l
  PROVE  Has(u, kind, k, l)' <=> Has(u, kind, k, l)
BY DEF Untouched, Has, HasSlot, HasPassed, HasObject

-----------------------------------------------------------------------------
(* Sequences.                                                              *)

(* PopPassed and InsertObject take the last element of a vector.           *)
LEMMA FrontFacts ==
  ASSUME NEW S, NEW f \in Seq(S), f # <<>>
  PROVE  /\ Len(f) \in Nat \ {0} /\ Last(f) = f[Len(f)] /\ Last(f) \in S
         /\ Front(f) \in Seq(S) /\ Len(Front(f)) = Len(f) - 1
         /\ \A k \in 1 .. Len(f) - 1 : Front(f)[k] = f[k]
<1>1. Len(f) \in Nat \ {0}
  OBVIOUS
<1>2. Last(f) = f[Len(f)] /\ Front(f) = SubSeq(f, 1, Len(f) - 1)
  BY DEF Last, Front
<1>3. f[Len(f)] \in S
  BY <1>1
<1>4. /\ SubSeq(f, 1, Len(f) - 1) \in Seq(S)
      /\ Len(SubSeq(f, 1, Len(f) - 1)) = Len(f) - 1
      /\ \A k \in 1 .. Len(f) - 1 : SubSeq(f, 1, Len(f) - 1)[k] = f[k]
  <2> DEFINE n == Len(f) - 1
  <2>1. n \in Int /\ n >= 0 /\ 1 \in Int /\ \A j \in 1 .. n : f[j] \in S
    BY <1>1
  <2> HIDE DEF n
  <2>2. /\ SubSeq(f, 1, n) \in Seq(S)
        /\ Len(SubSeq(f, 1, n)) = IF 1 <= n THEN n - 1 + 1 ELSE 0
        /\ \A j \in 1 .. n - 1 + 1 : SubSeq(f, 1, n)[j] = f[1 + j - 1]
    BY ONLY <2>1, SubSeqProperties
  <2>3. \A j \in 1 .. n : SubSeq(f, 1, n)[j] = f[j]
    <3>1. ASSUME NEW j \in 1 .. n PROVE j \in 1 .. n - 1 + 1 /\ 1 + j - 1 = j
      BY <2>1
    <3> QED BY <2>2, <3>1
  <2>4. Len(SubSeq(f, 1, n)) = n
    BY <2>1, <2>2
  <2> QED BY <2>2, <2>3, <2>4 DEF n
<1> QED BY <1>1, <1>2, <1>3, <1>4

(* The slot InsertObject uses is not free any more; the others are.        *)
LEMMA FrontSet ==
  ASSUME NEW S, NEW f \in Seq(S), f # <<>>, IsInjective(f)
  PROVE  ToSet(Front(f)) = ToSet(f) \ {Last(f)} /\ IsInjective(Front(f))
<1> DEFINE n == Len(f)
           g == Front(f)
<1>1. /\ n \in Nat \ {0} /\ Last(f) = f[n] /\ g \in Seq(S) /\ Len(g) = n - 1
      /\ \A k \in 1 .. n - 1 : g[k] = f[k]
  BY FrontFacts
<1>2. DOMAIN f = 1 .. n /\ DOMAIN g = 1 .. n - 1
  BY <1>1
<1>3. \A j, k \in 1 .. n : f[j] = f[k] => j = k
  BY <1>2 DEF IsInjective
<1>4. ToSet(f) = {f[k] : k \in 1 .. n} /\ ToSet(g) = {g[k] : k \in 1 .. n - 1}
  BY <1>2 DEF ToSet
<1>5. IsInjective(g)
  BY <1>1, <1>2, <1>3 DEF IsInjective
<1> HIDE DEF n, g
<1>6. ToSet(g) = ToSet(f) \ {f[n]}
  BY <1>1, <1>3, <1>4
<1> QED BY <1>1, <1>5, <1>6 DEF g

(* The slot ResetSlot empties is free in addition.                         *)
LEMMA AppendSet ==
  ASSUME NEW S, NEW f \in Seq(S), NEW x, x \notin ToSet(f), IsInjective(f)
  PROVE  ToSet(Append(f, x)) = ToSet(f) \cup {x} /\ IsInjective(Append(f, x))
<1> DEFINE n == Len(f)
           g == Append(f, x)
<1>1. /\ n \in Nat /\ Len(g) = n + 1 /\ DOMAIN f = 1 .. n /\ DOMAIN g = 1 .. n + 1
      /\ \A k \in 1 .. n : g[k] = f[k]
      /\ g[n + 1] = x
  OBVIOUS
<1>2. \A j, k \in 1 .. n : f[j] = f[k] => j = k
  BY <1>1 DEF IsInjective
<1>3. ToSet(f) = {f[k] : k \in 1 .. n} /\ ToSet(g) = {g[k] : k \in 1 .. n + 1}
  BY <1>1 DEF ToSet
<1> HIDE DEF n, g
<1>4. ToSet(g) = ToSet(f) \cup {x}
  BY <1>1, <1>3
<1>5. \A j, k \in 1 .. n + 1 : g[j] = g[k] => j = k
  BY <1>1, <1>2, <1>3
<1>6. IsInjective(g)
  BY <1>1, <1>5 DEF IsInjective
<1> QED BY <1>4, <1>6 DEF g

-----------------------------------------------------------------------------
(* The actions' parts.                                                     *)

(* Goto changes the place of one thread.                                   *)
LEMMA GotoFacts ==
  ASSUME TypeOK, NEW t \in Thread, NEW label \in Phases, Goto(t, label)
  PROVE  /\ pc' \in [Thread -> Phases] /\ pc'[t] = label
         /\ \A u \in Thread \ {t} : pc'[u] = pc[u]
BY DEF TypeOK, Phases, Goto

(* NextAction counts the action, and ends the loop at the last one.        *)
LEMMA NextFacts ==
  ASSUME TestConstants, TypeOK, NEW t \in Thread, i[t] < ACTION_COUNT, NextAction(t)
  PROVE  /\ pc' \in [Thread -> Phases] /\ i' \in [Thread -> 0 .. ACTION_COUNT]
         /\ i'[t] = i[t] + 1
         /\ \/ pc'[t] = "Execute" /\ i'[t] < ACTION_COUNT
            \/ pc'[t] = "FreeObjects"
         /\ \A u \in Thread \ {t} : pc'[u] = pc[u] /\ i'[u] = i[u]
<1>1. i \in [Thread -> 0 .. ACTION_COUNT] /\ ACTION_COUNT \in Nat
  BY DEF TypeOK, TestConstants
<1>2. i' = [i EXCEPT ![t] = i[t] + 1]
      /\ Goto(t, IF i[t] + 1 < ACTION_COUNT THEN "Execute" ELSE "FreeObjects")
  BY DEF NextAction
<1>3. i' \in [Thread -> 0 .. ACTION_COUNT] /\ i'[t] = i[t] + 1
      /\ \A u \in Thread \ {t} : i'[u] = i[u]
  BY <1>1, <1>2
<1>4. CASE i[t] + 1 < ACTION_COUNT
  <2>1. Goto(t, "Execute") /\ "Execute" \in Phases
    BY <1>2, <1>4 DEF Phases
  <2> QED BY <1>3, <1>4, <2>1, GotoFacts
<1>5. CASE ~ (i[t] + 1 < ACTION_COUNT)
  <2>1. Goto(t, "FreeObjects") /\ "FreeObjects" \in Phases
    BY <1>2, <1>5 DEF Phases
  <2> QED BY <1>3, <1>5, <2>1, GotoFacts
<1> QED BY <1>4, <1>5

(* Which slots are free, the threads' slots being given.                   *)
FreeSlotsAre(free, slots) ==
  /\ ToSet(free) = {s \in DOMAIN slots : slots[s] = nullptr}
  /\ IsInjective(free)

Inserted(t, l) ==
  /\ Objects' \in [Thread -> Seq(Location \cup {nullptr})]
  /\ FreeSlots' \in [Thread -> Seq(1 .. ACTION_COUNT)]
  /\ deallocateObjects' = deallocateObjects
  /\ \A u \in Thread \ {t} : Objects'[u] = Objects[u] /\ FreeSlots'[u] = FreeSlots[u]
  /\ FreeSlotsAre(FreeSlots'[t], Objects'[t])
  /\ Len(FreeSlots'[t]) <= Len(FreeSlots[t])
  /\ Len(Objects'[t]) <= Len(Objects[t]) + 1
  /\ \E s \in Nat :
       /\ s \in DOMAIN Objects[t] => Objects[t][s] = nullptr
       /\ DOMAIN Objects'[t] = DOMAIN Objects[t] \cup {s}
       /\ Objects'[t][s] = l
       /\ \A k \in DOMAIN Objects[t] \ {s} : Objects'[t][k] = Objects[t][k]

(* InsertObject uses a slot without an object, or adds one.                *)
LEMMA InsertFacts ==
  ASSUME TestConstants, TypeOK, NEW t \in Thread, ListSound(t), i[t] < ACTION_COUNT,
         NEW l \in Location, InsertObject(t, l)
  PROVE  Inserted(t, l)
<1> DEFINE S == Location \cup {nullptr}
           N == 1 .. ACTION_COUNT
           slots == Objects[t]
           free == FreeSlots[t]
<1>1. /\ Objects \in [Thread -> Seq(S)] /\ FreeSlots \in [Thread -> Seq(N)]
      /\ slots \in Seq(S) /\ free \in Seq(N) /\ l \in S /\ l # nullptr
  BY DEF TypeOK, TestConstants
<1>2. /\ ToSet(free) = {s \in DOMAIN slots : slots[s] = nullptr} /\ IsInjective(free)
  BY DEF ListSound
<1>3. deallocateObjects' = deallocateObjects
  BY DEF InsertObject
<1>4. CASE free # <<>>
  <2> DEFINE s == Last(free)
             new == [slots EXCEPT ![s] = l]
             rest == Front(free)
  <2>1. Objects' = [Objects EXCEPT ![t] = new] /\ FreeSlots' = [FreeSlots EXCEPT ![t] = rest]
    BY <1>4 DEF InsertObject
  <2>2. /\ Len(free) \in Nat \ {0} /\ s = free[Len(free)] /\ rest \in Seq(N)
        /\ Len(rest) = Len(free) - 1
    BY <1>1, <1>4, FrontFacts
  <2>3. ToSet(rest) = ToSet(free) \ {s} /\ IsInjective(rest)
    BY <1>1, <1>2, <1>4, FrontSet
  <2>4. s \in DOMAIN slots /\ slots[s] = nullptr
    <3>1. s \in ToSet(free)
      BY <1>1, <2>2 DEF ToSet
    <3> QED BY <1>2, <3>1
  <2>5. /\ new \in Seq(S) /\ DOMAIN new = DOMAIN slots /\ Len(new) = Len(slots) /\ s \in Nat
        /\ new[s] = l /\ \A k \in DOMAIN slots \ {s} : new[k] = slots[k]
    <3> HIDE DEF s
    <3> QED BY <1>1, <2>4
  <2> HIDE DEF s, new, rest, S, N
  <2>6. /\ Objects' \in [Thread -> Seq(S)] /\ FreeSlots' \in [Thread -> Seq(N)]
        /\ Objects'[t] = new /\ FreeSlots'[t] = rest
        /\ \A u \in Thread \ {t} : Objects'[u] = Objects[u] /\ FreeSlots'[u] = FreeSlots[u]
    BY <1>1, <2>1, <2>2, <2>5
  <2>7. ToSet(rest) = {k \in DOMAIN new : new[k] = nullptr}
    BY <1>1, <1>2, <2>3, <2>4, <2>5
  <2>8. FreeSlotsAre(FreeSlots'[t], Objects'[t])
    BY <2>3, <2>6, <2>7 DEF FreeSlotsAre
  <2>9. /\ Len(FreeSlots'[t]) <= Len(free) /\ Len(Objects'[t]) <= Len(slots) + 1
    BY <1>1, <2>2, <2>5, <2>6
  <2>10. /\ s \in DOMAIN slots => slots[s] = nullptr
         /\ DOMAIN Objects'[t] = DOMAIN slots \cup {s}
         /\ Objects'[t][s] = l
         /\ \A k \in DOMAIN slots \ {s} : Objects'[t][k] = slots[k]
    BY <2>4, <2>5, <2>6
  <2>11. s \in Nat
    BY <2>5
  <2>12. \E k \in Nat :
           /\ k \in DOMAIN slots => slots[k] = nullptr
           /\ DOMAIN Objects'[t] = DOMAIN slots \cup {k}
           /\ Objects'[t][k] = l
           /\ \A j \in DOMAIN slots \ {k} : Objects'[t][j] = slots[j]
    <3> HIDE DEF slots
    <3> QED BY <2>10, <2>11
  <2> QED BY <1>3, <2>6, <2>8, <2>9, <2>12 DEF S, N, Inserted
<1>5. CASE free = <<>>
  <2> DEFINE s == Len(slots) + 1
             new == Append(slots, l)
  <2>1. Objects' = [Objects EXCEPT ![t] = new] /\ FreeSlots' = FreeSlots
    BY <1>5 DEF InsertObject
  <2>2. /\ new \in Seq(S) /\ DOMAIN new = DOMAIN slots \cup {s} /\ Len(new) = Len(slots) + 1
        /\ s \in Nat /\ s \notin DOMAIN slots /\ new[s] = l
        /\ \A k \in DOMAIN slots \ {s} : new[k] = slots[k]
    BY <1>1
  <2> HIDE DEF s, new, S, N
  <2>3. /\ Objects' \in [Thread -> Seq(S)] /\ FreeSlots' \in [Thread -> Seq(N)]
        /\ Objects'[t] = new /\ FreeSlots'[t] = free
        /\ \A u \in Thread \ {t} : Objects'[u] = Objects[u] /\ FreeSlots'[u] = FreeSlots[u]
    BY <1>1, <2>1, <2>2
  <2>4. ToSet(free) = {k \in DOMAIN new : new[k] = nullptr}
    BY <1>1, <1>2, <2>2
  <2>5. FreeSlotsAre(FreeSlots'[t], Objects'[t])
    BY <1>2, <2>3, <2>4 DEF FreeSlotsAre
  <2>6. Len(FreeSlots'[t]) <= Len(free)
    <3>1. Len(free) \in Nat
      BY <1>1
    <3> QED BY <2>3, <3>1
  <2>7. Len(Objects'[t]) <= Len(slots) + 1
    <3>1. Len(slots) \in Nat
      BY <1>1
    <3>2. Len(new) = Len(slots) + 1 /\ Objects'[t] = new
      BY <2>2, <2>3
    <3> QED BY <3>1, <3>2
  <2>8. \E k \in Nat :
           /\ k \in DOMAIN slots => slots[k] = nullptr
           /\ DOMAIN Objects'[t] = DOMAIN slots \cup {k}
           /\ Objects'[t][k] = l
           /\ \A j \in DOMAIN slots \ {k} : Objects'[t][j] = slots[j]
    <3> HIDE DEF slots
    <3> QED BY <2>2, <2>3
  <2> QED BY <1>3, <2>3, <2>5, <2>6, <2>7, <2>8 DEF S, N, Inserted
<1> QED BY <1>4, <1>5

Emptied(t, s) ==
  /\ Objects' \in [Thread -> Seq(Location \cup {nullptr})]
  /\ FreeSlots' \in [Thread -> Seq(1 .. ACTION_COUNT)]
  /\ deallocateObjects' \in [Thread -> 0 .. ACTION_COUNT]
  /\ \A u \in Thread \ {t} :
       /\ Objects'[u] = Objects[u] /\ FreeSlots'[u] = FreeSlots[u]
       /\ deallocateObjects'[u] = deallocateObjects[u]
  /\ FreeSlotsAre(FreeSlots'[t], Objects'[t])
  /\ Len(FreeSlots'[t]) = Len(FreeSlots[t]) + 1
  /\ deallocateObjects'[t] = deallocateObjects[t] + 1
  /\ Len(Objects'[t]) = Len(Objects[t]) /\ DOMAIN Objects'[t] = DOMAIN Objects[t]
  /\ Objects'[t][s] = nullptr
  /\ \A k \in DOMAIN Objects[t] \ {s} : Objects'[t][k] = Objects[t][k]

(* ResetSlot empties one slot.                                             *)
LEMMA ResetFacts ==
  ASSUME TestConstants, TypeOK, NEW t \in Thread, ListSound(t), deallocateObjects[t] < ACTION_COUNT,
         NEW s \in DOMAIN Objects[t], Objects[t][s] # nullptr, ResetSlot(t, s)
  PROVE  Emptied(t, s)
<1> DEFINE S == Location \cup {nullptr}
           N == 1 .. ACTION_COUNT
           slots == Objects[t]
           free == FreeSlots[t]
           new == [slots EXCEPT ![s] = nullptr]
           more == Append(free, s)
<1>1. /\ Objects \in [Thread -> Seq(S)] /\ FreeSlots \in [Thread -> Seq(N)]
      /\ slots \in Seq(S) /\ free \in Seq(N) /\ nullptr \in S
      /\ ACTION_COUNT \in Nat /\ i[t] \in 0 .. ACTION_COUNT
      /\ deallocateObjects \in [Thread -> 0 .. ACTION_COUNT]
  BY DEF TypeOK, TestConstants
<1>2. /\ ToSet(free) = {k \in DOMAIN slots : slots[k] = nullptr} /\ IsInjective(free)
      /\ Len(slots) <= i[t]
  BY DEF ListSound
<1>3. /\ Objects' = [Objects EXCEPT ![t] = new] /\ FreeSlots' = [FreeSlots EXCEPT ![t] = more]
      /\ deallocateObjects' = [deallocateObjects EXCEPT ![t] = deallocateObjects[t] + 1]
  BY DEF ResetSlot
<1>4. s \in N
  BY <1>1, <1>2
<1>5. s \notin ToSet(free)
  BY <1>2
<1>6. ToSet(more) = ToSet(free) \cup {s} /\ IsInjective(more)
  BY <1>1, <1>2, <1>5, AppendSet
<1>7. /\ new \in Seq(S) /\ DOMAIN new = DOMAIN slots /\ Len(new) = Len(slots)
      /\ new[s] = nullptr /\ \A k \in DOMAIN slots \ {s} : new[k] = slots[k]
      /\ more \in Seq(N) /\ Len(more) = Len(free) + 1
  BY <1>1, <1>4
<1>8. /\ deallocateObjects' \in [Thread -> 0 .. ACTION_COUNT]
      /\ deallocateObjects'[t] = deallocateObjects[t] + 1
      /\ \A u \in Thread \ {t} : deallocateObjects'[u] = deallocateObjects[u]
  BY <1>1, <1>3
<1> HIDE DEF new, more, S, N
<1>9. /\ Objects' \in [Thread -> Seq(S)] /\ FreeSlots' \in [Thread -> Seq(N)]
      /\ Objects'[t] = new /\ FreeSlots'[t] = more
      /\ \A u \in Thread \ {t} : Objects'[u] = Objects[u] /\ FreeSlots'[u] = FreeSlots[u]
  BY <1>1, <1>3, <1>7
<1>10. ToSet(more) = {k \in DOMAIN new : new[k] = nullptr}
  BY <1>2, <1>6, <1>7
<1>11. FreeSlotsAre(FreeSlots'[t], Objects'[t])
  BY <1>6, <1>9, <1>10 DEF FreeSlotsAre
<1> QED BY <1>7, <1>8, <1>9, <1>11 DEF S, N, Emptied

-----------------------------------------------------------------------------
(* Each step keeps the invariant.                                          *)

(* What the invariant says of one thread's variables.                      *)
LEMMA TypeFacts ==
  ASSUME TestInv, NEW t \in Thread
  PROVE  /\ ACTION_COUNT \in Nat \ {0} /\ nullptr \notin Location /\ NoThread \notin Thread
         /\ Objects[t] \in Seq(Location \cup {nullptr})
         /\ FreeSlots[t] \in Seq(1 .. ACTION_COUNT)
         /\ deallocateObjects[t] \in 0 .. ACTION_COUNT
         /\ PassedObjects[t] \in Seq(Location)
         /\ i[t] \in 0 .. ACTION_COUNT /\ it[t] \in Nat
         /\ object[t] \in Location \cup {nullptr}
         /\ ListSound(t) /\ PlaceSound(t)
BY DEF TestInv, TestConstants, TypeOK

(* A step that changes the variables of one thread only.                   *)
LEMMA OthersKeep ==
  ASSUME TestInv, NEW t \in Thread, \A u \in Thread \ {t} : Untouched(u),
         TypeOK', ListSound(t)', PlaceSound(t)', Owned'
  PROVE  TestInv'
<1>1. ASSUME NEW u \in Thread PROVE ListSound(u)' /\ PlaceSound(u)'
  <2>1. CASE u = t
    BY <2>1
  <2>2. CASE u # t
    <3>1. ListSound(u) /\ PlaceSound(u) /\ Untouched(u)
      BY <2>2 DEF TestInv
    <3> QED BY <3>1, UntouchedSound
  <2> QED BY <2>1, <2>2
<1>2. TestConstants'
  BY DEF TestInv, TestConstants
<1> QED BY <1>1, <1>2 DEF TestInv

(* A step that changes no variable of a thread.                            *)
LEMMA StepNone ==
  ASSUME TestInv, process = "running", TypeOK', \A u \in Thread : Untouched(u),
         allocated' = allocated
  PROVE  TestInv'
<1>1. \A u \in Thread : ListSound(u)' /\ PlaceSound(u)'
  BY UntouchedSound DEF TestInv
<1>2. \A u \in Thread : \A kind, k, l : Has(u, kind, k, l)' <=> Has(u, kind, k, l)
  BY UntouchedHas
<1>3. Owned'
  BY <1>2, OwnedSame DEF TestInv
<1>4. TestConstants'
  BY DEF TestInv, TestConstants
<1> QED BY <1>1, <1>3, <1>4 DEF TestInv

LEMMA StepAllocate ==
  ASSUME TestInv, NEW t \in Thread, Allocate(t)
  PROVE  TestInv'
<1>1. process = "running" /\ pc[t] = "Execute"
  BY DEF Allocate, At
<1>2. CASE allocated = Location
  <2>1. /\ process' = "exited"
        /\ UNCHANGED <<allocator, allocated, contexts, Objects, FreeSlots, deallocateObjects,
                       PassedObjects, PassedObjectsLock, i, pc, object, otherThread, it>>
    BY <1>2 DEF Allocate, slotVars, passVars
  <2>2. TypeOK'
    BY <2>1 DEF TestInv, TypeOK
  <2>3. \A u \in Thread : Untouched(u)
    BY <2>1 DEF Untouched
  <2> QED BY <1>1, <2>1, <2>2, <2>3, StepNone
<1>3. CASE allocated # Location
  <2>1. PICK location \in Location \ allocated :
          /\ allocated' = allocated \cup {location} /\ contexts' = contexts \cup {t}
          /\ InsertObject(t, location) /\ NextAction(t) /\ process' = process
          /\ UNCHANGED <<allocator, PassedObjects, PassedObjectsLock, object, otherThread, it>>
    BY <1>3 DEF Allocate, passVars
  <2>2. TestConstants /\ TypeOK /\ Owned
    BY DEF TestInv
  <2>3. i[t] < ACTION_COUNT /\ it[t] = 1 /\ object[t] = nullptr /\ ListSound(t)
    BY <1>1, TypeFacts DEF PlaceSound, InLoop
  <2>4. /\ Objects' \in [Thread -> Seq(Location \cup {nullptr})]
        /\ FreeSlots' \in [Thread -> Seq(1 .. ACTION_COUNT)]
        /\ deallocateObjects' = deallocateObjects
        /\ \A u \in Thread \ {t} : Objects'[u] = Objects[u] /\ FreeSlots'[u] = FreeSlots[u]
        /\ FreeSlotsAre(FreeSlots'[t], Objects'[t])
        /\ Len(FreeSlots'[t]) <= Len(FreeSlots[t])
        /\ Len(Objects'[t]) <= Len(Objects[t]) + 1
        /\ \E s \in Nat :
             /\ s \in DOMAIN Objects[t] => Objects[t][s] = nullptr
             /\ DOMAIN Objects'[t] = DOMAIN Objects[t] \cup {s}
             /\ Objects'[t][s] = location
             /\ \A k \in DOMAIN Objects[t] \ {s} : Objects'[t][k] = Objects[t][k]
    <3>1. location \in Location /\ InsertObject(t, location)
      BY <2>1
    <3>2. Inserted(t, location)
      BY ONLY <2>2, <2>3, <3>1, t \in Thread, InsertFacts
    <3> QED BY <3>2 DEF Inserted
  <2>5. /\ pc' \in [Thread -> Phases] /\ i' \in [Thread -> 0 .. ACTION_COUNT]
        /\ i'[t] = i[t] + 1
        /\ \/ pc'[t] = "Execute" /\ i'[t] < ACTION_COUNT
           \/ pc'[t] = "FreeObjects"
        /\ \A u \in Thread \ {t} : pc'[u] = pc[u] /\ i'[u] = i[u]
    BY <2>1, <2>2, <2>3, NextFacts
  <2>6. \A u \in Thread \ {t} : Untouched(u)
    BY <2>1, <2>4, <2>5 DEF Untouched
  <2>7. TypeOK'
    BY <2>1, <2>2, <2>4, <2>5 DEF TypeOK, Phases
  <2>8. ListSound(t)'
    <3>1. /\ i[t] \in Nat /\ deallocateObjects[t] \in Nat
          /\ Len(FreeSlots[t]) \in Nat /\ Len(FreeSlots'[t]) \in Nat
          /\ Len(Objects[t]) \in Nat /\ Len(Objects'[t]) \in Nat
      BY <2>4, TypeFacts
    <3>2. /\ Len(FreeSlots[t]) <= deallocateObjects[t] /\ deallocateObjects[t] <= i[t]
          /\ Len(Objects[t]) <= i[t]
      BY <1>1, <2>3 DEF ListSound
    <3>3. /\ Len(FreeSlots'[t]) <= deallocateObjects'[t]
          /\ deallocateObjects'[t] <= i'[t] /\ Len(Objects'[t]) <= i'[t]
      <4>1. /\ Len(FreeSlots'[t]) <= Len(FreeSlots[t])
            /\ Len(Objects'[t]) <= Len(Objects[t]) + 1
            /\ deallocateObjects'[t] = deallocateObjects[t] /\ i'[t] = i[t] + 1
        BY <2>4, <2>5
      <4>2. Len(FreeSlots'[t]) <= deallocateObjects'[t]
        BY ONLY <3>1, <3>2, <4>1
      <4>3. deallocateObjects'[t] <= i'[t]
        BY ONLY <3>1, <3>2, <4>1
      <4>4. Len(Objects'[t]) <= i'[t]
        BY ONLY <3>1, <3>2, <4>1
      <4> QED BY <4>2, <4>3, <4>4
    <3>4. pc'[t] \notin {"Enter", "Push"}
      BY <2>5
    <3> QED BY <2>4, <3>3, <3>4 DEF ListSound, FreeSlotsAre
  <2>9. PlaceSound(t)'
    BY <1>1, <2>1, <2>3, <2>5 DEF PlaceSound, InLoop
  <2>10. PICK s \in Nat :
           /\ s \in DOMAIN Objects[t] => Objects[t][s] = nullptr
           /\ DOMAIN Objects'[t] = DOMAIN Objects[t] \cup {s}
           /\ Objects'[t][s] = location
           /\ \A k \in DOMAIN Objects[t] \ {s} : Objects'[t][k] = Objects[t][k]
    BY <2>4
  <2>11. location # nullptr
    BY <2>2 DEF TestConstants
  <2>12. \A k \in DOMAIN Objects'[t] : k >= it'[t]
    <3>1. Objects'[t] \in Seq(Location \cup {nullptr}) /\ it'[t] = 1
      BY <2>1, <2>3, <2>4
    <3> QED BY <3>1
  <2>13. \A k, l : HasSlot(t, k, l)' <=> HasSlot(t, k, l) \/ (k = s /\ l = location)
    BY <1>1, <2>5, <2>10, <2>11, <2>12 DEF HasSlot
  <2>14. \A k, l : HasPassed(t, k, l)' <=> HasPassed(t, k, l)
    BY <1>1, <2>1, <2>5 DEF HasPassed
  <2>15. \A k, l : HasObject(t, k, l)' <=> HasObject(t, k, l)
    BY <2>1 DEF HasObject
  <2>16. \A kind, k, l :
           Has(t, kind, k, l)' <=>
             Has(t, kind, k, l) \/ (kind = "slot" /\ k = s /\ l = location)
    BY <2>13, <2>14, <2>15 DEF Has
  <2>17. Added(t, "slot", s, location)
    BY <2>6, <2>16, UntouchedHas DEF Added
  <2>18. Owned'
    <3>1. location \notin allocated /\ allocated' = allocated \cup {location}
      BY <2>1
    <3> QED BY ONLY <1>1, <2>2, <2>17, <3>1, t \in Thread, OwnedAdd
  <2> QED BY <2>6, <2>7, <2>8, <2>9, <2>18, OthersKeep
<1> QED BY <1>2, <1>3

LEMMA StepDeallocate ==
  ASSUME TestInv, NEW t \in Thread, Deallocate(t)
  PROVE  TestInv'
<1>1. process = "running" /\ pc[t] = "Execute"
  BY DEF Deallocate, At
<1>2. PICK passed \in SizeRead(t) : Goto(t, IF passed THEN "Pop" ELSE "Own")
  BY DEF Deallocate
<1>3. UNCHANGED <<allocator, allocated, contexts, process, Objects, FreeSlots,
                  deallocateObjects, PassedObjects, PassedObjectsLock, i, object,
                  otherThread, it>>
  BY DEF Deallocate, slotVars, passVars
<1>4. TestConstants /\ TypeOK /\ Owned /\ ListSound(t) /\ PlaceSound(t)
  BY DEF TestInv
<1>5. /\ pc' \in [Thread -> Phases] /\ pc'[t] \in {"Pop", "Own"}
      /\ pc'[t] = "Pop" => passed = TRUE
      /\ \A u \in Thread \ {t} : pc'[u] = pc[u]
  <2>1. passed \in BOOLEAN
    BY DEF SizeRead
  <2>2. CASE passed = TRUE
    <3>1. Goto(t, "Pop") /\ "Pop" \in Phases
      BY <1>2, <2>2 DEF Phases
    <3> QED BY <1>4, <2>2, <3>1, GotoFacts
  <2>3. CASE passed = FALSE
    <3>1. Goto(t, "Own") /\ "Own" \in Phases
      BY <1>2, <2>3 DEF Phases
    <3> QED BY <1>4, <3>1, GotoFacts
  <2> QED BY <2>1, <2>2, <2>3
<1>6. pc'[t] = "Pop" /\ PassedObjectsLock[t] = NoThread => PassedObjects[t] # <<>>
  BY <1>2, <1>5 DEF SizeRead
<1>7. \A u \in Thread \ {t} : Untouched(u)
  BY <1>3, <1>5 DEF Untouched
<1>8. TypeOK'
  BY <1>3, <1>4, <1>5 DEF TypeOK, Phases
<1>9. ListSound(t)'
  BY <1>1, <1>3, <1>4, <1>5 DEF ListSound
<1>10. PlaceSound(t)'
  BY <1>1, <1>3, <1>4, <1>5, <1>6 DEF PlaceSound, InLoop
<1>11. \A kind, k, l : Has(t, kind, k, l)' <=> Has(t, kind, k, l)
  BY <1>1, <1>3, <1>5 DEF Has, HasSlot, HasPassed, HasObject
<1>12. \A u \in Thread : \A kind, k, l : Has(u, kind, k, l)' <=> Has(u, kind, k, l)
  BY <1>7, <1>11, UntouchedHas
<1>13. Owned'
  BY <1>1, <1>3, <1>4, <1>12, OwnedSame
<1> QED BY <1>7, <1>8, <1>9, <1>10, <1>13, OthersKeep

LEMMA StepPopPassed ==
  ASSUME TestInv, NEW t \in Thread, PopPassed(t)
  PROVE  TestInv'
<1> DEFINE n == Len(PassedObjects[t])
           last == PassedObjects[t][n]
<1>1. process = "running" /\ pc[t] = "Pop" /\ PassedObjectsLock[t] = NoThread
  BY DEF PopPassed, At
<1>2. UNCHANGED <<allocator, allocated, contexts, process, Objects, FreeSlots,
                  deallocateObjects, PassedObjectsLock, i, otherThread, it>>
  BY DEF PopPassed, slotVars
<1>3. TestConstants /\ TypeOK /\ Owned /\ ListSound(t) /\ PlaceSound(t)
  BY DEF TestInv
<1>4. PassedObjects[t] # <<>> /\ object[t] = nullptr
  BY <1>1, <1>3 DEF PlaceSound
<1>5. PassedObjects \in [Thread -> Seq(Location)] /\ object \in [Thread -> Location \cup {nullptr}]
  BY <1>3 DEF TypeOK
<1>6. /\ n \in Nat \ {0} /\ Last(PassedObjects[t]) = last /\ last \in Location
      /\ Front(PassedObjects[t]) \in Seq(Location) /\ Len(Front(PassedObjects[t])) = n - 1
      /\ \A k \in 1 .. n - 1 : Front(PassedObjects[t])[k] = PassedObjects[t][k]
  <2>1. PassedObjects[t] \in Seq(Location)
    BY <1>5
  <2>2. /\ Len(PassedObjects[t]) \in Nat \ {0}
        /\ Last(PassedObjects[t]) = PassedObjects[t][Len(PassedObjects[t])]
        /\ Last(PassedObjects[t]) \in Location
        /\ Front(PassedObjects[t]) \in Seq(Location)
        /\ Len(Front(PassedObjects[t])) = Len(PassedObjects[t]) - 1
        /\ \A k \in 1 .. Len(PassedObjects[t]) - 1 :
             Front(PassedObjects[t])[k] = PassedObjects[t][k]
    BY ONLY <1>4, <2>1, FrontFacts
  <2> QED BY <2>2
<1>7. /\ object' = [object EXCEPT ![t] = last]
      /\ PassedObjects' = [PassedObjects EXCEPT ![t] = Front(PassedObjects[t])]
      /\ Goto(t, "Passed")
  BY <1>6 DEF PopPassed
<1>8. /\ pc' \in [Thread -> Phases] /\ pc'[t] = "Passed"
      /\ \A u \in Thread \ {t} : pc'[u] = pc[u]
  <2>1. "Passed" \in Phases
    BY DEF Phases
  <2> QED BY <1>3, <1>7, <2>1, GotoFacts
<1> HIDE DEF last, n
<1>9. /\ object' \in [Thread -> Location \cup {nullptr}] /\ object'[t] = last
      /\ PassedObjects' \in [Thread -> Seq(Location)]
      /\ PassedObjects'[t] = Front(PassedObjects[t])
      /\ \A u \in Thread \ {t} : object'[u] = object[u] /\ PassedObjects'[u] = PassedObjects[u]
  BY <1>5, <1>6, <1>7
<1>10. \A u \in Thread \ {t} : Untouched(u)
  BY <1>2, <1>8, <1>9 DEF Untouched
<1>11. TypeOK'
  BY <1>2, <1>3, <1>8, <1>9 DEF TypeOK, Phases
<1>12. ListSound(t)'
  BY <1>1, <1>2, <1>3, <1>8 DEF ListSound
<1>13. last # nullptr
  BY <1>3, <1>6 DEF TestConstants
<1>14. PlaceSound(t)'
  BY <1>1, <1>2, <1>3, <1>8, <1>9, <1>13 DEF PlaceSound, InLoop
<1>15. \A k, l : HasSlot(t, k, l)' <=> HasSlot(t, k, l)
  BY <1>1, <1>2, <1>8 DEF HasSlot
<1>16. \A k, l : HasPassed(t, k, l)' <=> HasPassed(t, k, l) /\ k # n
  <2>1. DOMAIN PassedObjects[t] = 1 .. n /\ DOMAIN PassedObjects'[t] = 1 .. n - 1
    BY <1>5, <1>6, <1>9 DEF n
  <2>2. \A k : k \in 1 .. n - 1 <=> k \in 1 .. n /\ k # n
    BY <1>6
  <2> QED BY <1>1, <1>6, <1>8, <1>9, <2>1, <2>2 DEF HasPassed
<1>17. \A k, l : HasObject(t, k, l)' <=> k = 1 /\ l = last
  BY <1>9, <1>13 DEF HasObject
<1>18. \A k, l : ~ HasObject(t, k, l)
  BY <1>4 DEF HasObject
<1>19. \A kind, k, l :
         Has(t, kind, k, l)' <=>
           \/ Has(t, kind, k, l) /\ ~ (kind = "passed" /\ k = n)
           \/ kind = "object" /\ k = 1 /\ l = last
  BY <1>15, <1>16, <1>17, <1>18 DEF Has
<1>20. Moved(t, "passed", n, last, t, "object", 1)
  BY <1>10, <1>19, UntouchedHas DEF Moved
<1>21. Has(t, "passed", n, last) /\ \A l : Has(t, "passed", n, l) => l = last
  <2>1. n \in DOMAIN PassedObjects[t]
    BY <1>5, <1>6 DEF n
  <2> QED BY <1>1, <2>1 DEF Has, HasPassed, last
<1>22. Owned'
  <2>1. allocated' = allocated
    BY <1>2
  <2> QED BY ONLY <1>1, <1>3, <1>20, <1>21, <2>1, t \in Thread, OwnedMove
<1> QED BY <1>10, <1>11, <1>12, <1>14, <1>22, OthersKeep

LEMMA StepDeallocatePassed ==
  ASSUME TestInv, NEW t \in Thread, DeallocatePassed(t)
  PROVE  TestInv'
<1>1. process = "running" /\ pc[t] = "Passed"
  BY DEF DeallocatePassed, At
<1>2. /\ DeallocateObject(t, object[t]) /\ object' = [object EXCEPT ![t] = nullptr]
      /\ Goto(t, "Own")
      /\ UNCHANGED <<allocator, contexts, Objects, FreeSlots, deallocateObjects,
                     PassedObjects, PassedObjectsLock, i, otherThread, it>>
  BY DEF DeallocatePassed, slotVars, passVars
<1>3. TestConstants /\ TypeOK /\ Owned /\ ListSound(t) /\ PlaceSound(t)
  BY DEF TestInv
<1>4. object[t] # nullptr
  BY <1>1, <1>3 DEF PlaceSound
<1>5. /\ pc' \in [Thread -> Phases] /\ pc'[t] = "Own"
      /\ \A u \in Thread \ {t} : pc'[u] = pc[u]
  <2>1. "Own" \in Phases
    BY DEF Phases
  <2> QED BY <1>2, <1>3, <2>1, GotoFacts
<1>6. /\ object' \in [Thread -> Location \cup {nullptr}] /\ object'[t] = nullptr
      /\ \A u \in Thread \ {t} : object'[u] = object[u]
  BY <1>2, <1>3 DEF TypeOK
<1>7. /\ process' = "crashed" \/ allocated' = allocated \ {object[t]}
      /\ process' \in {"running", "exited", "crashed"} /\ allocated' \subseteq Location
  BY <1>2, <1>3 DEF DeallocateObject, TypeOK
<1>8. \A u \in Thread \ {t} : Untouched(u)
  BY <1>2, <1>5, <1>6 DEF Untouched
<1>9. TypeOK'
  BY <1>2, <1>3, <1>5, <1>6, <1>7 DEF TypeOK, Phases
<1>10. ListSound(t)'
  BY <1>1, <1>2, <1>3, <1>5 DEF ListSound
<1>11. PlaceSound(t)'
  BY <1>1, <1>2, <1>3, <1>5, <1>6 DEF PlaceSound, InLoop
<1>12. \A kind, k, l :
         Has(t, kind, k, l)' <=> Has(t, kind, k, l) /\ ~ (kind = "object" /\ k = 1)
  BY <1>1, <1>2, <1>5, <1>6 DEF Has, HasSlot, HasPassed, HasObject
<1>13. Removed(t, "object", 1)
  BY <1>8, <1>12, UntouchedHas DEF Removed
<1>14. Has(t, "object", 1, object[t]) /\ \A l : Has(t, "object", 1, l) => l = object[t]
  BY <1>4 DEF Has, HasObject
<1>15. Owned'
  BY ONLY <1>1, <1>3, <1>7, <1>13, <1>14, t \in Thread, OwnedRemove
<1> QED BY <1>8, <1>9, <1>10, <1>11, <1>15, OthersKeep

(* What ResetSlot takes out of a slot.                                     *)
LEMMA VictimFacts ==
  ASSUME NEW t \in Thread, NEW victim \in Victims(t)
  PROVE  victim \in DOMAIN Objects[t] /\ Objects[t][victim] # nullptr
BY DEF Victims

LEMMA StepDeallocateOwn ==
  ASSUME TestInv, NEW t \in Thread, DeallocateOwn(t)
  PROVE  TestInv'
<1>1. process = "running" /\ pc[t] = "Own"
  BY DEF DeallocateOwn, At
<1>2. /\ NextAction(t)
      /\ UNCHANGED <<allocator, contexts, PassedObjects, PassedObjectsLock, object,
                     otherThread, it>>
  BY DEF DeallocateOwn, passVars
<1>3. TestConstants /\ TypeOK /\ Owned /\ ListSound(t) /\ PlaceSound(t)
  BY DEF TestInv
<1>4. /\ i[t] < ACTION_COUNT /\ it[t] = 1 /\ object[t] = nullptr
      /\ deallocateObjects[t] <= i[t] /\ Len(FreeSlots[t]) <= deallocateObjects[t]
      /\ Len(Objects[t]) <= i[t]
  BY <1>1, <1>3 DEF PlaceSound, ListSound, InLoop
<1>5. /\ pc' \in [Thread -> Phases] /\ i' \in [Thread -> 0 .. ACTION_COUNT]
      /\ i'[t] = i[t] + 1
      /\ \/ pc'[t] = "Execute" /\ i'[t] < ACTION_COUNT
         \/ pc'[t] = "FreeObjects"
      /\ \A u \in Thread \ {t} : pc'[u] = pc[u] /\ i'[u] = i[u]
  BY <1>2, <1>3, <1>4, NextFacts
<1>6. /\ i[t] \in Nat /\ deallocateObjects[t] \in Nat
      /\ Len(FreeSlots[t]) \in Nat /\ Len(Objects[t]) \in Nat
  BY TypeFacts
<1>7. PlaceSound(t)'
  BY <1>1, <1>2, <1>3, <1>4, <1>5 DEF PlaceSound, InLoop
<1>8. CASE Victims(t) = {}
  <2>1. UNCHANGED <<allocated, process, Objects, FreeSlots, deallocateObjects>>
    BY <1>8 DEF DeallocateOwn, slotVars
  <2>2. \A u \in Thread \ {t} : Untouched(u)
    BY <1>2, <1>5, <2>1 DEF Untouched
  <2>3. TypeOK'
    BY <1>2, <1>3, <1>5, <2>1 DEF TypeOK, Phases
  <2>4. ListSound(t)'
    <3>1. deallocateObjects[t] <= i'[t] /\ Len(Objects[t]) <= i'[t]
      BY <1>4, <1>5, <1>6
    <3> QED BY <1>3, <1>5, <2>1, <3>1 DEF ListSound
  <2>5. \A k \in DOMAIN Objects[t] : k >= it[t]
    BY <1>4, TypeFacts
  <2>6. \A kind, k, l : Has(t, kind, k, l)' <=> Has(t, kind, k, l)
    BY <1>1, <1>2, <1>5, <2>1, <2>5 DEF Has, HasSlot, HasPassed, HasObject
  <2>7. \A u \in Thread : \A kind, k, l : Has(u, kind, k, l)' <=> Has(u, kind, k, l)
    BY <2>2, <2>6, UntouchedHas
  <2>8. Owned'
    BY <1>1, <1>3, <2>1, <2>7, OwnedSame
  <2> QED BY <1>7, <2>2, <2>3, <2>4, <2>8, OthersKeep
<1>9. CASE Victims(t) # {}
  <2>1. PICK s \in Victims(t) : DeallocateObject(t, Objects[t][s]) /\ ResetSlot(t, s)
    BY <1>9 DEF DeallocateOwn
  <2> DEFINE l0 == Objects[t][s]
  <2>2. s \in DOMAIN Objects[t] /\ l0 # nullptr
    BY VictimFacts
  <2>3. /\ Objects' \in [Thread -> Seq(Location \cup {nullptr})]
        /\ FreeSlots' \in [Thread -> Seq(1 .. ACTION_COUNT)]
        /\ deallocateObjects' \in [Thread -> 0 .. ACTION_COUNT]
        /\ \A u \in Thread \ {t} :
             /\ Objects'[u] = Objects[u] /\ FreeSlots'[u] = FreeSlots[u]
             /\ deallocateObjects'[u] = deallocateObjects[u]
        /\ FreeSlotsAre(FreeSlots'[t], Objects'[t])
        /\ Len(FreeSlots'[t]) = Len(FreeSlots[t]) + 1
        /\ deallocateObjects'[t] = deallocateObjects[t] + 1
        /\ Len(Objects'[t]) = Len(Objects[t]) /\ DOMAIN Objects'[t] = DOMAIN Objects[t]
        /\ Objects'[t][s] = nullptr
        /\ \A k \in DOMAIN Objects[t] \ {s} : Objects'[t][k] = Objects[t][k]
    <3>1. deallocateObjects[t] < ACTION_COUNT
      BY <1>4, <1>6, TypeFacts
    <3>2. Emptied(t, s)
      BY ONLY <1>3, <2>1, <2>2, <3>1, t \in Thread, ResetFacts
    <3> QED BY <3>2 DEF Emptied
  <2>4. /\ process' = "crashed" \/ allocated' = allocated \ {l0}
        /\ process' \in {"running", "exited", "crashed"} /\ allocated' \subseteq Location
    BY <1>3, <2>1 DEF DeallocateObject, TypeOK
  <2>5. \A u \in Thread \ {t} : Untouched(u)
    BY <1>2, <1>5, <2>3 DEF Untouched
  <2>6. TypeOK'
    BY <1>2, <1>3, <1>5, <2>3, <2>4 DEF TypeOK, Phases
  <2>7. ListSound(t)'
    <3>1. /\ Len(FreeSlots'[t]) <= deallocateObjects'[t] /\ deallocateObjects'[t] <= i'[t]
          /\ Len(Objects'[t]) <= i'[t]
      <4>1. /\ Len(FreeSlots'[t]) = Len(FreeSlots[t]) + 1 /\ Len(Objects'[t]) = Len(Objects[t])
            /\ deallocateObjects'[t] = deallocateObjects[t] + 1 /\ i'[t] = i[t] + 1
        BY <1>5, <2>3
      <4>2. Len(FreeSlots'[t]) <= deallocateObjects'[t]
        BY ONLY <1>4, <1>6, <4>1
      <4>3. deallocateObjects'[t] <= i'[t]
        BY ONLY <1>4, <1>6, <4>1
      <4>4. Len(Objects'[t]) <= i'[t]
        BY ONLY <1>4, <1>6, <4>1
      <4> QED BY <4>2, <4>3, <4>4
    <3>2. pc'[t] \notin {"Enter", "Push"}
      BY <1>5
    <3> QED BY <2>3, <3>1, <3>2 DEF ListSound, FreeSlotsAre
  <2>8. \A k \in DOMAIN Objects[t] : k >= it[t]
    BY <1>4, TypeFacts
  <2>9. \A k, l : HasSlot(t, k, l)' <=> HasSlot(t, k, l) /\ k # s
    BY <1>1, <1>2, <1>5, <2>3, <2>8 DEF HasSlot
  <2>10. \A kind, k, l :
           Has(t, kind, k, l)' <=> Has(t, kind, k, l) /\ ~ (kind = "slot" /\ k = s)
    BY <1>1, <1>2, <1>5, <2>9 DEF Has, HasPassed, HasObject
  <2>11. Removed(t, "slot", s)
    BY <2>5, <2>10, UntouchedHas DEF Removed
  <2>12. Has(t, "slot", s, l0) /\ \A l : Has(t, "slot", s, l) => l = l0
    BY <1>1, <2>2 DEF Has, HasSlot
  <2>13. Owned'
    <3> HIDE DEF l0
    <3> QED BY ONLY <1>1, <1>3, <2>4, <2>11, <2>12, t \in Thread, OwnedRemove
  <2> QED BY <1>7, <2>5, <2>6, <2>7, <2>13, OthersKeep
<1> QED BY <1>8, <1>9

LEMMA StepPass ==
  ASSUME TestInv, NEW t \in Thread, Pass(t)
  PROVE  TestInv'
<1>1. process = "running" /\ pc[t] = "Execute"
  BY DEF Pass, At
<1>2. UNCHANGED <<allocator, allocated, contexts, process, PassedObjects,
                  PassedObjectsLock, it>>
  BY DEF Pass, passVars
<1>3. TestConstants /\ TypeOK /\ Owned /\ ListSound(t) /\ PlaceSound(t)
  BY DEF TestInv
<1>4. /\ i[t] < ACTION_COUNT /\ it[t] = 1 /\ object[t] = nullptr
      /\ deallocateObjects[t] <= i[t] /\ Len(FreeSlots[t]) <= deallocateObjects[t]
      /\ Len(Objects[t]) <= i[t]
  BY <1>1, <1>3 DEF PlaceSound, ListSound, InLoop
<1>5. /\ i[t] \in Nat /\ deallocateObjects[t] \in Nat
      /\ Len(FreeSlots[t]) \in Nat /\ Len(Objects[t]) \in Nat
  BY TypeFacts
<1>6. \A k \in DOMAIN Objects[t] : k >= it[t]
  BY <1>4, TypeFacts
<1>7. CASE Victims(t) = {} \/ Thread = {t}
  <2>1. NextAction(t)
        /\ UNCHANGED <<Objects, FreeSlots, deallocateObjects, object, otherThread>>
    BY <1>7 DEF Pass, slotVars
  <2>2. /\ pc' \in [Thread -> Phases] /\ i' \in [Thread -> 0 .. ACTION_COUNT]
        /\ i'[t] = i[t] + 1
        /\ \/ pc'[t] = "Execute" /\ i'[t] < ACTION_COUNT
           \/ pc'[t] = "FreeObjects"
        /\ \A u \in Thread \ {t} : pc'[u] = pc[u] /\ i'[u] = i[u]
    BY <1>3, <1>4, <2>1, NextFacts
  <2>3. \A u \in Thread \ {t} : Untouched(u)
    BY <1>2, <2>1, <2>2 DEF Untouched
  <2>4. TypeOK'
    BY <1>2, <1>3, <2>1, <2>2 DEF TypeOK, Phases
  <2>5. ListSound(t)'
    <3>1. deallocateObjects[t] <= i'[t] /\ Len(Objects[t]) <= i'[t]
      BY <1>4, <1>5, <2>2
    <3> QED BY <1>3, <2>1, <2>2, <3>1 DEF ListSound
  <2>6. PlaceSound(t)'
    BY <1>1, <1>2, <1>3, <1>4, <2>1, <2>2 DEF PlaceSound, InLoop
  <2>7. \A kind, k, l : Has(t, kind, k, l)' <=> Has(t, kind, k, l)
    BY <1>1, <1>2, <1>6, <2>1, <2>2 DEF Has, HasSlot, HasPassed, HasObject
  <2>8. \A u \in Thread : \A kind, k, l : Has(u, kind, k, l)' <=> Has(u, kind, k, l)
    BY <2>3, <2>7, UntouchedHas
  <2>9. Owned'
    BY <1>1, <1>2, <1>3, <2>8, OwnedSame
  <2> QED BY <2>3, <2>4, <2>5, <2>6, <2>9, OthersKeep
<1>8. CASE ~ (Victims(t) = {} \/ Thread = {t})
  <2>1. PICK s \in Victims(t), other \in Thread \ {t} :
          /\ object' = [object EXCEPT ![t] = Objects[t][s]]
          /\ otherThread' = [otherThread EXCEPT ![t] = other]
          /\ ResetSlot(t, s) /\ Goto(t, "Enter") /\ i' = i
    BY <1>8 DEF Pass
  <2>0. PICK l0 : l0 = Objects[t][s]
    OBVIOUS
  <2>2. s \in DOMAIN Objects[t] /\ l0 # nullptr /\ l0 \in Location \cup {nullptr}
    <3>1. s \in DOMAIN Objects[t] /\ l0 # nullptr
      BY <2>0, VictimFacts
    <3>2. Objects[t] \in Seq(Location \cup {nullptr})
      BY TypeFacts
    <3> QED BY <2>0, <3>1, <3>2
  <2>3. /\ Objects' \in [Thread -> Seq(Location \cup {nullptr})]
        /\ FreeSlots' \in [Thread -> Seq(1 .. ACTION_COUNT)]
        /\ deallocateObjects' \in [Thread -> 0 .. ACTION_COUNT]
        /\ \A u \in Thread \ {t} :
             /\ Objects'[u] = Objects[u] /\ FreeSlots'[u] = FreeSlots[u]
             /\ deallocateObjects'[u] = deallocateObjects[u]
        /\ FreeSlotsAre(FreeSlots'[t], Objects'[t])
        /\ Len(FreeSlots'[t]) = Len(FreeSlots[t]) + 1
        /\ deallocateObjects'[t] = deallocateObjects[t] + 1
        /\ Len(Objects'[t]) = Len(Objects[t]) /\ DOMAIN Objects'[t] = DOMAIN Objects[t]
        /\ Objects'[t][s] = nullptr
        /\ \A k \in DOMAIN Objects[t] \ {s} : Objects'[t][k] = Objects[t][k]
    <3>1. deallocateObjects[t] < ACTION_COUNT
      BY <1>4, <1>5, TypeFacts
    <3>2. Emptied(t, s)
      BY ONLY <1>3, <2>0, <2>1, <2>2, <3>1, t \in Thread, ResetFacts
    <3> QED BY <3>2 DEF Emptied
  <2>4. /\ pc' \in [Thread -> Phases] /\ pc'[t] = "Enter"
        /\ \A u \in Thread \ {t} : pc'[u] = pc[u]
    <3>1. "Enter" \in Phases
      BY DEF Phases
    <3> QED BY <1>3, <2>1, <3>1, GotoFacts
  <2>5. /\ object' \in [Thread -> Location \cup {nullptr}] /\ object'[t] = l0
        /\ otherThread' \in [Thread -> Thread \cup {NoThread}] /\ otherThread'[t] = other
        /\ \A u \in Thread \ {t} : object'[u] = object[u] /\ otherThread'[u] = otherThread[u]
    <3>1. /\ object \in [Thread -> Location \cup {nullptr}]
          /\ otherThread \in [Thread -> Thread \cup {NoThread}]
      BY <1>3 DEF TypeOK
    <3>2. object' = [object EXCEPT ![t] = l0]
      BY <2>0, <2>1
    <3> QED BY <2>1, <2>2, <3>1, <3>2
  <2>6. \A u \in Thread \ {t} : Untouched(u)
    BY <1>2, <2>1, <2>3, <2>4, <2>5 DEF Untouched
  <2>7. TypeOK'
    BY <1>2, <1>3, <2>1, <2>3, <2>4, <2>5 DEF TypeOK, Phases
  <2>8. ListSound(t)'
    <3>1. /\ Len(FreeSlots'[t]) <= deallocateObjects'[t]
          /\ deallocateObjects'[t] <= i'[t] + 1 /\ Len(Objects'[t]) <= i'[t]
      <4>1. /\ Len(FreeSlots'[t]) = Len(FreeSlots[t]) + 1 /\ Len(Objects'[t]) = Len(Objects[t])
            /\ deallocateObjects'[t] = deallocateObjects[t] + 1 /\ i'[t] = i[t]
        BY <2>1, <2>3
      <4>2. Len(FreeSlots'[t]) <= deallocateObjects'[t]
        BY ONLY <1>4, <1>5, <4>1
      <4>3. deallocateObjects'[t] <= i'[t] + 1
        BY ONLY <1>4, <1>5, <4>1
      <4>4. Len(Objects'[t]) <= i'[t]
        BY ONLY <1>4, <1>5, <4>1
      <4> QED BY <4>2, <4>3, <4>4
    <3> QED BY <2>3, <2>4, <3>1 DEF ListSound, FreeSlotsAre
  <2>9. PlaceSound(t)'
    BY <1>1, <1>2, <1>4, <2>1, <2>2, <2>4, <2>5 DEF PlaceSound, InLoop
  <2>10. \A k, l : HasSlot(t, k, l)' <=> HasSlot(t, k, l) /\ k # s
    BY <1>1, <1>2, <2>3, <2>4 DEF HasSlot
  <2>11. \A k, l : HasPassed(t, k, l)' <=> HasPassed(t, k, l)
    BY <1>1, <1>2, <2>4 DEF HasPassed
  <2>12. \A k, l : HasObject(t, k, l)' <=> k = 1 /\ l = l0
    BY <2>2, <2>5 DEF HasObject
  <2>13. \A k, l : ~ HasObject(t, k, l)
    BY <1>4 DEF HasObject
  <2>14. \A kind, k, l :
           Has(t, kind, k, l)' <=>
             \/ Has(t, kind, k, l) /\ ~ (kind = "slot" /\ k = s)
             \/ kind = "object" /\ k = 1 /\ l = l0
    BY <2>10, <2>11, <2>12, <2>13 DEF Has
  <2>15. Moved(t, "slot", s, l0, t, "object", 1)
    BY <2>6, <2>14, UntouchedHas DEF Moved
  <2>16. Has(t, "slot", s, l0) /\ \A l : Has(t, "slot", s, l) => l = l0
    BY <1>1, <2>0, <2>2 DEF Has, HasSlot
  <2>17. Owned'
    <3>1. allocated' = allocated
      BY <1>2
    <3> QED BY ONLY <1>1, <1>3, <2>15, <2>16, <3>1, t \in Thread, OwnedMove
  <2> QED BY <2>6, <2>7, <2>8, <2>9, <2>17, OthersKeep
<1> QED BY <1>7, <1>8

LEMMA StepEnterOther ==
  ASSUME TestInv, NEW t \in Thread, EnterOther(t)
  PROVE  TestInv'
<1>0. PICK other : other = otherThread[t]
  OBVIOUS
<1>1. process = "running" /\ pc[t] = "Enter"
  BY DEF EnterOther, At
<1>2. /\ PassedObjectsLock' = [PassedObjectsLock EXCEPT ![other] = t] /\ Goto(t, "Push")
      /\ UNCHANGED <<allocator, allocated, contexts, process, Objects, FreeSlots,
                     deallocateObjects, PassedObjects, i, object, otherThread, it>>
  BY <1>0 DEF EnterOther, slotVars
<1>3. TestConstants /\ TypeOK /\ Owned /\ ListSound(t) /\ PlaceSound(t)
  BY DEF TestInv
<1>4. other \in Thread \ {t}
  BY <1>0, <1>1, <1>3 DEF PlaceSound
<1>5. /\ pc' \in [Thread -> Phases] /\ pc'[t] = "Push"
      /\ \A u \in Thread \ {t} : pc'[u] = pc[u]
  <2>1. "Push" \in Phases
    BY DEF Phases
  <2> QED BY <1>2, <1>3, <2>1, GotoFacts
<1>6. /\ PassedObjectsLock' \in [Thread -> Thread \cup {NoThread}]
      /\ PassedObjectsLock'[other] = t
      /\ \A u \in Thread \ {other} : PassedObjectsLock'[u] = PassedObjectsLock[u]
  BY <1>2, <1>3, <1>4 DEF TypeOK
<1>7. TypeOK'
  BY <1>2, <1>3, <1>5, <1>6 DEF TypeOK, Phases
<1>8. \A u \in Thread \ {t, other} : Untouched(u)
  BY <1>2, <1>5, <1>6 DEF Untouched
<1>9. ListSound(t)' /\ PlaceSound(t)'
  <2>1. ListSound(t)'
    BY <1>1, <1>2, <1>3, <1>5 DEF ListSound
  <2>2. PlaceSound(t)'
    BY <1>1, <1>2, <1>3, <1>5 DEF PlaceSound, InLoop
  <2> QED BY <2>1, <2>2
<1>10. ListSound(other)' /\ PlaceSound(other)'
  <2>1. ListSound(other) /\ PlaceSound(other)
    BY <1>4 DEF TestInv
  <2>2. pc'[other] = pc[other]
    BY <1>4, <1>5
  <2>3. ListSound(other)'
    BY <1>2, <2>1, <2>2 DEF ListSound
  <2>4. PassedObjectsLock'[other] # NoThread
    BY <1>3, <1>6 DEF TestConstants
  <2>5. PlaceSound(other)'
    BY <1>2, <2>1, <2>2, <2>4 DEF PlaceSound
  <2> QED BY <2>3, <2>5
<1>11. \A u \in Thread : ListSound(u)' /\ PlaceSound(u)'
  BY <1>8, <1>9, <1>10, UntouchedSound DEF TestInv
<1>12. \A u \in Thread : \A kind, k, l : Has(u, kind, k, l)' <=> Has(u, kind, k, l)
  <2>1. \A u \in Thread :
          (u # t => pc'[u] = pc[u]) /\ (u = t => pc[u] = "Enter" /\ pc'[u] = "Push")
    BY <1>1, <1>5
  <2> QED BY <1>2, <2>1 DEF Has, HasSlot, HasPassed, HasObject
<1>13. Owned'
  BY <1>1, <1>2, <1>3, <1>12, OwnedSame
<1>14. TestConstants'
  BY <1>3 DEF TestConstants
<1> QED BY <1>7, <1>11, <1>13, <1>14 DEF TestInv

LEMMA StepPushOther ==
  ASSUME TestInv, NEW t \in Thread, PushOther(t)
  PROVE  TestInv'
<1>0. PICK other, n, l0 :
        other = otherThread[t] /\ n = Len(PassedObjects[other]) /\ l0 = object[t]
  OBVIOUS
<1>1. process = "running" /\ pc[t] = "Push"
  BY DEF PushOther, At
<1>2. /\ PassedObjects' = [PassedObjects EXCEPT ![other] = Append(PassedObjects[other], l0)]
      /\ PassedObjectsLock' = [PassedObjectsLock EXCEPT ![other] = NoThread]
      /\ object' = [object EXCEPT ![t] = nullptr]
      /\ otherThread' = [otherThread EXCEPT ![t] = NoThread]
      /\ NextAction(t)
      /\ UNCHANGED <<allocator, allocated, contexts, process, Objects, FreeSlots,
                     deallocateObjects, it>>
  BY <1>0 DEF PushOther, Leave, slotVars
<1>3. TestConstants /\ TypeOK /\ Owned /\ ListSound(t) /\ PlaceSound(t)
  BY DEF TestInv
<1>4. other \in Thread \ {t} /\ l0 # nullptr /\ i[t] < ACTION_COUNT /\ it[t] = 1
  BY <1>0, <1>1, <1>3 DEF PlaceSound, InLoop
<1>5. /\ pc' \in [Thread -> Phases] /\ i' \in [Thread -> 0 .. ACTION_COUNT]
      /\ i'[t] = i[t] + 1
      /\ \/ pc'[t] = "Execute" /\ i'[t] < ACTION_COUNT
         \/ pc'[t] = "FreeObjects"
      /\ \A u \in Thread \ {t} : pc'[u] = pc[u] /\ i'[u] = i[u]
  BY <1>2, <1>3, <1>4, NextFacts
<1>6. l0 \in Location
  BY <1>0, <1>3, <1>4 DEF TypeOK
<1>7. /\ PassedObjects \in [Thread -> Seq(Location)] /\ object \in [Thread -> Location \cup {nullptr}]
      /\ PassedObjectsLock \in [Thread -> Thread \cup {NoThread}]
      /\ otherThread \in [Thread -> Thread \cup {NoThread}]
  BY <1>3 DEF TypeOK
<1>8. /\ Append(PassedObjects[other], l0) \in Seq(Location)
      /\ n \in Nat /\ DOMAIN PassedObjects[other] = 1 .. n
      /\ DOMAIN Append(PassedObjects[other], l0) = 1 .. n + 1
      /\ Len(Append(PassedObjects[other], l0)) = n + 1
      /\ \A k \in 1 .. n : Append(PassedObjects[other], l0)[k] = PassedObjects[other][k]
      /\ Append(PassedObjects[other], l0)[n + 1] = l0
  <2>1. PassedObjects[other] \in Seq(Location)
    BY <1>4, <1>7
  <2> QED BY <1>0, <1>6, <2>1
<1>9. /\ PassedObjects' \in [Thread -> Seq(Location)]
      /\ PassedObjects'[other] = Append(PassedObjects[other], l0)
      /\ \A u \in Thread \ {other} : PassedObjects'[u] = PassedObjects[u]
  BY <1>2, <1>4, <1>7, <1>8
<1>10. /\ PassedObjectsLock' \in [Thread -> Thread \cup {NoThread}]
       /\ \A u \in Thread \ {other} : PassedObjectsLock'[u] = PassedObjectsLock[u]
       /\ object' \in [Thread -> Location \cup {nullptr}] /\ object'[t] = nullptr
       /\ otherThread' \in [Thread -> Thread \cup {NoThread}]
       /\ \A u \in Thread \ {t} : object'[u] = object[u] /\ otherThread'[u] = otherThread[u]
  BY <1>2, <1>4, <1>7
<1>11. TypeOK'
  BY <1>2, <1>3, <1>5, <1>9, <1>10 DEF TypeOK, Phases
<1>12. \A u \in Thread \ {t, other} : Untouched(u)
  BY <1>2, <1>5, <1>9, <1>10 DEF Untouched
<1>13. ListSound(t)'
  <2>1. i[t] \in Nat /\ deallocateObjects[t] \in Nat /\ Len(Objects[t]) \in Nat
    BY TypeFacts
  <2>2. deallocateObjects[t] <= i[t] + 1 /\ Len(Objects[t]) <= i[t]
    BY <1>1, <1>3 DEF ListSound
  <2>3. deallocateObjects'[t] <= i'[t] /\ Len(Objects'[t]) <= i'[t]
    BY <1>2, <1>5, <2>1, <2>2
  <2>4. pc'[t] \notin {"Enter", "Push"}
    BY <1>5
  <2> QED BY <1>2, <1>3, <2>3, <2>4 DEF ListSound
<1>14. PlaceSound(t)'
  BY <1>2, <1>4, <1>5, <1>10 DEF PlaceSound, InLoop
<1>15. ListSound(other)' /\ PlaceSound(other)'
  <2>1. ListSound(other) /\ PlaceSound(other)
    BY <1>4 DEF TestInv
  <2>2. /\ pc'[other] = pc[other] /\ i'[other] = i[other]
        /\ object'[other] = object[other] /\ otherThread'[other] = otherThread[other]
    BY <1>4, <1>5, <1>10
  <2>3. ListSound(other)'
    BY <1>2, <2>1, <2>2 DEF ListSound
  <2>4. PassedObjects'[other] # <<>>
    BY <1>8, <1>9
  <2>5. it[other] <= n + 1 => it[other] <= Len(PassedObjects'[other]) + 1
    <3>1. it[other] \in Nat
      BY <1>4, TypeFacts
    <3> QED BY <1>8, <1>9, <3>1
  <2>6. PlaceSound(other)'
    BY <1>0, <1>2, <2>1, <2>2, <2>4, <2>5 DEF PlaceSound
  <2> QED BY <2>3, <2>6
<1>16. \A u \in Thread : ListSound(u)' /\ PlaceSound(u)'
  BY <1>12, <1>13, <1>14, <1>15, UntouchedSound DEF TestInv
<1>17. \A kind, k, l : Has(t, kind, k, l)' <=> Has(t, kind, k, l) /\ ~ (kind = "object" /\ k = 1)
  <2>1. \A k \in DOMAIN Objects[t] : k >= it[t]
    BY <1>4, TypeFacts
  <2>2. \A k, l : HasSlot(t, k, l)' <=> HasSlot(t, k, l)
    BY <1>1, <1>2, <1>5, <2>1 DEF HasSlot
  <2>3. \A k, l : HasPassed(t, k, l)' <=> HasPassed(t, k, l)
    <3>1. PassedObjects'[t] = PassedObjects[t]
      BY <1>4, <1>9
    <3> QED BY <1>1, <1>5, <3>1 DEF HasPassed
  <2>4. \A k, l : ~ HasObject(t, k, l)'
    BY <1>10 DEF HasObject
  <2>5. \A k, l : HasObject(t, k, l) => k = 1
    BY DEF HasObject
  <2> QED BY <2>2, <2>3, <2>4, <2>5 DEF Has
<1>18. \A kind, k, l :
         Has(other, kind, k, l)' <=>
           Has(other, kind, k, l) \/ (kind = "passed" /\ k = n + 1 /\ l = l0)
  <2>1. pc'[other] = pc[other] /\ object'[other] = object[other]
    BY <1>4, <1>5, <1>10
  <2>2. \A k, l : HasSlot(other, k, l)' <=> HasSlot(other, k, l)
    BY <1>2, <2>1 DEF HasSlot
  <2>3. \A k, l : HasObject(other, k, l)' <=> HasObject(other, k, l)
    BY <2>1 DEF HasObject
  <2>4. pc[other] \in {"FreePassed", "done"} => it[other] <= n + 1
    BY <1>0, <1>4 DEF TestInv, PlaceSound
  <2>5. \A k : k \in 1 .. n + 1 <=> k \in 1 .. n \/ k = n + 1
    BY <1>8
  <2>6. n + 1 \notin 1 .. n
    BY <1>8
  <2>7. \A k, l : HasPassed(other, k, l)' <=> HasPassed(other, k, l) \/ (k = n + 1 /\ l = l0)
    <3>1. /\ DOMAIN PassedObjects[other] = 1 .. n /\ DOMAIN PassedObjects'[other] = 1 .. n + 1
          /\ \A k \in 1 .. n : PassedObjects'[other][k] = PassedObjects[other][k]
          /\ PassedObjects'[other][n + 1] = l0
      BY <1>8, <1>9
    <3>2. it[other] \in Nat /\ it'[other] = it[other]
      BY <1>2, <1>4, TypeFacts
    <3>3. pc[other] \in {"FreePassed", "done"} => n + 1 >= it[other]
      BY <1>8, <2>4, <3>2
    <3> QED BY <2>1, <2>5, <2>6, <3>1, <3>2, <3>3 DEF HasPassed
  <2> QED BY <2>2, <2>3, <2>7 DEF Has
<1>19. Moved(t, "object", 1, l0, other, "passed", n + 1)
  <2>1. ASSUME NEW u \in Thread, NEW kind, NEW k, NEW l
        PROVE  Has(u, kind, k, l)' <=>
                 \/ Has(u, kind, k, l) /\ ~ (u = t /\ kind = "object" /\ k = 1)
                 \/ u = other /\ kind = "passed" /\ k = n + 1 /\ l = l0
    <3>1. CASE u = t
      BY <1>4, <1>17, <3>1
    <3>2. CASE u = other
      BY <1>4, <1>18, <3>2
    <3>3. CASE u \notin {t, other}
      BY <1>12, <3>3, UntouchedHas
    <3> QED BY <3>1, <3>2, <3>3
  <2> QED BY <2>1 DEF Moved
<1>20. Has(t, "object", 1, l0) /\ \A l : Has(t, "object", 1, l) => l = l0
  BY <1>0, <1>4 DEF Has, HasObject
<1>21. Owned'
  <2>1. allocated' = allocated /\ other \in Thread
    BY <1>2, <1>4
  <2> QED BY ONLY <1>1, <1>3, <1>19, <1>20, <2>1, t \in Thread, OwnedMove
<1>22. TestConstants'
  BY <1>3 DEF TestConstants
<1> QED BY <1>11, <1>16, <1>21, <1>22 DEF TestInv

(* DeallocateAllObjects takes the object in place it[t] of a vector out of *)
(* the places, or goes by a slot that is free.                             *)
LEMMA DeallocateFacts ==
  ASSUME TestInv, NEW t \in Thread, NEW objects, DeallocateNext(t, objects)
  PROVE  /\ it[t] <= Len(objects)
         /\ it' \in [Thread -> Nat] /\ it'[t] = it[t] + 1
         /\ \A u \in Thread \ {t} : it'[u] = it[u]
         /\ process' \in {process, "crashed"} /\ allocated' \subseteq Location
         /\ PassedObjects' = PassedObjects /\ PassedObjectsLock' = PassedObjectsLock /\ pc' = pc
         /\ IF objects[it[t]] = nullptr
            THEN allocated' = allocated
            ELSE process' = "crashed" \/ allocated' = allocated \ {objects[it[t]]}
<1>1. it \in [Thread -> Nat] /\ allocated \subseteq Location
  BY DEF TestInv, TypeOK
<1>2. it[t] <= Len(objects) /\ it' = [it EXCEPT ![t] = it[t] + 1]
      /\ PassedObjects' = PassedObjects /\ PassedObjectsLock' = PassedObjectsLock /\ pc' = pc
  BY DEF DeallocateNext, passVars
<1>3. it' \in [Thread -> Nat] /\ it'[t] = it[t] + 1 /\ \A u \in Thread \ {t} : it'[u] = it[u]
  BY <1>1, <1>2
<1>4. CASE objects[it[t]] = nullptr
  <2>1. allocated' = allocated /\ process' = process
    BY <1>4 DEF DeallocateNext
  <2> QED BY <1>1, <1>2, <1>3, <1>4, <2>1
<1>5. CASE objects[it[t]] # nullptr
  <2>1. DeallocateObject(t, objects[it[t]])
    BY <1>5 DEF DeallocateNext
  <2>2. \/ process' = "crashed" /\ allocated' = allocated
        \/ process' = process /\ allocated' = allocated \ {objects[it[t]]}
    BY <2>1 DEF DeallocateObject
  <2>3. allocated' \subseteq Location
    BY <1>1, <2>2
  <2> QED BY <1>2, <1>3, <1>5, <2>2, <2>3
<1> QED BY <1>4, <1>5

LEMMA StepFreeObjects ==
  ASSUME TestInv, NEW t \in Thread, FreeObjects(t)
  PROVE  TestInv'
<1>1. process = "running" /\ pc[t] = "FreeObjects"
  BY DEF FreeObjects, At
<1>2. UNCHANGED <<allocator, contexts, Objects, FreeSlots, deallocateObjects, i, object,
                  otherThread>>
  BY DEF FreeObjects, slotVars
<1>3. TestConstants /\ TypeOK /\ Owned /\ ListSound(t) /\ PlaceSound(t)
  BY DEF TestInv
<1>4. /\ Objects[t] \in Seq(Location \cup {nullptr}) /\ it[t] \in Nat
      /\ it[t] >= 1 /\ object[t] = nullptr
  BY <1>1, <1>3, TypeFacts DEF PlaceSound
<1>5. CASE DeallocateNext(t, Objects[t])
  <2>0. PICK k0, l0 : k0 = it[t] /\ l0 = Objects[t][k0]
    OBVIOUS
  <2>1. /\ k0 <= Len(Objects[t])
        /\ it' \in [Thread -> Nat] /\ it'[t] = k0 + 1
        /\ \A u \in Thread \ {t} : it'[u] = it[u]
        /\ process' \in {process, "crashed"} /\ allocated' \subseteq Location
        /\ PassedObjects' = PassedObjects /\ PassedObjectsLock' = PassedObjectsLock /\ pc' = pc
        /\ IF l0 = nullptr THEN allocated' = allocated
           ELSE process' = "crashed" \/ allocated' = allocated \ {l0}
    BY <1>5, <2>0, DeallocateFacts
  <2>2. k0 \in DOMAIN Objects[t]
    BY <1>4, <2>0, <2>1
  <2>3. \A u \in Thread \ {t} : Untouched(u)
    BY <1>2, <2>1 DEF Untouched
  <2>4. TypeOK'
    <3>1. process' \in {"running", "exited", "crashed"}
      BY <1>1, <2>1
    <3> QED BY <1>2, <1>3, <2>1, <3>1 DEF TypeOK
  <2>5. ListSound(t)'
    BY <1>2, <1>3, <2>1 DEF ListSound
  <2>6. PlaceSound(t)'
    <3>1. it'[t] >= 1
      BY <1>4, <2>0, <2>1
    <3> QED BY <1>1, <1>2, <1>4, <2>1, <3>1 DEF PlaceSound, InLoop
  <2>7. \A k, l : HasSlot(t, k, l)' <=> HasSlot(t, k, l) /\ k # k0
    <3>1. \A k \in DOMAIN Objects[t] : k \in Nat
      BY <1>4
    <3>2. k0 \in Nat
      BY <1>4, <2>0
    <3>3. \A k \in Nat : k >= k0 + 1 <=> k >= k0 /\ k # k0
      BY <3>2
    <3> QED BY <1>1, <1>2, <2>0, <2>1, <3>1, <3>3 DEF HasSlot
  <2>8. \A k, l : HasPassed(t, k, l)' <=> HasPassed(t, k, l)
    BY <1>1, <2>1 DEF HasPassed
  <2>9. \A k, l : HasObject(t, k, l)' <=> HasObject(t, k, l)
    BY <1>2 DEF HasObject
  <2>10. \A kind, k, l :
           Has(t, kind, k, l)' <=> Has(t, kind, k, l) /\ ~ (kind = "slot" /\ k = k0)
    BY <2>7, <2>8, <2>9 DEF Has
  <2>11. Removed(t, "slot", k0)
    BY <2>3, <2>10, UntouchedHas DEF Removed
  <2>12. CASE l0 = nullptr
    <3>1. \A l : ~ HasSlot(t, k0, l)
      BY <2>0, <2>12 DEF HasSlot
    <3>2. \A l : ~ Has(t, "slot", k0, l)
      BY <3>1 DEF Has
    <3>3. \A u \in Thread : \A kind, k, l : Has(u, kind, k, l)' <=> Has(u, kind, k, l)
      BY <2>11, <3>2 DEF Removed
    <3>4. Owned'
      BY <1>1, <1>3, <2>1, <2>12, <3>3, OwnedSame
    <3> QED BY <2>3, <2>4, <2>5, <2>6, <3>4, OthersKeep
  <2>13. CASE l0 # nullptr
    <3>1. HasSlot(t, k0, l0) /\ \A l : HasSlot(t, k0, l) => l = l0
      <4>1. k0 >= it[t]
        BY <1>4, <2>0
      <4> QED BY <1>1, <2>0, <2>2, <2>13, <4>1 DEF HasSlot
    <3>2. Has(t, "slot", k0, l0) /\ \A l : Has(t, "slot", k0, l) => l = l0
      BY <3>1 DEF Has
    <3>3. process' = "crashed" \/ allocated' = allocated \ {l0}
      BY <2>1, <2>13
    <3>4. Owned'
      BY ONLY <1>1, <1>3, <2>11, <3>2, <3>3, t \in Thread, OwnedRemove
    <3> QED BY <2>3, <2>4, <2>5, <2>6, <3>4, OthersKeep
  <2> QED BY <2>12, <2>13
<1>6. CASE /\ it[t] > Len(Objects[t]) /\ Goto(t, "EnterPassed")
           /\ UNCHANGED <<allocated, process, passVars, it>>
  <2>1. /\ pc' \in [Thread -> Phases] /\ pc'[t] = "EnterPassed"
        /\ \A u \in Thread \ {t} : pc'[u] = pc[u]
    <3>1. "EnterPassed" \in Phases
      BY DEF Phases
    <3> QED BY <1>3, <1>6, <3>1, GotoFacts
  <2>2. UNCHANGED <<allocated, process, PassedObjects, PassedObjectsLock, it>>
    BY <1>6 DEF passVars
  <2>3. \A u \in Thread \ {t} : Untouched(u)
    BY <1>2, <2>1, <2>2 DEF Untouched
  <2>4. TypeOK'
    BY <1>2, <1>3, <2>1, <2>2 DEF TypeOK, Phases
  <2>5. ListSound(t)'
    BY <1>1, <1>2, <1>3, <2>1 DEF ListSound
  <2>6. PlaceSound(t)'
    BY <1>2, <1>4, <2>1, <2>2 DEF PlaceSound, InLoop
  <2>7. \A k \in DOMAIN Objects[t] : ~ (k >= it[t])
    BY <1>4, <1>6
  <2>8. \A kind, k, l : Has(t, kind, k, l)' <=> Has(t, kind, k, l)
    BY <1>1, <1>2, <2>1, <2>2, <2>7 DEF Has, HasSlot, HasPassed, HasObject
  <2>9. \A u \in Thread : \A kind, k, l : Has(u, kind, k, l)' <=> Has(u, kind, k, l)
    BY <2>3, <2>8, UntouchedHas
  <2>10. Owned'
    BY <1>1, <1>3, <2>2, <2>9, OwnedSame
  <2> QED BY <2>3, <2>4, <2>5, <2>6, <2>10, OthersKeep
<1> QED BY <1>5, <1>6 DEF FreeObjects

LEMMA StepEnterPassed ==
  ASSUME TestInv, NEW t \in Thread, EnterPassed(t)
  PROVE  TestInv'
<1>1. process = "running" /\ pc[t] = "EnterPassed"
  BY DEF EnterPassed, At
<1>2. /\ PassedObjectsLock' = [PassedObjectsLock EXCEPT ![t] = t] /\ it' = [it EXCEPT ![t] = 1]
      /\ Goto(t, "FreePassed")
      /\ UNCHANGED <<allocator, allocated, contexts, process, Objects, FreeSlots,
                     deallocateObjects, PassedObjects, i, object, otherThread>>
  BY DEF EnterPassed, slotVars
<1>3. TestConstants /\ TypeOK /\ Owned /\ ListSound(t) /\ PlaceSound(t)
  BY DEF TestInv
<1>4. PassedObjects[t] \in Seq(Location) /\ object[t] = nullptr
  BY <1>1, <1>3, TypeFacts DEF PlaceSound
<1>5. /\ pc' \in [Thread -> Phases] /\ pc'[t] = "FreePassed"
      /\ \A u \in Thread \ {t} : pc'[u] = pc[u]
  <2>1. "FreePassed" \in Phases
    BY DEF Phases
  <2> QED BY <1>2, <1>3, <2>1, GotoFacts
<1>6. /\ PassedObjectsLock' \in [Thread -> Thread \cup {NoThread}]
      /\ it' \in [Thread -> Nat] /\ it'[t] = 1
      /\ \A u \in Thread \ {t} :
           PassedObjectsLock'[u] = PassedObjectsLock[u] /\ it'[u] = it[u]
  BY <1>2, <1>3 DEF TypeOK
<1>7. \A u \in Thread \ {t} : Untouched(u)
  BY <1>2, <1>5, <1>6 DEF Untouched
<1>8. TypeOK'
  BY <1>2, <1>3, <1>5, <1>6 DEF TypeOK, Phases
<1>9. ListSound(t)'
  BY <1>1, <1>2, <1>3, <1>5 DEF ListSound
<1>10. PlaceSound(t)'
  <2>1. it'[t] <= Len(PassedObjects'[t]) + 1
    BY <1>2, <1>4, <1>6
  <2> QED BY <1>2, <1>4, <1>5, <1>6, <2>1 DEF PlaceSound, InLoop
<1>11. \A k \in DOMAIN PassedObjects[t] : k >= it'[t]
  BY <1>4, <1>6
<1>12. \A kind, k, l : Has(t, kind, k, l)' <=> Has(t, kind, k, l)
  BY <1>1, <1>2, <1>5, <1>11 DEF Has, HasSlot, HasPassed, HasObject
<1>13. \A u \in Thread : \A kind, k, l : Has(u, kind, k, l)' <=> Has(u, kind, k, l)
  BY <1>7, <1>12, UntouchedHas
<1>14. Owned'
  BY <1>1, <1>2, <1>3, <1>13, OwnedSame
<1> QED BY <1>7, <1>8, <1>9, <1>10, <1>14, OthersKeep

LEMMA StepFreePassed ==
  ASSUME TestInv, NEW t \in Thread, FreePassed(t)
  PROVE  TestInv'
<1>1. process = "running" /\ pc[t] = "FreePassed"
  BY DEF FreePassed, At
<1>2. UNCHANGED <<allocator, contexts, Objects, FreeSlots, deallocateObjects, i, object,
                  otherThread>>
  BY DEF FreePassed, slotVars
<1>3. TestConstants /\ TypeOK /\ Owned /\ ListSound(t) /\ PlaceSound(t)
  BY DEF TestInv
<1>4. /\ PassedObjects[t] \in Seq(Location) /\ it[t] \in Nat
      /\ it[t] >= 1 /\ object[t] = nullptr
  BY <1>1, <1>3, TypeFacts DEF PlaceSound
<1>5. CASE DeallocateNext(t, PassedObjects[t])
  <2>0. PICK k0, l0 : k0 = it[t] /\ l0 = PassedObjects[t][k0]
    OBVIOUS
  <2>1. /\ k0 <= Len(PassedObjects[t])
        /\ it' \in [Thread -> Nat] /\ it'[t] = k0 + 1
        /\ \A u \in Thread \ {t} : it'[u] = it[u]
        /\ process' \in {process, "crashed"} /\ allocated' \subseteq Location
        /\ PassedObjects' = PassedObjects /\ PassedObjectsLock' = PassedObjectsLock /\ pc' = pc
        /\ IF l0 = nullptr THEN allocated' = allocated
           ELSE process' = "crashed" \/ allocated' = allocated \ {l0}
    BY <1>5, <2>0, DeallocateFacts
  <2>2. k0 \in DOMAIN PassedObjects[t] /\ l0 \in Location
    BY <1>4, <2>0, <2>1
  <2>3. process' = "crashed" \/ allocated' = allocated \ {l0}
    BY <1>3, <2>1, <2>2 DEF TestConstants
  <2>4. \A u \in Thread \ {t} : Untouched(u)
    BY <1>2, <2>1 DEF Untouched
  <2>5. TypeOK'
    <3>1. process' \in {"running", "exited", "crashed"}
      BY <1>1, <2>1
    <3> QED BY <1>2, <1>3, <2>1, <3>1 DEF TypeOK
  <2>6. ListSound(t)'
    BY <1>2, <1>3, <2>1 DEF ListSound
  <2>7. PlaceSound(t)'
    <3>1. it'[t] >= 1 /\ it'[t] <= Len(PassedObjects'[t]) + 1
      BY <1>4, <2>0, <2>1
    <3> QED BY <1>1, <1>2, <1>4, <2>1, <3>1 DEF PlaceSound, InLoop
  <2>8. \A k, l : HasPassed(t, k, l)' <=> HasPassed(t, k, l) /\ k # k0
    <3>1. \A k \in DOMAIN PassedObjects[t] : k \in Nat
      BY <1>4
    <3>2. k0 \in Nat
      BY <1>4, <2>0
    <3>3. \A k \in Nat : k >= k0 + 1 <=> k >= k0 /\ k # k0
      BY <3>2
    <3> QED BY <1>1, <2>0, <2>1, <3>1, <3>3 DEF HasPassed
  <2>9. \A k, l : HasSlot(t, k, l)' <=> HasSlot(t, k, l)
    BY <1>1, <1>2, <2>1 DEF HasSlot
  <2>10. \A k, l : HasObject(t, k, l)' <=> HasObject(t, k, l)
    BY <1>2 DEF HasObject
  <2>11. \A kind, k, l :
           Has(t, kind, k, l)' <=> Has(t, kind, k, l) /\ ~ (kind = "passed" /\ k = k0)
    BY <2>8, <2>9, <2>10 DEF Has
  <2>12. Removed(t, "passed", k0)
    BY <2>4, <2>11, UntouchedHas DEF Removed
  <2>13. HasPassed(t, k0, l0) /\ \A l : HasPassed(t, k0, l) => l = l0
    <3>1. k0 >= it[t]
      BY <1>4, <2>0
    <3> QED BY <1>1, <2>0, <2>2, <3>1 DEF HasPassed
  <2>14. Has(t, "passed", k0, l0) /\ \A l : Has(t, "passed", k0, l) => l = l0
    BY <2>13 DEF Has
  <2>15. Owned'
    BY ONLY <1>1, <1>3, <2>3, <2>12, <2>14, t \in Thread, OwnedRemove
  <2> QED BY <2>4, <2>5, <2>6, <2>7, <2>15, OthersKeep
<1>6. CASE /\ it[t] > Len(PassedObjects[t]) /\ Leave(t) /\ Goto(t, "done")
           /\ UNCHANGED <<allocated, process, PassedObjects, it>>
  <2>1. /\ pc' \in [Thread -> Phases] /\ pc'[t] = "done"
        /\ \A u \in Thread \ {t} : pc'[u] = pc[u]
    <3>1. "done" \in Phases
      BY DEF Phases
    <3> QED BY <1>3, <1>6, <3>1, GotoFacts
  <2>2. /\ PassedObjectsLock' \in [Thread -> Thread \cup {NoThread}]
        /\ \A u \in Thread \ {t} : PassedObjectsLock'[u] = PassedObjectsLock[u]
    BY <1>3, <1>6 DEF Leave, TypeOK
  <2>3. \A u \in Thread \ {t} : Untouched(u)
    BY <1>2, <1>6, <2>1, <2>2 DEF Untouched
  <2>4. TypeOK'
    BY <1>2, <1>3, <1>6, <2>1, <2>2 DEF TypeOK, Phases
  <2>5. ListSound(t)'
    BY <1>1, <1>2, <1>3, <2>1 DEF ListSound
  <2>6. PlaceSound(t)'
    BY <1>1, <1>2, <1>3, <1>4, <1>6, <2>1 DEF PlaceSound, InLoop
  <2>7. \A kind, k, l : Has(t, kind, k, l)' <=> Has(t, kind, k, l)
    BY <1>1, <1>2, <1>6, <2>1 DEF Has, HasSlot, HasPassed, HasObject
  <2>8. \A u \in Thread : \A kind, k, l : Has(u, kind, k, l)' <=> Has(u, kind, k, l)
    BY <2>3, <2>7, UntouchedHas
  <2>9. Owned'
    BY <1>1, <1>3, <1>6, <2>8, OwnedSame
  <2> QED BY <2>3, <2>4, <2>5, <2>6, <2>9, OthersKeep
<1> QED BY <1>5, <1>6 DEF FreePassed

LEMMA StepReturn ==
  ASSUME TestInv, Return
  PROVE  TestInv'
<1>1. /\ process = "running" /\ process' = "exited"
      /\ UNCHANGED <<allocator, allocated, contexts, Objects, FreeSlots, deallocateObjects,
                     PassedObjects, PassedObjectsLock, i, pc, object, otherThread, it>>
  BY DEF Return, slotVars, passVars
<1>2. TypeOK'
  BY <1>1 DEF TestInv, TypeOK
<1>3. \A u \in Thread : Untouched(u)
  BY <1>1 DEF Untouched
<1> QED BY <1>1, <1>2, <1>3, StepNone

LEMMA StepStutter ==
  ASSUME TestInv, UNCHANGED vars
  PROVE  TestInv'
<1>1. UNCHANGED <<allocator, allocated, contexts, process, Objects, FreeSlots,
                  deallocateObjects, PassedObjects, PassedObjectsLock, i, pc, object,
                  otherThread, it>>
  BY DEF vars, slotVars, passVars
<1>2. TypeOK'
  BY <1>1 DEF TestInv, TypeOK
<1>3. \A u \in Thread : Untouched(u)
  BY <1>1 DEF Untouched
<1>4. \A u \in Thread : ListSound(u)' /\ PlaceSound(u)'
  BY <1>3, UntouchedSound DEF TestInv
<1>5. \A u \in Thread : \A kind, k, l : Has(u, kind, k, l)' <=> Has(u, kind, k, l)
  BY <1>3, UntouchedHas
<1>6. Owned'
  BY <1>1, <1>5 DEF TestInv, Owned
<1> QED BY <1>2, <1>4, <1>6 DEF TestInv, TestConstants

(* The invariant is inductive.                                             *)
LEMMA StepInv == TestInv /\ [Next]_vars => TestInv'
<1> SUFFICES ASSUME TestInv, [Next]_vars PROVE TestInv'
  OBVIOUS
<1>1. CASE Return
  BY <1>1, StepReturn
<1>2. CASE \E t \in Thread : Step(t)
  <2>1. PICK t \in Thread : Step(t)
    BY <1>2
  <2>2. \/ Allocate(t) \/ Deallocate(t) \/ Pass(t)
        \/ PopPassed(t) \/ DeallocatePassed(t) \/ DeallocateOwn(t)
        \/ EnterOther(t) \/ PushOther(t)
        \/ FreeObjects(t) \/ EnterPassed(t) \/ FreePassed(t)
    BY <2>1 DEF Step, Execute
  <2> QED BY <2>2, StepAllocate, StepDeallocate, StepPass, StepPopPassed,
             StepDeallocatePassed, StepDeallocateOwn, StepEnterOther, StepPushOther,
             StepFreeObjects, StepEnterPassed, StepFreePassed
<1>3. CASE UNCHANGED vars
  BY <1>3, StepStutter
<1> QED BY <1>1, <1>2, <1>3 DEF Next

LEMMA InitInv == Init => TestInv
<1> SUFFICES ASSUME Init PROVE TestInv
  OBVIOUS
<1>0. TestConstants
  BY PointerAssumption, NoThreadAssumption, ActionCountAssumption DEF TestConstants
<1>1. /\ nullptr \notin Location /\ NoThread \notin Thread
      /\ ACTION_COUNT \in Nat /\ 0 < ACTION_COUNT /\ 0 \in 0 .. ACTION_COUNT
  BY <1>0 DEF TestConstants
<1>2. TypeOK
  BY <1>1 DEF Init, TypeOK
<1>3. ASSUME NEW t \in Thread PROVE ListSound(t) /\ PlaceSound(t)
  <2>1. /\ Objects[t] = <<>> /\ FreeSlots[t] = <<>> /\ deallocateObjects[t] = 0
        /\ PassedObjects[t] = <<>> /\ i[t] = 0 /\ pc[t] = "Execute"
        /\ object[t] = nullptr /\ it[t] = 1
    BY DEF Init
  <2>2. ListSound(t)
    BY <2>1 DEF ListSound, ToSet, IsInjective
  <2>3. PlaceSound(t)
    BY <1>1, <2>1 DEF PlaceSound
  <2> QED BY <2>2, <2>3
<1>4. \A t \in Thread : \A kind, k, l : ~ Has(t, kind, k, l)
  <2>1. \A t \in Thread : Objects[t] = <<>> /\ PassedObjects[t] = <<>> /\ object[t] = nullptr
    BY DEF Init
  <2> QED BY <2>1 DEF Has, HasSlot, HasPassed, HasObject
<1>5. Owned
  BY <1>4 DEF Owned, Init
<1> QED BY <1>0, <1>2, <1>3, <1>5 DEF TestInv

LEMMA InvHolds == Spec => []TestInv
BY InitInv, StepInv, PTL DEF Spec

-----------------------------------------------------------------------------
(* The properties.                                                         *)

Places == UNION {Slots(t) \cup Passed(t) \cup InHand(t) : t \in Thread}

(* The places of ObjectsOwned are those of Has, in both directions.        *)
LEMMA PlaceHas ==
  ASSUME NEW place \in Places
  PROVE  \E t \in Thread : \E kind, k : place = <<t, kind, k>> /\ Has(t, kind, k, ObjectIn(place))
<1>1. PICK t \in Thread : place \in Slots(t) \/ place \in Passed(t) \/ place \in InHand(t)
  BY DEF Places
<1>2. CASE place \in Slots(t)
  <2>1. PICK k \in DOMAIN Objects[t] :
          /\ place = <<t, "slot", k>> /\ Objects[t][k] # nullptr
          /\ pc[t] \notin {"EnterPassed", "FreePassed", "done"}
          /\ pc[t] = "FreeObjects" => k >= it[t]
    BY <1>2 DEF Slots
  <2>2. ObjectIn(place) = Objects[t][k]
    BY <2>1 DEF ObjectIn
  <2>3. Has(t, "slot", k, Objects[t][k])
    BY <2>1 DEF Has, HasSlot
  <2> QED BY <2>1, <2>2, <2>3
<1>3. CASE place \in Passed(t)
  <2>1. PICK k \in DOMAIN PassedObjects[t] :
          /\ place = <<t, "passed", k>>
          /\ pc[t] \in {"FreePassed", "done"} => k >= it[t]
    BY <1>3 DEF Passed
  <2>2. ObjectIn(place) = PassedObjects[t][k]
    BY <2>1 DEF ObjectIn
  <2>3. Has(t, "passed", k, PassedObjects[t][k])
    BY <2>1 DEF Has, HasPassed
  <2> QED BY <2>1, <2>2, <2>3
<1>4. CASE place \in InHand(t)
  <2>1. place = <<t, "object", 1>> /\ object[t] # nullptr
    BY <1>4 DEF InHand
  <2>2. ObjectIn(place) = object[t]
    BY <2>1 DEF ObjectIn
  <2>3. Has(t, "object", 1, object[t])
    BY <2>1 DEF Has, HasObject
  <2> QED BY <2>1, <2>2, <2>3
<1> QED BY <1>1, <1>2, <1>3, <1>4

LEMMA HasPlace ==
  ASSUME NEW t \in Thread, NEW kind, NEW k, NEW l, Has(t, kind, k, l)
  PROVE  \E place \in Places : ObjectIn(place) = l
<1>1. CASE kind = "slot" /\ HasSlot(t, k, l)
  <2>1. <<t, "slot", k>> \in Slots(t) /\ l = Objects[t][k]
    BY <1>1 DEF HasSlot, Slots
  <2>2. ObjectIn(<<t, "slot", k>>) = l
    BY <2>1 DEF ObjectIn
  <2> QED BY <2>1, <2>2 DEF Places
<1>2. CASE kind = "passed" /\ HasPassed(t, k, l)
  <2>1. <<t, "passed", k>> \in Passed(t) /\ l = PassedObjects[t][k]
    BY <1>2 DEF HasPassed, Passed
  <2>2. ObjectIn(<<t, "passed", k>>) = l
    BY <2>1 DEF ObjectIn
  <2> QED BY <2>1, <2>2 DEF Places
<1>3. CASE kind = "object" /\ HasObject(t, k, l)
  <2>1. <<t, "object", 1>> \in InHand(t) /\ l = object[t]
    BY <1>3 DEF HasObject, InHand
  <2>2. ObjectIn(<<t, "object", 1>>) = l
    BY <2>1 DEF ObjectIn
  <2> QED BY <2>1, <2>2 DEF Places
<1> QED BY <1>1, <1>2, <1>3 DEF Has

LEMMA InvOwned == TestInv => ObjectsOwned
<1> SUFFICES ASSUME TestInv, process # "crashed" PROVE
      /\ \A place \in Places : ObjectIn(place) \in allocated
      /\ \A location \in allocated : \E place \in Places : ObjectIn(place) = location
      /\ \A p, q \in Places : ObjectIn(p) = ObjectIn(q) => p = q
      /\ \A t \in Thread :
           pc[t] = "Pop" /\ PassedObjectsLock[t] = NoThread => PassedObjects[t] # <<>>
  BY DEF ObjectsOwned, Places
<1>1. /\ \A t \in Thread : \A kind, k, l : Has(t, kind, k, l) => l \in allocated
      /\ \A l \in allocated : \E t \in Thread : \E kind, k : Has(t, kind, k, l)
      /\ \A t, u \in Thread : \A kind, other, k, m, l :
           Has(t, kind, k, l) /\ Has(u, other, m, l) => t = u /\ kind = other /\ k = m
  BY DEF TestInv, Owned
<1>2. \A place \in Places : ObjectIn(place) \in allocated
  BY <1>1, PlaceHas
<1>3. \A location \in allocated : \E place \in Places : ObjectIn(place) = location
  BY <1>1, HasPlace
<1>4. ASSUME NEW p \in Places, NEW q \in Places, ObjectIn(p) = ObjectIn(q) PROVE p = q
  <2>1. PICK t \in Thread : \E kind, k : p = <<t, kind, k>> /\ Has(t, kind, k, ObjectIn(p))
    BY PlaceHas
  <2>2. PICK u \in Thread : \E other, m : q = <<u, other, m>> /\ Has(u, other, m, ObjectIn(q))
    BY PlaceHas
  <2>3. PICK kind, k : p = <<t, kind, k>> /\ Has(t, kind, k, ObjectIn(p))
    BY <2>1
  <2>4. PICK other, m : q = <<u, other, m>> /\ Has(u, other, m, ObjectIn(q))
    BY <2>2
  <2>5. t = u /\ kind = other /\ k = m
    BY <1>1, <1>4, <2>3, <2>4
  <2> QED BY <2>3, <2>4, <2>5
<1>5. \A t \in Thread :
        pc[t] = "Pop" /\ PassedObjectsLock[t] = NoThread => PassedObjects[t] # <<>>
  BY DEF TestInv, PlaceSound
<1> QED BY <1>2, <1>3, <1>4, <1>5

LEMMA InvFree == TestInv => SlotsFree
BY DEF TestInv, ListSound, SlotsFree

(***************************************************************************)
(* In every run of the test, with any threads, locations and actions: each *)
(* object that is allocated is in one slot, one vector or the hands of one *)
(* thread, and each of these places has an object that is allocated.  None *)
(* is deallocated twice or verified after it was deallocated, although the *)
(* sizes of the vectors are read without their locks, and a thread that    *)
(* saw a passed object finds one when it has the lock.                     *)
(***************************************************************************)
THEOREM OwnedCorrect == Spec => []ObjectsOwned
BY InvHolds, InvOwned, PTL

(***************************************************************************)
(* FreeSlots lists the slots without an object, each once, in every run of *)
(* the test: InsertObject never puts an object over another, and the count *)
(* SelectVictim goes by covers the slots that are free.                    *)
(***************************************************************************)
THEOREM FreeCorrect == Spec => []SlotsFree
BY InvHolds, InvFree, PTL
=============================================================================
