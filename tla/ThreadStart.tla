---------------------------- MODULE ThreadStart -----------------------------
(***************************************************************************)
(* How a thread comes to its context (src/Allocator/Allocator.hpp): the    *)
(* first allocation of a thread finds none in its thread-local storage and *)
(* creates one, and the first thread of all obtains the index of the slot, *)
(* by double-checked locking.                                              *)
(*                                                                         *)
(* GetCurrentContext uses the index before anybody looked at the flag, so  *)
(* it may use the value the member has in a new allocator, which nothing   *)
(* initializes.  The slots of the process are shared with other libraries. *)
(* A store becomes visible when it is executed: ReadValue and WriteValue   *)
(* put barriers between the index and the flag.                            *)
(*                                                                         *)
(* The system may refuse a slot, and then every allocation creates another *)
(* context; or the memory for a context, which nothing looks at: a null    *)
(* pointer is written through, and the process ends.                       *)
(***************************************************************************)
EXTENDS Threads, Naturals, FiniteSets

CONSTANTS
  Context,      \* The contexts of the pool.
  NoContext,    \* A null pointer.
  Slot,         \* The indices of thread-local storage.
  NoSlot,       \* TLS_OUT_OF_INDEXES, or any other index without a slot.
  Foreign,      \* Those that other libraries have, with a value of theirs.
  Other         \* That value.

ASSUME ForeignAssumption == Foreign \subseteq Slot
ASSUME NoSlotAssumption == NoSlot \notin Slot
ASSUME ContextAssumption == NoContext \notin Context /\ Other \notin Context \cup {NoContext}

VARIABLES
  initialized_, initLock_,    \* The flag, and the lock for the rest.
  tlsIndex_,                  \* The index of the slot.
  TLS,                        \* The slots of each thread.
  taken,                      \* The slots that are taken.
  threadContextPool_,         \* The contexts that are not used.
  doing, context              \* What each thread does, with which context.

contextVars ==
  <<initialized_, initLock_, tlsIndex_, TLS, taken, threadContextPool_, doing, context>>

ContextTypeOK ==
  /\ initialized_ \in BOOLEAN
  /\ initLock_ \in Thread \cup {NoThread}
  /\ tlsIndex_ \in Slot \cup {NoSlot}
  /\ TLS \in [Thread -> [Slot -> Context \cup {NoContext, Other}]]
  /\ taken \subseteq Slot
  /\ threadContextPool_ \subseteq Context
  /\ doing \in [Thread -> {"idle", "ReadFlag", "Lock", "Check", "SetFlag", "Unlock",
                           "GetObject", "SetTLSValue", "Allocate", "Deallocate", "crashed"}]
  /\ context \in [Thread -> Context \cup {NoContext, Other}]

ContextInit ==
  /\ initialized_ = FALSE
  /\ initLock_ = NoThread
  /\ tlsIndex_ \in Slot \cup {NoSlot}
  /\ TLS = [t \in Thread |-> [i \in Slot |-> IF i \in Foreign THEN Other ELSE NoContext]]
  /\ taken = Foreign
  /\ threadContextPool_ = Context
  /\ doing = [t \in Thread |-> "idle"]
  /\ context = [t \in Thread |-> NoContext]

Proceed(t, label) == doing' = [doing EXCEPT ![t] = label]

-----------------------------------------------------------------------------
(* ThreadUtils: thread-local storage.                                      *)

(* An index without a slot has no value, and none is stored there.         *)
GetTLSValue(t) == IF tlsIndex_ \in Slot THEN TLS[t][tlsIndex_] ELSE NoContext

SetTLSValueTo(t, data) ==
  TLS' = IF tlsIndex_ \in Slot THEN [TLS EXCEPT ![t][tlsIndex_] = data] ELSE TLS

(* A slot nobody has, which is empty in every thread; or none.             *)
AllocateTLSIndex ==
  \/ \E i \in Slot \ taken :
       /\ tlsIndex_' = i
       /\ taken' = taken \cup {i}
       /\ TLS' = [u \in Thread |-> [TLS[u] EXCEPT ![i] = NoContext]]
  \/ /\ tlsIndex_' = NoSlot
     /\ UNCHANGED <<taken, TLS>>

-----------------------------------------------------------------------------
(* Allocate: take the context of the thread, or create one.                *)
GetCurrentContext(t) ==
  /\ doing[t] = "idle"
  /\ context' = [context EXCEPT ![t] = GetTLSValue(t)]
  /\ Proceed(t, IF GetTLSValue(t) = NoContext THEN "ReadFlag" ELSE "Allocate")
  /\ UNCHANGED <<initialized_, initLock_, tlsIndex_, TLS, taken, threadContextPool_>>

(* Initialize: the first check.                                            *)
ReadFlag(t) ==
  /\ doing[t] = "ReadFlag"
  /\ Proceed(t, IF initialized_ THEN "GetObject" ELSE "Lock")
  /\ UNCHANGED <<initialized_, initLock_, tlsIndex_, TLS, taken, threadContextPool_, context>>

Lock(t) ==
  /\ doing[t] = "Lock"
  /\ initLock_ = NoThread
  /\ initLock_' = t
  /\ Proceed(t, "Check")
  /\ UNCHANGED <<initialized_, tlsIndex_, TLS, taken, threadContextPool_, context>>

(* Bug: the flag is not read again under the lock.                         *)
MustAllocateIndexAlways == TRUE

MustAllocateIndex == ~initialized_

(* The second check.  Whether there was a slot is not looked at.           *)
Check(t) ==
  /\ doing[t] = "Check"
  /\ IF MustAllocateIndex
     THEN AllocateTLSIndex /\ Proceed(t, "SetFlag")
     ELSE /\ Proceed(t, "Unlock")
          /\ UNCHANGED <<tlsIndex_, taken, TLS>>
  /\ UNCHANGED <<initialized_, initLock_, threadContextPool_, context>>

SetFlag(t) ==
  /\ doing[t] = "SetFlag"
  /\ initialized_' = TRUE
  /\ Proceed(t, "Unlock")
  /\ UNCHANGED <<initLock_, tlsIndex_, TLS, taken, threadContextPool_, context>>

(* Bug: the lock is kept.                                                  *)
UnlockNot(t) ==
  /\ doing[t] = "Unlock"
  /\ Proceed(t, "GetObject")
  /\ UNCHANGED <<initialized_, initLock_, tlsIndex_, TLS, taken, threadContextPool_, context>>

Unlock(t) ==
  /\ doing[t] = "Unlock"
  /\ initLock_' = NoThread
  /\ Proceed(t, "GetObject")
  /\ UNCHANGED <<initialized_, tlsIndex_, TLS, taken, threadContextPool_, context>>

PoolAfter(c) == threadContextPool_ \ {c}

(* CreateContext: take a context from the pool (under its lock).           *)
GetObject(t) ==
  /\ doing[t] = "GetObject"
  /\ \E c \in threadContextPool_ :
       /\ context' = [context EXCEPT ![t] = c]
       /\ threadContextPool_' = PoolAfter(c)
  /\ Proceed(t, "SetTLSValue")
  /\ UNCHANGED <<initialized_, initLock_, tlsIndex_, TLS, taken>>

SetTLSValue(t) ==
  /\ doing[t] = "SetTLSValue"
  /\ SetTLSValueTo(t, context[t])
  /\ Proceed(t, "Allocate")
  /\ UNCHANGED <<initialized_, initLock_, tlsIndex_, taken, threadContextPool_, context>>

(* The rest of an allocation or deallocation.  (A deallocation may do      *)
(* without the context: of a huge location, or where no thread owns the    *)
(* group.)                                                                 *)
Finish(t) ==
  /\ doing[t] \in {"Allocate", "Deallocate"}
  /\ context' = [context EXCEPT ![t] = NoContext]
  /\ Proceed(t, "idle")
  /\ UNCHANGED <<initialized_, initLock_, tlsIndex_, TLS, taken, threadContextPool_>>

(* Deallocate, of what was allocated in some context: it takes that of the *)
(* thread and uses it whatever it is.                                      *)
StartDeallocate(t) ==
  /\ doing[t] = "idle"
  /\ \E c \in Context \ threadContextPool_ :
       \A u \in Thread : doing[u] = "SetTLSValue" => context[u] # c
  /\ context' = [context EXCEPT ![t] = GetTLSValue(t)]
  /\ Proceed(t, "Deallocate")
  /\ UNCHANGED <<initialized_, initLock_, tlsIndex_, TLS, taken, threadContextPool_>>

(* There is no memory for a context, and the block that should hold it is  *)
(* initialized; or a group has an owner, and is the thread that one?       *)
UseNull(t) ==
  /\ \/ doing[t] = "GetObject"
     \/ doing[t] = "Deallocate" /\ context[t] = NoContext
  /\ Proceed(t, "crashed")
  /\ UNCHANGED <<initialized_, initLock_, tlsIndex_, TLS, taken, threadContextPool_, context>>

Running == \A t \in Thread : doing[t] # "crashed"

-----------------------------------------------------------------------------
(* The steps of a call that has begun.                                     *)
Continue(t) ==
  \/ ReadFlag(t) \/ Lock(t) \/ Check(t) \/ SetFlag(t) \/ Unlock(t)
  \/ GetObject(t) \/ SetTLSValue(t) \/ Finish(t) \/ UseNull(t)

-----------------------------------------------------------------------------
(* Properties.                                                             *)

Using(t) == doing[t] \in {"SetTLSValue", "Allocate"}

(***************************************************************************)
(* "Returns the context associated with this thread": an allocation works  *)
(* with a context of the pool that no other thread uses or has, and the    *)
(* thread is given one, once: however its start and those of others        *)
(* interleave, no context is lost in a slot that is not looked at again,   *)
(* if the system has a slot for the allocator.                             *)
(***************************************************************************)
OneContextEach ==
  /\ ContextTypeOK
  /\ \A t \in Thread :
       Using(t) =>
         /\ context[t] \in Context
         /\ \A u \in Thread \ {t} :
              context[u] # context[t] /\ \A i \in Slot : TLS[u][i] # context[t]
  /\ tlsIndex_ \in Slot =>
       \A c \in Context \ threadContextPool_ :
         \E t \in Thread :
           \/ doing[t] = "SetTLSValue" /\ context[t] = c
           \/ GetTLSValue(t) = c
=============================================================================
