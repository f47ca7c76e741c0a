--------------------------- MODULE CleaningThread ---------------------------
(***************************************************************************)
(* The start of the thread that cleans the cache of huge locations         *)
(* (src/Allocator/Allocator.hpp): every allocation of a huge location sees *)
(* to it that the thread runs, by double-checked locking.  Both the memory *)
(* for its arguments and the thread itself may be refused by the system.   *)
(* What the thread does afterwards is disabled in this version, and its    *)
(* arguments are left out.                                                 *)
(***************************************************************************)
EXTENDS Naturals

CONSTANTS
  Thread,       \* The threads that allocate.
  NoThread,     \* The holder of a lock that is free.
  MaxCleaners   \* A bound: no more cleaning threads are created.

VARIABLES
  cacheThreadInitialized_, cacheThreadLock_,   \* The flag and the lock.
  cleaners,     \* How many cleaning threads have been created.
  step          \* What each thread does.

vars == <<cacheThreadInitialized_, cacheThreadLock_, cleaners, step>>

TypeOK ==
  /\ cacheThreadInitialized_ \in BOOLEAN
  /\ cacheThreadLock_ \in Thread \cup {NoThread}
  /\ cleaners \in 0 .. MaxCleaners
  /\ step \in [Thread -> {"idle", "ReadFlag", "Lock", "Check", "CreateThread", "SetFlag", "Unlock"}]

Init ==
  /\ cacheThreadInitialized_ = FALSE
  /\ cacheThreadLock_ = NoThread
  /\ cleaners = 0
  /\ step = [t \in Thread |-> "idle"]

Goto(t, label) == step' = [step EXCEPT ![t] = label]

-----------------------------------------------------------------------------
(* EnsureCacheThreadActive reads the flag ...                              *)
EnsureCacheThreadActive(t) ==
  /\ step[t] = "idle"
  /\ ~cacheThreadInitialized_
  /\ Goto(t, "ReadFlag")
  /\ UNCHANGED <<cacheThreadInitialized_, cacheThreadLock_, cleaners>>

(* ... CreateCacheCleaningThread reads it again, ...                       *)
ReadFlag(t) ==
  /\ step[t] = "ReadFlag"
  /\ Goto(t, IF cacheThreadInitialized_ THEN "idle" ELSE "Lock")
  /\ UNCHANGED <<cacheThreadInitialized_, cacheThreadLock_, cleaners>>

Lock(t) ==
  /\ step[t] = "Lock"
  /\ cacheThreadLock_ = NoThread
  /\ cacheThreadLock_' = t
  /\ Goto(t, "Check")
  /\ UNCHANGED <<cacheThreadInitialized_, cleaners>>

(* Bug: the flag is not read under the lock.                               *)
MustCreateAlways == TRUE

MustCreate == ~cacheThreadInitialized_

(* ... and under the lock once more.  Without memory for the arguments the *)
(* call returns, and leaves the rest to the next allocation.               *)
Check(t) ==
  /\ step[t] = "Check"
  /\ IF MustCreate
     THEN \E next \in {"CreateThread", "Unlock"} : Goto(t, next)
     ELSE Goto(t, "Unlock")
  /\ UNCHANGED <<cacheThreadInitialized_, cacheThreadLock_, cleaners>>

(* The system makes the thread or refuses it; the result is not looked at. *)
CreateThread(t) ==
  /\ step[t] = "CreateThread"
  /\ \/ cleaners < MaxCleaners /\ cleaners' = cleaners + 1
     \/ UNCHANGED cleaners
  /\ Goto(t, "SetFlag")
  /\ UNCHANGED <<cacheThreadInitialized_, cacheThreadLock_>>

SetFlag(t) ==
  /\ step[t] = "SetFlag"
  /\ cacheThreadInitialized_' = TRUE
  /\ Goto(t, "Unlock")
  /\ UNCHANGED <<cacheThreadLock_, cleaners>>

Unlock(t) ==
  /\ step[t] = "Unlock"
  /\ cacheThreadLock_' = NoThread
  /\ Goto(t, "idle")
  /\ UNCHANGED <<cacheThreadInitialized_, cleaners>>

-----------------------------------------------------------------------------
(* The steps of a call that has begun.                                     *)
Continue(t) ==
  \/ ReadFlag(t) \/ Lock(t) \/ Check(t) \/ CreateThread(t)
  \/ SetFlag(t) \/ Unlock(t)

Next == \E t \in Thread : EnsureCacheThreadActive(t) \/ Continue(t)

Spec == Init /\ [][Next]_vars
=============================================================================
