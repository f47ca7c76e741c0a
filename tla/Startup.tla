------------------------------ MODULE Startup ------------------------------
(***************************************************************************)
(* The first calls of the threads (src/Allocator/Allocator.hpp).  Allocate *)
(* and Deallocate need the context of the thread, module ThreadStart;      *)
(* AllocateHuge sees first to the cleaning thread, module CleaningThread,  *)
(* and needs the context afterwards.  A thread does one of them at a time, *)
(* and each of the two start-ups is guarded by a lock of its own.          *)
(***************************************************************************)
EXTENDS ThreadStart

CONSTANT MaxCleaners   \* A bound: no more cleaning threads are created.

ASSUME MaxCleanersAssumption == MaxCleaners \in Nat

VARIABLES cacheThreadInitialized_, cacheThreadLock_, cleaners, step

Cleaning == INSTANCE CleaningThread

cleaningVars == <<cacheThreadInitialized_, cacheThreadLock_, cleaners, step>>
allVars == <<contextVars, cleaningVars>>

StartupInit == ContextInit /\ Cleaning!Init

(* What a thread does while it is not busy with the cleaning thread.       *)
ContextStep(t) ==
  /\ step[t] = "idle"
  /\ GetCurrentContext(t) \/ StartDeallocate(t) \/ Continue(t)
  /\ UNCHANGED cleaningVars

(* AllocateHuge, as long as it is.                                         *)
AllocateHuge(t) ==
  /\ doing[t] = "idle"
  /\ Cleaning!EnsureCacheThreadActive(t) \/ Cleaning!Continue(t)
  /\ UNCHANGED contextVars

(* A process that has crashed does nothing any more.                       *)
Crashed == ~Running /\ UNCHANGED allVars

StartupNext ==
  \/ Running /\ \E t \in Thread : ContextStep(t) \/ AllocateHuge(t)
  \/ Crashed

(* Threads run on inside a call.  No lock is assumed to be fair, and       *)
(* nothing is assumed of the system.                                       *)
StartupSpec ==
  /\ StartupInit
  /\ [][StartupNext]_allVars
  /\ \A t \in Thread :
       /\ WF_allVars(Running /\ Continue(t) /\ UNCHANGED cleaningVars)
       /\ WF_allVars(Running /\ Cleaning!Continue(t) /\ UNCHANGED contextVars)

-----------------------------------------------------------------------------
(* Properties.                                                             *)

(***************************************************************************)
(* However many threads allocate huge locations at once, and whatever      *)
(* failed before, there is at most one cleaning thread.                    *)
(***************************************************************************)
OneCleaner ==
  /\ Cleaning!TypeOK
  /\ cleaners <= 1

(***************************************************************************)
(* No thread is held up for ever by the others, as long as the process     *)
(* runs: one that starts to allocate comes to its context, for the lock is *)
(* taken only until the flag is set; and one that waits to create the      *)
(* cleaning thread goes on once that was done.                             *)
(***************************************************************************)
CallsEnd ==
  \A t \in Thread :
    /\ doing[t] = "ReadFlag" ~> doing[t] = "Allocate" \/ ~Running
    /\ cacheThreadInitialized_ /\ step[t] = "Lock" ~> step[t] = "idle" \/ ~Running
=============================================================================
