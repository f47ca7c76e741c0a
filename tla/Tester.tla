------------------------------- MODULE Tester -------------------------------
(***************************************************************************)
(* The test program (src/AllocatorTester/main.cpp): threads that allocate  *)
(* objects, deallocate them, and pass them to other threads, which         *)
(* deallocate them in turn.  A thread keeps its objects in slots and the   *)
(* objects passed to it in a vector that has a lock.                       *)
(*                                                                         *)
(* The allocator is abstract here: it has locations, and a location is     *)
(* allocated, with the pattern of TouchData in it, until it is             *)
(* deallocated.  The parallel allocator also needs a context: Allocate     *)
(* creates it for the thread, and Deallocate takes it for granted.         *)
(*                                                                         *)
(* The numbers of a RandomProvider may come in any order.  What a thread   *)
(* does to its own slots is one step with the call of the allocator; the   *)
(* vectors of passed objects are changed under their locks, and their      *)
(* sizes read without.                                                     *)
(***************************************************************************)
EXTENDS Threads, Naturals, Sequences, FiniteSets, SequencesExt

CONSTANTS
  Location,      \* What the allocator has to give.
  nullptr,       \* A null pointer, as in a free slot.
  ACTION_COUNT   \* The actions of a thread: 20 million in the program.

ASSUME PointerAssumption == nullptr \notin Location
ASSUME ActionCountAssumption == ACTION_COUNT \in Nat \ {0}

VARIABLES
  allocator,               \* The one the command line asks for.
  allocated,               \* The locations that are allocated.
  contexts,                \* The threads that have a context.
  process,                 \* Is the program running?
  Objects,                 \* The slots of each thread,
  FreeSlots,               \* those of them without an object,
  deallocateObjects,       \* and how often one became free.
  PassedObjects,           \* What was passed to each thread.
  PassedObjectsLock,       \* The thread that has this lock.
  i,                       \* The actions each thread has behind it.
  pc,                      \* Where it is,
  object,                  \* with the object it works on
  otherThread,             \* and the thread it passes it to,
  it                       \* or its place in the vector it frees.

slotVars == <<Objects, FreeSlots, deallocateObjects>>
passVars == <<PassedObjects, PassedObjectsLock>>
vars == <<allocator, allocated, contexts, process, slotVars, passVars,
          i, pc, object, otherThread, it>>

TypeOK ==
  /\ allocator \in {"native", "parallel"}
  /\ allocated \subseteq Location
  /\ contexts \subseteq Thread
  /\ process \in {"running", "exited", "crashed"}
  /\ Objects \in [Thread -> Seq(Location \cup {nullptr})]
  /\ FreeSlots \in [Thread -> Seq(1 .. ACTION_COUNT)]
  /\ deallocateObjects \in [Thread -> 0 .. ACTION_COUNT]
  /\ PassedObjects \in [Thread -> Seq(Location)]
  /\ PassedObjectsLock \in [Thread -> Thread \cup {NoThread}]
  /\ i \in [Thread -> 0 .. ACTION_COUNT]
  /\ pc \in [Thread -> {"Execute", "Pop", "Passed", "Own", "Enter", "Push",
                        "FreeObjects", "EnterPassed", "FreePassed", "done"}]
  /\ object \in [Thread -> Location \cup {nullptr}]
  /\ otherThread \in [Thread -> Thread \cup {NoThread}]
  /\ it \in [Thread -> Nat]

(* main: the allocator and the data of the threads are there before the    *)
(* threads are created.                                                    *)
Init ==
  /\ allocator \in {"native", "parallel"}
  /\ allocated = {}
  /\ contexts = {}
  /\ process = "running"
  /\ Objects = [t \in Thread |-> <<>>]
  /\ FreeSlots = [t \in Thread |-> <<>>]
  /\ deallocateObjects = [t \in Thread |-> 0]
  /\ PassedObjects = [t \in Thread |-> <<>>]
  /\ PassedObjectsLock = [t \in Thread |-> NoThread]
  /\ i = [t \in Thread |-> 0]
  /\ pc = [t \in Thread |-> "Execute"]
  /\ object = [t \in Thread |-> nullptr]
  /\ otherThread = [t \in Thread |-> NoThread]
  /\ it = [t \in Thread |-> 1]

At(t, label) == process = "running" /\ pc[t] = label

Goto(t, label) == pc' = [pc EXCEPT ![t] = label]

(* The end of Execute: the next action, or the end of the loop.            *)
NextAction(t) ==
  /\ i' = [i EXCEPT ![t] = @ + 1]
  /\ Goto(t, IF i[t] + 1 < ACTION_COUNT THEN "Execute" ELSE "FreeObjects")

-----------------------------------------------------------------------------
(* The allocator, and the program's end.                                   *)

(* Deallocate, after VerifyData.                                           *)
DeallocateObject(t, location) ==
  IF allocator = "parallel" /\ t \notin contexts
  THEN process' = "crashed" /\ UNCHANGED allocated
  ELSE allocated' = allocated \ {location} /\ UNCHANGED process

-----------------------------------------------------------------------------
(* The slots.                                                              *)

(* Bug: the slot stays in the list of free ones.                           *)
InsertObjectKept(t, location) ==
  /\ UNCHANGED <<FreeSlots, deallocateObjects>>
  /\ Objects' = [Objects EXCEPT ![t] =
       IF FreeSlots[t] # <<>> THEN [@ EXCEPT ![Last(FreeSlots[t])] = location]
                              ELSE Append(@, location)]

InsertObject(t, location) ==
  /\ UNCHANGED deallocateObjects
  /\ IF FreeSlots[t] # <<>>
     THEN /\ Objects' = [Objects EXCEPT ![t][Last(FreeSlots[t])] = location]
          /\ FreeSlots' = [FreeSlots EXCEPT ![t] = Front(@)]
     ELSE /\ Objects' = [Objects EXCEPT ![t] = Append(@, location)]
          /\ UNCHANGED FreeSlots

(* SelectVictim: it finds an object if there is one, and is only asked if  *)
(* the count of free slots ever made is not the number of slots.           *)
Victims(t) ==
  IF deallocateObjects[t] = Len(Objects[t]) THEN {}
  ELSE {slot \in DOMAIN Objects[t] : Objects[t][slot] # nullptr}

(* Bug: the object stays in the slot.                                      *)
ResetSlotKept(t, slot) ==
  /\ FreeSlots' = [FreeSlots EXCEPT ![t] = Append(@, slot)]
  /\ deallocateObjects' = [deallocateObjects EXCEPT ![t] = @ + 1]
  /\ UNCHANGED Objects

ResetSlot(t, slot) ==
  /\ Objects' = [Objects EXCEPT ![t][slot] = nullptr]
  /\ FreeSlots' = [FreeSlots EXCEPT ![t] = Append(@, slot)]
  /\ deallocateObjects' = [deallocateObjects EXCEPT ![t] = @ + 1]

-----------------------------------------------------------------------------
(* Execute: the action Allocate.  The program ends if there is no memory.  *)
Allocate(t) ==
  /\ At(t, "Execute")
  /\ IF allocated = Location
     THEN process' = "exited" /\ UNCHANGED <<allocated, contexts, slotVars, i, pc>>
     ELSE \E location \in Location \ allocated :
            /\ allocated' = allocated \cup {location}
            /\ contexts' = contexts \cup {t}
            /\ InsertObject(t, location)
            /\ NextAction(t)
            /\ UNCHANGED process
  /\ UNCHANGED <<allocator, passVars, object, otherThread, it>>

(* Execute: the action Deallocate, to begin with the size of PassedObjects.*)
(* While another thread is inserting an object, either answer may be read. *)
SizeRead(t) ==
  IF PassedObjectsLock[t] # NoThread THEN BOOLEAN ELSE {PassedObjects[t] # <<>>}

Deallocate(t) ==
  /\ At(t, "Execute")
  /\ \E passed \in SizeRead(t) : Goto(t, IF passed THEN "Pop" ELSE "Own")
  /\ UNCHANGED <<allocator, allocated, contexts, process, slotVars, passVars,
                 i, object, otherThread, it>>

PopPassed(t) ==
  /\ At(t, "Pop")
  /\ PassedObjectsLock[t] = NoThread
  /\ object' = [object EXCEPT ![t] = Last(PassedObjects[t])]
  /\ PassedObjects' = [PassedObjects EXCEPT ![t] = Front(@)]
  /\ Goto(t, "Passed")
  /\ UNCHANGED <<allocator, allocated, contexts, process, slotVars,
                 PassedObjectsLock, i, otherThread, it>>

DeallocatePassed(t) ==
  /\ At(t, "Passed")
  /\ DeallocateObject(t, object[t])
  /\ object' = [object EXCEPT ![t] = nullptr]
  /\ Goto(t, "Own")
  /\ UNCHANGED <<allocator, contexts, slotVars, passVars, i, otherThread, it>>

(* An object of its own, if there is one.                                  *)
DeallocateOwn(t) ==
  /\ At(t, "Own")
  /\ IF Victims(t) = {}
     THEN UNCHANGED <<allocated, process, slotVars>>
     ELSE \E victim \in Victims(t) :
            /\ DeallocateObject(t, Objects[t][victim])
            /\ ResetSlot(t, victim)
  /\ NextAction(t)
  /\ UNCHANGED <<allocator, contexts, passVars, object, otherThread, it>>

(* Execute: the action Pass.                                               *)
Pass(t) ==
  /\ At(t, "Execute")
  /\ IF Victims(t) = {} \/ Thread = {t}
     THEN NextAction(t) /\ UNCHANGED <<slotVars, object, otherThread>>
     ELSE \E victim \in Victims(t), other \in Thread \ {t} :
            /\ object' = [object EXCEPT ![t] = Objects[t][victim]]
            /\ otherThread' = [otherThread EXCEPT ![t] = other]
            /\ ResetSlot(t, victim)
            /\ Goto(t, "Enter")
            /\ UNCHANGED i
  /\ UNCHANGED <<allocator, allocated, contexts, process, passVars, it>>

EnterOther(t) ==
  /\ At(t, "Enter")
  /\ PassedObjectsLock[otherThread[t]] = NoThread
  /\ PassedObjectsLock' = [PassedObjectsLock EXCEPT ![otherThread[t]] = t]
  /\ Goto(t, "Push")
  /\ UNCHANGED <<allocator, allocated, contexts, process, slotVars, PassedObjects,
                 i, object, otherThread, it>>

(* Bug: the lock is not left.                                              *)
LeaveNot(u) == UNCHANGED PassedObjectsLock

Leave(u) == PassedObjectsLock' = [PassedObjectsLock EXCEPT ![u] = NoThread]

PushOther(t) ==
  /\ At(t, "Push")
  /\ PassedObjects' = [PassedObjects EXCEPT ![otherThread[t]] = Append(@, object[t])]
  /\ Leave(otherThread[t])
  /\ object' = [object EXCEPT ![t] = nullptr]
  /\ otherThread' = [otherThread EXCEPT ![t] = NoThread]
  /\ NextAction(t)
  /\ UNCHANGED <<allocator, allocated, contexts, process, slotVars, it>>

-----------------------------------------------------------------------------
(* ExecuteAllActions, after the loop.                                      *)

(* One object of DeallocateAllObjects.                                     *)
DeallocateNext(t, objects) ==
  /\ it[t] <= Len(objects)
  /\ it' = [it EXCEPT ![t] = @ + 1]
  /\ IF objects[it[t]] = nullptr
     THEN UNCHANGED <<allocated, process>>
     ELSE DeallocateObject(t, objects[it[t]])
  /\ UNCHANGED <<passVars, pc>>

FreeObjects(t) ==
  /\ At(t, "FreeObjects")
  /\ \/ DeallocateNext(t, Objects[t])
     \/ /\ it[t] > Len(Objects[t])
        /\ Goto(t, "EnterPassed")
        /\ UNCHANGED <<allocated, process, passVars, it>>
  /\ UNCHANGED <<allocator, contexts, slotVars, i, object, otherThread>>

EnterPassed(t) ==
  /\ At(t, "EnterPassed")
  /\ PassedObjectsLock[t] = NoThread
  /\ PassedObjectsLock' = [PassedObjectsLock EXCEPT ![t] = t]
  /\ it' = [it EXCEPT ![t] = 1]
  /\ Goto(t, "FreePassed")
  /\ UNCHANGED <<allocator, allocated, contexts, process, slotVars, PassedObjects,
                 i, object, otherThread>>

FreePassed(t) ==
  /\ At(t, "FreePassed")
  /\ \/ DeallocateNext(t, PassedObjects[t])
     \/ /\ it[t] > Len(PassedObjects[t])
        /\ Leave(t)
        /\ Goto(t, "done")
        /\ UNCHANGED <<allocated, process, PassedObjects, it>>
  /\ UNCHANGED <<allocator, contexts, slotVars, i, object, otherThread>>

-----------------------------------------------------------------------------
(* main waits for all threads, and the program ends.                       *)
Return ==
  /\ process = "running"
  /\ \A t \in Thread : pc[t] = "done"
  /\ process' = "exited"
  /\ UNCHANGED <<allocator, allocated, contexts, slotVars, passVars,
                 i, pc, object, otherThread, it>>

(* What a RandomProvider answers: it goes round its numbers, which fix no  *)
(* order of the actions.                                                   *)
GetNextAction == {"Allocate", "Deallocate", "Pass"}

Execute(t) ==
  \E action \in GetNextAction :
    \/ action = "Allocate" /\ Allocate(t)
    \/ action = "Deallocate" /\ Deallocate(t)
    \/ action = "Pass" /\ Pass(t)

Step(t) ==
  \/ Execute(t)
  \/ PopPassed(t) \/ DeallocatePassed(t) \/ DeallocateOwn(t)
  \/ EnterOther(t) \/ PushOther(t)
  \/ FreeObjects(t) \/ EnterPassed(t) \/ FreePassed(t)

Next == Return \/ \E t \in Thread : Step(t)

(* The threads, main's among them, are scheduled; no critical section is   *)
(* assumed to be fair.                                                     *)
Spec == Init /\ [][Next]_vars /\ WF_vars(Return) /\ \A t \in Thread : WF_vars(Step(t))

-----------------------------------------------------------------------------
(* Properties.                                                             *)

(* Where thread t has objects it has yet to deallocate or to pass on: the  *)
(* vectors keep those that were deallocated in the end.                    *)
Slots(t) ==
  {<<t, "slot", s>> : s \in
     {k \in DOMAIN Objects[t] :
        /\ Objects[t][k] # nullptr
        /\ pc[t] \notin {"EnterPassed", "FreePassed", "done"}
        /\ pc[t] = "FreeObjects" => k >= it[t]}}

Passed(t) ==
  {<<t, "passed", k>> : k \in
     {k \in DOMAIN PassedObjects[t] : pc[t] \in {"FreePassed", "done"} => k >= it[t]}}

InHand(t) == IF object[t] = nullptr THEN {} ELSE {<<t, "object", 1>>}

ObjectIn(place) ==
  CASE place[2] = "slot" -> Objects[place[1]][place[3]]
    [] place[2] = "passed" -> PassedObjects[place[1]][place[3]]
    [] OTHER -> object[place[1]]

(***************************************************************************)
(* Each object that is allocated is in one place, and each place has an    *)
(* object that is allocated: none is deallocated twice or looked at after  *)
(* it was ("Data corruption detected!" means that the allocator is wrong,  *)
(* not the test), and in the end only those are left that were passed to a *)
(* thread when it had already gone through its vector.  A thread that saw  *)
(* passed objects without the lock finds one when it has the lock.         *)
(***************************************************************************)
ObjectsOwned ==
  process # "crashed" =>
    LET places == UNION {Slots(t) \cup Passed(t) \cup InHand(t) : t \in Thread} IN
      /\ \A place \in places : ObjectIn(place) \in allocated
      /\ \A location \in allocated : \E place \in places : ObjectIn(place) = location
      /\ \A p, q \in places : ObjectIn(p) = ObjectIn(q) => p = q
      /\ \A t \in Thread :
           pc[t] = "Pop" /\ PassedObjectsLock[t] = NoThread => PassedObjects[t] # <<>>

(***************************************************************************)
(* FreeSlots lists the slots without an object, each once, so that an      *)
(* object is never inserted over another; and the count of the slots that  *)
(* became free covers them.                                                *)
(***************************************************************************)
SlotsFree ==
  /\ TypeOK
  /\ \A t \in Thread :
       /\ ToSet(FreeSlots[t]) = {s \in DOMAIN Objects[t] : Objects[t][s] = nullptr}
       /\ IsInjective(FreeSlots[t])
       /\ Len(FreeSlots[t]) <= deallocateObjects[t]

(***************************************************************************)
(* The test comes to its end: no thread waits for ever for a vector.       *)
(***************************************************************************)
TestEnds == <>(process # "running")

(***************************************************************************)
(* "Handles both owner and foreign threads": Deallocate works in a thread  *)
(* that was passed an object and never allocated one.                      *)
(***************************************************************************)
ForeignThreadsHandled == process # "crashed"
=============================================================================
