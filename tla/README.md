# A verification project for ParallelAllocator

ParallelAllocator is a C++ memory allocator for multi-threaded Windows programs. This directory
holds TLA+ modules that model its components, TLC configurations that check them on small
instances, and proofs, checked by TLAPS, that hold for every instance. Source files named without
a directory are in `src/Allocator/`.

Most of what the code does is right, and the runs and theorems below say in which sense. Where the
program as written breaks its own promises, the run that shows it is listed under
[Findings](#findings), and what else was met is listed under
[Outside the checked instances](#outside-the-checked-instances).

## The system

The build is that of `Allocator.vcxproj`: `PLATFORM_WINDOWS` with `PLATFORM_32` or `PLATFORM_64`.
`STEAL`, `SORT`, `PLATFORM_NUMA`, `LOCK_FREE` and `STATISTICS` are not defined, so the memory
policy is `BasicMemory` and there is one block allocator for all threads.

```
 client threads
   |  Allocate / Deallocate
   v
 Allocator ----------- thread context (TLS) <--- ObjectPool (ObjectList)
   |   size classes: which bin, which location size
   |
   +-- Bin (per thread and size): list of groups, public list + PublicLock
   |     |
   |     +-- Group       locations up to 2688 bytes, linked free lists
   |     +-- LargeGroup  locations up to 8128 bytes, bitmaps
   |            ^
   |            |  GetGroup / ReturnFullGroup
   |       BlockAllocator: blocks of 1 MB, bitmap of free groups <--- ObjectPool
   |            ^
   |            |  AddBlock: unused memory behind a huge location
   +-- HugeLocation: above 8128 bytes, straight from the system; starts the cleaning thread
```

| Component | State | Operations | What makes it correct |
| --- | --- | --- | --- |
| Group (`Group.hpp`, `ListHead.hpp`) | owner, end of the allocated part, private list and count, public list with its length | initialise; get and return a location, by the owner without synchronisation or by another thread with a compare-and-swap | each location is in one place; the lists are chains; the count is exact; a group given back is unreferenced |
| Large group (`LargeGroup.hpp`) | private and public bitmap with a count, subgroup headers | the same | the same, and locations do not overlap and are found again from their address |
| Bin (`Allocator.hpp`) | doubly linked list of groups, the active one first; `PublicGroup` with `PublicLock`; `ReturnAllowed` | `Allocate`, `Deallocate`, `DeallocatePublic`, `ReturnUnusedGroup` | freed locations are found again; a group belongs to one bin or to the block allocator; the search order is kept |
| Block allocator (`BlockAllocator.hpp`) | two lists of blocks, a bitmap of free groups in each, a number of blocks kept | `GetGroup`, `ReturnFullGroup`, `AddBlock`, `RemoveBlock` | each group is with one thread or free; blocks are in the list their bitmap calls for; only unused blocks go back |
| Huge locations (`HugeLocation.hpp`, `Allocator.hpp`) | reference count in the header, the memory behind the location | `AllocateHuge`, `UnusedAsCache`, `UnusedAsGroups` | the pieces do not overlap; the count covers its users |
| Start of a thread (`Allocator.hpp`) | TLS index, flag, lock, slots | `Initialize`, `GetCurrentContext`, `CreateContext` | each thread has one context of its own |
| Cleaning thread (`Allocator.hpp`) | flag, lock | `EnsureCacheThreadActive`, `CreateCacheCleaningThread` | at most one is created |
| Object pool (`ObjectPool.hpp`), object lists (`ObjectList.hpp`) | list of memory blocks, each with a bitmap and a count | get, return; add and remove a node | an object has one user; the pool finds its free objects |
| Size classes (`AllocatorConstants.hpp`, `Allocator.hpp`) | constant tables | size to bin and location size | a location fits; one size in each bin |
| Spin lock, atomic operations, bit searches (`SpinLock.hpp`, `Atomic.hpp`, `Bitmap.hpp`) | a word | lock, unlock, compare-and-swap, search | steps of all of the above |
| Test program (`src/AllocatorTester/main.cpp`) | the slots of each thread, the free ones, a vector of passed objects with a lock | allocate, deallocate, pass an object to another thread | an object is freed once and not looked at afterwards; the test ends |
| Not in use (`FreeObjectList.hpp`, `BitSpinLock.hpp`, `LockFreeStack.hpp`, `NumaMemory.hpp`, `Realloc.hpp`, `WayList.hpp`, `Statistics.hpp`) | | | see [Not modelled](#not-modelled) |

### What is hard in it

* Threads free each other's locations. The owner of a group takes no lock at all; the others push
  on its public list with a compare-and-swap, and the owner takes that list whole.
* In the 32-bit build the 64-bit head of that list is copied by two reads, which can belong to
  two different lists.
* The thread whose push makes the public list of a group not empty adds the group to its bin's
  public list, after the push and under a lock. The owner can act in between, and looks at the
  list without the lock.
* The owner gives a group back when it counts no used location; another thread must not be on its
  way into it then.
* The block allocator sets the bit of a returned group before it takes its lock, and decides by
  what it saw then what to do under the lock.
* The reference count of a huge location lives in memory that groups may be carved from.
* Threads start together through double-checked locking, and the system may refuse memory, a slot
  or threads half-way.
* `Deallocate` has nothing but an address to tell four kinds of locations apart.
* The pointers of large groups share a word with the data that tells them from small ones.
* A thread may be handed objects before it ever used the allocator, and after it stopped.
* The spin lock is not fair and does not know who holds it.

`PROJECT.json` lists these hazards with their lines and the properties that watch them.

## The modules

| Module | Models | Correspondence |
| --- | --- | --- |
| `FreeList` | singly linked lists in memory | `Reach`: what is reachable from a head; `IsProperList`: a chain without repetition that ends in the marker. Defined without recursion, so that proofs can use it |
| `Lists` | `ObjectList.hpp` as its users see it | sequences without repetition; `Structures` shows that the pointers stand for them |
| `Group` | `Group.hpp` | one action for each call of the owner, which no other thread can see in pieces; three for a push and for a take-over of the public list (two reads of the head, the compare-and-swap) |
| `LocationPool` | what a group promises | sets of locations: with the owner, with clients, freed by others. `Group` implements it (`ImplementsPool`) |
| `Bin` | the bins of all threads for one size, `Allocator.hpp:640-990` | each access to the public list, its lock and the fields other threads read is an action; a group is the pool of `LocationPool`, counted |
| `BlockAllocator` | `BlockAllocator.hpp` | a critical section is one action; the atomic set of a bit, outside the lock, is another |
| `SizeClasses`, `LargeLayout` | the tables, and the arithmetic of `LargeGroup.hpp` | operators on sizes, and the variable `size`, a request that walks through those to be looked at, so that a relation of neighbouring sizes is an action property |
| `Dispatch` | `Allocate` and `Deallocate` as they choose a kind of location and find it again from the address | operators: where a location of each kind may be, and what `Deallocate` takes such an address for |
| `LargeGroup` | `LargeGroup.hpp` | as `Group`, with bitmaps |
| `ObjectList`, `NodeList` | `ObjectList.hpp`, on pointers in words that also hold data, and the sequence it stands for | one operator for each operation, which pools combine into actions; `ListNext` applies any of them whenever the rules of lists allow it |
| `ObjectPool` | `ObjectPool.hpp` | extends `ObjectList`; `GetObject` and `ReturnObject` |
| `AtomicBits`, `AtomicWord` | `SetBit64` and `ResetBit64` of `Atomic.hpp`, and the atomic operations they stand for | two reads and a compare-and-swap; `AtomicBits` implements `AtomicWord` |
| `Structures` | the three above for one run | the pool, a list used in any way, a bitmap: one of them, chosen at the start |
| `HugeLocation` | one location of `AllocateHuge` with the memory behind it, and the part of the block allocator that shares it | extends `Dispatch`: the requests it walks through are its sizes, in pages of 4 KB |
| `Threads` | | the threads of a process, for `ThreadStart` and `Tester` |
| `ThreadStart`, `CleaningThread`, `Startup` | the first calls of the threads | one action for each access to a flag, a lock or a slot; `Startup` composes the two, since a thread is in one of them at a time |
| `Tester` | the test program | an access to another thread's vector is a step of its own, with the lock it takes or does without; what a thread does to its own slots is one step with the call of the allocator |
| `ListProofs`, `GroupProofs`, `BinProofs`, `BlockAllocatorProofs`, `LargeGroupProofs`, `ThreadProofs`, `StructuresProofs`, `RequestProofs` | | proofs |
| `MC*` | | sets and symmetries for TLC |

How they fit together. `Group` shows that any interleaving of the loops amounts to steps of
`LocationPool`; `Bin` takes those steps for its groups and adds what happens between groups;
`BlockAllocator` is where the groups of `Bin` come from (`available`, `NewGroup`,
`ReturnUnusedGroup` there are `GetGroup` and `ReturnFullGroup` here); `HugeLocation` is the one
case in which a block of the block allocator is not its own. `SizeClasses` and `Dispatch` lead a
request to one of them and an address back; `Structures` is what they are built on; `Tester` is a
client of the whole, which it sees as locations and contexts. Definitions whose comment begins with
`Bug:` change one definition of the code and are used only to see that a property notices.

### Constants that tell the program from its protocol

Some components are wrong in one place and right otherwise. So that the rest can be checked, a
constant of the module tells the program as written from the protocol its comments and its other
steps rely on:

| Constant | The program | The protocol |
| --- | --- | --- |
| `Bin!ReleaseTwice` | `TRUE`: `binLock` is released by hand and by its destructor | `FALSE`: once |
| `BlockAllocator!ChecksList` | `FALSE`: a full block is given back from whatever list it is in | `TRUE`: from the full list only |
| `LargeGroup!AllOnes` | `TRUE`: `BitmapHolder::None` has every bit set | `FALSE`: no bit set |
| `LargeGroup!Wide` | `TRUE` in the 64-bit build: the count is not in the swapped word | `FALSE`: the 32-bit build |
| `HugeLocation!Placements` | `"location"`: groups start where the location does | `"unused"`: behind it |
| `ThreadStart!Foreign` | slots of other libraries; not empty in general | `{}`: none has the slot whose index the member happens to hold |

`ThreadStart!NoSlot` is a value, the index that stands for no slot (`TLS_OUT_OF_INDEXES`).

## Runs

`tlc -config <cfg> <module>`; sizes and properties are in the configuration files.

| Run | Instance | Shows |
| --- | --- | --- |
| `group` (`Group`) | 3 threads, 3 locations | Locations are conserved, both lists are proper and counted, a group given back is unreferenced, `Group` implements `LocationPool`; with fairness the owner's loop ends and some push always completes |
| `bin` (`MCBin`) | 3 threads, 3 groups, 2 locations, in the states of `Small` | The lock excludes; the public lists hold exactly the groups with public locations, once each; the owner finds what it saw without the lock; a group with locations in flight keeps its bin; bins and the block allocator do not share a group; groups with free locations come first behind the active one; a bin returns its last group only once |
| `bin_shared` (`MCBin`) | 3 threads, `ReleaseTwice` | **Violation** of `GroupsExclusive` |
| `blocks` (`MCBlockAllocator`) | 3 threads, 3 blocks of 3 groups, cache of 1, `ChecksList` | No group is lost or held twice, blocks are in the right list unless a thread is about to move them, removals are of listed blocks, at least the cache is kept |
| `blocks_race` (`MCBlockAllocator`) | 2 threads, 3 blocks of 2 groups | **Violation** of `RemovalsSound` |
| `requests` (`MCRequests`) | requests 0..896, 2689..8096 and, for each number of pages, the largest huge one; groups of 4048, 5397 and 8096 bytes; 3 threads, both placements | Locations fit, bins have one size each, large locations are apart, `Deallocate` finds every kind from its address; the memory behind a huge location is divided into pieces that are apart, its count never falls short of the users, and its block is in the list its bitmap calls for |
| `large` (`MCLargeGroup`) | 3 threads, 4 locations, 5 bits | The bitmaps, the count and the public list agree |
| `large_none` (`MCLargeGroup`) | 2 threads, 3 locations, `AllOnes` | **Violation** of `LocationsExclusive` |
| `structures` (`MCStructures`) | 3 blocks of 4 objects, 5 bits, cache of 1; a list of 3 nodes with 2 data; 3 threads, 2 bits in 2 halves | Bitmap, count and clients of the pool agree; a pool that got an object back has one to give; the pointers are the list they stand for, whatever sequence of operations, and no operation changes the data beside them; bits are set and reset atomically although the word is read in halves |
| `startup` (`Startup`) | 3 threads, 2 contexts, 2 slots or none | Contexts are not shared, nor lost if there is a slot; at most one cleaning thread; calls end, unless a null pointer ends the process |
| `tester` (`Tester`) | 2 threads of 4 actions, 2 locations, either allocator | Every allocated object is in one place of the test and every place has an allocated object; slots are free when they are listed so; the test ends |
| `tester_foreign` (`Tester`) | 2 threads of 2 actions | **Violation** of `ForeignThreadsHandled` |

Deadlock is checked except in `requests`, which ends when the memory of a huge location has gone
back to the system or was refused, and in the two runs of `Tester`, which ends with the program. In
`startup` and `structures` a process that has written through a null pointer stays as it is
(`Crashed`).

### Why the bounds are enough

* **Three threads** are an owner and two others that push on one list, reach for one lock or set
  bits of one block: the interference the code has to deal with is between any two threads
  while a third (the owner) acts. `tester` has two, a giver and a receiver, each of which is both.
* **Three locations** let a public list have a first, a middle and a last one, and be taken, handed
  out and filled again while a push holds an old head. The theorems hold for any number.
* **Two groups** are enough for a public list with a second element; **three** for a group behind
  the second one. The constraint `Small` of `MCBin` keeps both cases and cuts off their product:
  three groups are in use only in one bin and with one thread besides its owner, since the order of
  a bin's list is changed by its owner alone; two groups, in any bins and with all threads.
* **Blocks of two or three groups** have a state that is neither empty nor full, which is what the
  result of setting a bit distinguishes; a **cache of one** block makes both outcomes of its test
  possible with three blocks.
* In `large`, one **bit more** than locations stands for the bits of the word without a location, and
  `structures` has one bit more than objects for the same reason (64 bits, at most 63 objects). A
  bitmap of **one bit in each half** has copies that were never in the word.
* `requests` enumerates every size of a group location it speaks about. Huge requests are taken at
  the end of each number of pages, and at the next one up to 32 pages: within a number of pages
  nothing depends on the size.
* In `tester`, **four actions** are enough to allocate, pass, free and use a slot again; **two
  locations** let the program run out of memory.
* In `startup`, **two contexts** give two threads one each at the same time, and the third runs out of
  memory, which it may also do earlier; **two slots** are the one the allocator gets and another its
  member may name before.
* `MaxReferences` and `MaxCleaners` cap counters beyond the values a correct run reaches, so that
  a wrong one has room to show.

### Fairness

A thread that has begun a call goes on (weak fairness of its steps inside the call). Threads need
not call anything, the system may refuse memory for ever, and no lock is fair: `SpinLock` spins and
backs off. So the liveness properties claim only what follows. `LoopsProgress`: the owner's loop
ends, because a group has finitely many locations to push while the owner takes none out; and while
threads push, some push completes, the lock-free promise. `CallsEnd`: nobody waits for ever for
`initLock_` and `cacheThreadLock_`, because each is taken only until its flag is set; or the process
has ended, and its threads with it. `TestEnds`:
the threads of the test and `main`, which waits for them, are scheduled (weak fairness of each);
they have finitely many actions, so that even without fair locks each one gets to its end. No
liveness is claimed for `PublicLock` or the lock of the block allocator, under which threads come
again and again.

## Proofs

`tlapm <module>` for each of `ListProofs`, `GroupProofs`, `BinProofs`, `BlockAllocatorProofs`,
`LargeGroupProofs`, `ThreadProofs`, `StructuresProofs` and `RequestProofs`. The proofs assume
what the modules assume of their constants, and where the program is wrong in one place, that it is
not (`ASSUME` of the theorem, see the table of constants); nothing else is bounded: any sets of
threads, groups, blocks and slots, any number of locations or groups. Each module has one inductive
invariant (`Inv`, or the one named below), which was model-checked before it was proved, a lemma for
each action, and a theorem for each property the runs check.

**Lists.** `ListProofs` has what the others need: what an operation leaves in a list without
repetition, that a search of a bitmap which is not empty finds a bit, and what is reachable in a
list through memory after a push, a pop or a write elsewhere. `Reach` is the least closed set, so
these are proved by exhibiting closed sets and never by induction along the list.

**Group.** None of the invariants of run `group` is inductive alone. The lists stay proper because no
thread writes the first word of a location that is in a list, which is what `LocationsConserved`
says; and `LocationsConserved` is preserved because the lists are proper, so that a location taken
from one leaves it, and a swap that succeeds has compared the length and the head of the list that
is there, whichever lists the two halves of the copy came from. `Inv` is their conjunction with
`CallsSound`: the private list is empty for as long as its owner takes the public one, and a pushing
thread is not the owner, even after the group changed hands. `PoolCorrect` is the refinement: every
step maps to one of `LocationPool` or a stutter.

**Bin**, with the lock released once (`~ ReleaseTwice`; otherwise run `bin_shared` refutes it). The
lock is a word that does not name its holder, so `LockInv` says that the word is set whenever
somebody is inside, that there is only one, and that a thread on its way to another's lock has a bin
to go to. `Inv` adds, in this order: each group is in one bin, with the block allocator, or with
the one thread that returns it; the locations of a group add up (`LocationsCounted`: with the owner,
with clients, public, and one for each thread in the middle of a push); a push has read the bin its
group is in; the public lists are proper, a group to be added is in none and has one thread that
adds it, and a group the owner took has nobody who adds it; the owner still finds what it saw without
the lock; and a thread that looks for a new group has exhausted all of its own. The count is
what carries the argument: a group that its owner finds full has no location in flight, so nobody
is on the way to the list of its bin when it goes back.

**Block allocator**, with `ChecksList`. What each thread saw in the bitmap before it had the lock is
kept as a fact about the lists: a block in the empty list has free groups only while exactly one
thread (`MoverOfEach`) is about to move it, and that thread finds it there (`MoversSound`). `CacheCorrect`
is the action property: a step that gives a block back leaves `CacheSize` others and took none that
anybody has a group of.

**Large group**, with an empty `None` and the count in the swapped word (`~ AllOnes`, `~ Wide`). Each
location is in one place (`PlacesApart`, `PlacesCover`); the word counts its own bits, so that a swap
that compares bits and number together adds as many locations to `PrivateFree` as to the private
bitmap; and the group is listed exactly while it has public locations nobody merges.

**Start of the threads** (`ThreadProofs`). `CleaningInv`: the thread that has the lock and has read the
flag under it is the only one that may create the cleaning thread. `ContextInv`, with no foreign slots
(`Foreign = {}`): before the flag is set all slots are empty, so that the index a thread uses too
early leads to no context, whatever it is; afterwards only the one slot holds anything, and each
context outside the pool is the one of one thread. If the system refused the slot, nothing is ever
stored (`GetTLSValue`), and a thread has its context to itself for one call.

**Structures.** The pointers are those of a sequence `s` of nodes (`IsChain`), read from both ends. Each
method changes it as `NodeList` promises (`ListsCorrect`, a refinement), because a list as long as
its count is the only one its pointers lead through, and leaves the data beside the pointers alone
(`DataCorrect`). For the pool `PoolSound` says of each block that its bitmap and its count are those
of the objects taken from it, and `MoveSound` where the block is that `ReturnObject` has out of the list.
`WordAtomicCorrect` is the refinement of `AtomicWord`: a swap that succeeds has compared the whole
word, whichever parts of it the copy was read from. `Node` is finite, as memory is.

**Huge location.** `PiecesCorrect` is arithmetic, for every number of pages. The count is at least the
number of its users because each group in use, and then the return that has yet to release its
reference, stands for one; it speaks of the count for as long as its memory is mapped. Both are about
groups behind the location; with `"location"` the group at
the start wipes the count. `FreeGroupsCorrect` holds for either placement, as the list follows from
what each return saw.

**Requests** (`RequestProofs`, whose invariant says of `size` only that it is one of `Requests`). The
tables are not unrolled. A class of entries is appended to a table that ends where the class
begins (`SortedTable`, `NextClass`), which gives for each table the place of every size, and that
sizes and bins do not fall along it; an entry is then found by the arithmetic of its class, a huge
location by its pages. For large groups one argument covers every size of which a group has 16
locations or fewer: a location ends before the next one's header or the next subgroup's, and
division by the size of a subgroup and by the size of a location give its index back. So the theorems are
about any set of requests and sizes, where the run has those it walks through. What they exclude is
what the program gets wrong (see [below](#outside-the-checked-instances)): `NoLocation`, `TooSmall`
and `NoBin` for `Fits`, the first of them for `BinsSeparate` and `AddressKnown`, and the size 3200
for `LocationsApart` and `AddressKnown`.

**Test program** (`ThreadProofs`). `ObjectsOwned` is restated place by place: `Has(t, kind, k, l)`,
location `l` is in place `k` of a kind of thread `t`, so that each action adds, removes or moves one
place and one lemma for each of the three carries all actions. `TestInv` adds that the free slots are those without an object
and no more than the actions so far (`ListSound`), and what a thread has in its hands where it is
(`PlaceSound`). It needs nothing about who holds the locks. Only its owner takes anything out of a
vector, so that what it saw there without the lock is still there; the others append, beyond what the
owner has looked at; and the owner leaves the lock with its vector done. Native and parallel
allocator are one case, as a process that crashed is left out of `ObjectsOwned`.

| Theorem | Property |
| --- | --- |
| `GroupProofs`: `TypeCorrect`, `ConservationCorrect`, `ListsCorrect`, `CountCorrect`, `GiveBackCorrect`, `CallsCorrect`, `PoolCorrect` | `TypeOK`, `LocationsConserved`, `ListsProper`, `UsedCounted`, `GivenBackUnreferenced`, what the calls in progress rely on, `ImplementsPool` |
| `BinProofs`: `MutualExclusionCorrect`, `PublicListCorrect`, `PublicGroupCorrect`, `LiveGroupCorrect`, `GroupsExclusiveCorrect`, `FreeGroupsFirstCorrect`, `LastGroupCorrect` | `MutualExclusion`, `PublicListSound`, `PublicGroupKnown`, `LiveGroupOwned`, `GroupsExclusive`, `FreeGroupsFirst`, `LastGroupRemovedOnce` |
| `BlockAllocatorProofs`: `ListsCorrect`, `ConservationCorrect`, `FreeGroupsCorrect`, `RemovalsCorrect`, `CacheCorrect` | `ListsSound`, `GroupsConserved`, `FreeGroupsKnown`, `RemovalsSound`, `CacheKept` |
| `LargeGroupProofs`: `ExclusiveCorrect`, `CountCorrect`, `KnownCorrect`, `GivenBackCorrect` | `LocationsExclusive`, `FreeCounted`, `LocationsKnown`, `GivenBackUnused` |
| `ThreadProofs`: `OneContextCorrect`, `OneCleanerCorrect`, `OwnedCorrect`, `FreeCorrect` | `OneContextEach`, `OneCleaner`, `ObjectsOwned`, `SlotsFree` |
| `StructuresProofs`: `ListsCorrect`, `DataCorrect`, `PoolCorrect`, `ReturnCorrect`, `WordAtomicCorrect` | `ImplementsNodeList`, `DataKept`, `PoolAccounted`, `ReturnMakesUsable`, `WordAtomic` |
| `RequestProofs`: `FitsCorrect`, `BinsCorrect`, `LayoutCorrect`, `AddressCorrect`, `PiecesCorrect`, `UsersCorrect`, `FreeGroupsCorrect` | `Fits`, `BinsSeparate`, `LocationsApart`, `AddressKnown`, `PiecesApart`, `UsersCounted`, `FreeGroupsListed` |

**Model-checked only.** The liveness properties `LoopsProgress`, `CallsEnd` and `TestEnds`, which are out
of the prover's reach: they rest on fairness. Every other property of the passing runs is proved.

## Findings

1. `bin_shared`, `Allocator.hpp:698`. `Allocate` releases the lock of the public list by hand, and
   the destructor of `binLock` (`SpinLock.hpp:53`) releases it again, whoever has it by then. Two
   threads end up inside; an update of the list is lost, and in the end a bin pops a group it has
   already returned.
2. `blocks_race`, `BlockAllocator.hpp:404`. One thread returns the first group to a block of which
   none was free, another the last. The second finds the block full, and removes it from the full
   list and from memory while the first has not yet moved it there.
3. `large_none`, `LargeGroup.hpp:81`. The marker for the empty public bitmap has every bit set. A
   push after a merge adds its bit to it, and the next merge takes live locations for free ones.
4. `tester_foreign`, `Allocator.hpp:966`. `Deallocate` uses the context of its thread without the
   test for a null pointer that every other entry makes. A thread that is passed an object and frees
   it before it allocates one of its own, as threads of the test program may, stops the process.

## Outside the checked instances

What was met while modelling and is not part of a run; the instances above leave it out.

* **Sizes from 897 to 2688** (`Allocator.hpp:454`). The table has one entry for each 320 bytes, but
  the limits of the classes are no multiples of 320: 897..959 get a location of size 0 in bin 0, and
  1153..1279, 1473..1599, 1793..2239 and 2305..2559 a location that is too small. `Fits` of
  `SizeClasses` fails on them; the run leaves the range out, and the theorems name the first part of
  it `NoLocation` and the rest, with the next item, `TooSmall`.
* **Sizes from 8097 to 8128** (`Allocator.hpp:472`) get a location of 8096 bytes.
* **Groups of 3200-byte locations** have 20 of them, and the mask of subgroups has two bits for
  each in 32 (`LargeGroup.hpp:97`); location 5 starts on the header of a subgroup
  (`LargeGroup.hpp:137`). `LocationsApart` leaves the size out.
* **Large groups in fresh memory** have `PublicBitmap` 0, which is not `None`, so they are not full
  until their first merge (`LargeGroup.hpp:178`).
* **64-bit build**: the count of a public bitmap is outside the word that is swapped
  (`LargeGroup.hpp:294`, `:172`); this is `Wide`.
* **Groups behind a huge location** are placed at its start: `UnusedAsGroups` passes `address`
  where the unused memory is meant (`Allocator.hpp:1194`). The first group wipes the reference
  count, and the release of a group (`BlockAllocator.hpp:226`) then unmaps memory in use.
* **References are kept** when the returned group changes the list of its block
  (`BlockAllocator.hpp:214-222` returns before `Release`).
* **`hugeBins_`** has 255 elements and is indexed with up to 256 (`Allocator.hpp:1287`), for requests above
  1040320 bytes, which `requests` leaves out; `NoBin` in the theorems.
* **`~ObjectPool`** removes the first block and then deallocates the one behind it, and at last a
  null pointer (`ObjectPool.hpp:166`).
* **The order of a pool's blocks** is not the one promised at `ObjectPool.hpp:217`: the first block
  may be exhausted by `GetObject` while a later one has free objects, and a further block is
  allocated. `ReturnMakesUsable` is what remains true.
* **`HugeParent`** of a descriptor is not set by `AllocateBlock` (`BlockAllocator.hpp:142`). A
  descriptor fresh from the system has 0 there, one that came back from a huge location does not.
* **A second group of large locations** is compared with the raw word of a list pointer
  (`Allocator.hpp:979`), in which the 64-bit build keeps data; the group is then moved to the place
  it already has.
* **Objects passed late** to a thread of the test program that has gone through its vector are
  never freed (`main.cpp:315-318`); `ObjectsOwned` counts them.
* **`tlsIndex_`** is used before the flag says that it was set (`Allocator.hpp:257`); with a slot of
  another library a foreign value is taken for a context. This is `Foreign`.
* **A refused slot** sets the flag all the same (`Allocator.hpp:245-249`), and is not asked for again:
  nothing is stored under the index, so each allocation creates another context and leaves the last
  one unused for ever. `OneContextEach` says that none is lost only if there is a slot.
* **Refused memory** is not noticed everywhere. The block of a pool (`ObjectPool.hpp:89`) is
  initialized through the null pointer, so the tests for a null object (`BlockAllocator.hpp:142`) never
  see one, and a thread without a context (`Allocator.hpp:269`) gets no further; the header of a huge
  location is written likewise (`Allocator.hpp:1304`). The modules have the refusal as the end of the
  process: `GetObjectWithoutMemory`, `UseNull`, `AllocateHugeWithoutMemory`. The block of 1 MB and the
  arguments of the cleaning thread are tested for, and the call fails or goes on.
* **`CreateThread`** may fail, and the flag is set all the same; the handle is stored after the
  thread has started (`Allocator.hpp:1117-1121`).

## Not modelled

* `PrivateEnd` of a group, which only code under `SORT` and `STEAL` reads.
* In `Bin`, the two reads of `IsFull` are one step: when `PrivateUsed` is 0 no other
  thread has a location to push, so the public list cannot change between them (proved for `Group`).
* `STEAL`, `SORT`, `PLATFORM_NUMA` and `LOCK_FREE` are not defined by any project file. With them
  go the ranges of stolen locations and their lock (`Group.hpp:709-866`, `:1079-1158`,
  `BitSpinLock.hpp`), sorted groups, `NumaMemory.hpp` and `TryGetGroup`, which reads a member
  function as a number and would not compile.
* `LockFreeStack.hpp` and `FreeObjectList.hpp`: nothing instantiates them, and neither compiles as
  it stands. `WayList.hpp` is not included; `Statistics.hpp` is compiled out.
* `ReleaseContext`, `ReturnPartiallyUsedGroup`, the cache of huge locations and the cleaning of it:
  no call reaches them, or their callers are commented out. So is the body of `DeallocateHuge`.
* `Realloc` returns a null pointer and nothing includes `Realloc.hpp`.
* The destructor of the pool, which runs when the process ends.
* The arguments and priority of the cleaning thread; the back-off of `SpinLock`, which changes no
  state.
* The pattern the test program writes into its objects: `ObjectsOwned` says that looking at it is
  right. Its random numbers are an arbitrary choice of actions.
* The end of a thread: nothing gives its context or its groups back, so there is no step to model.
* A refused block of 1 MB changes nothing in the block allocator: its descriptor goes back to the pool
  (`AllocateBlock`). `Bin` has the consequence (`OutOfMemory`).
* `Bin` and `BlockAllocator` as one system: `Bin` takes its groups from a set and `BlockAllocator`
  gives them to the set `held`; the two sets are the interface.

## Plan

The components the build uses are modelled, with the exceptions above, and every safety property and
refinement the runs check is proved. What is left:

1. `Bin` and `BlockAllocator` as one system, with the interface between them (`available` and
   `held`) as a refinement, instead of two modules that share a set.
2. The four findings, where a repair would turn a run that expects a violation into one that passes:
   each repair is already an instance (`ReleaseTwice`, `ChecksList`, `AllOnes`), except the test for
   a null context in `Deallocate`.
