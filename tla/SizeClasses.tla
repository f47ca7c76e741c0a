---------------------------- MODULE SizeClasses ----------------------------
(***************************************************************************)
(* Which locations serve a size (Allocator::Allocate, GetAllocationInfo-   *)
(* Small, GetAllocationInfoLarge, the head of AllocateHuge, and the tables *)
(* of Constants).                                                          *)
(*                                                                         *)
(* Allocate takes the location from the bin and with the size that these   *)
(* functions name; nothing later compares the size of the location with    *)
(* the request.  The bin fixes the size of its locations when it gets a    *)
(* group, so two requests for one bin must name one size.                  *)
(*                                                                         *)
(* The functions have no state: `size' walks from any request to the one   *)
(* after it, so that a property of neighbours is a property of a step.     *)
(***************************************************************************)
EXTENDS Naturals, Sequences

CONSTANT Requests   \* The sizes looked at.

ASSUME RequestsAssumption == Requests \subseteq Nat

VARIABLE size

-----------------------------------------------------------------------------
(* Constants.                                                              *)

MAX_TINY_SIZE == 64
MAX_SEGREGATED_SIZE == 896
MAX_SMALL_SIZE == 2688
MAX_LARGE_SIZE == 8128
MAX_HUGE_SIZE == 1048512
SMALL_BINS == 31
LARGE_BINS == 4
HUGE_BINS == 255
HUGE_START == 3
HUGE_GRANULARITY == 4096
HUGE_HEADER_SIZE == 64
AFTER_SEGREGATED_START_BIN == 26

AllocationInfo(s, b) == [Size |-> s, Bin |-> b]

Entries(n, info) == [i \in 1 .. n |-> info]

(* One entry for each size from 0, so the first class has one more.        *)
SmallAllocTable ==
  Entries(9, AllocationInfo(8, 0)) \o Entries(4, AllocationInfo(12, 1))
    \o Entries(4, AllocationInfo(16, 2)) \o Entries(4, AllocationInfo(20, 3))
    \o Entries(4, AllocationInfo(24, 4)) \o Entries(8, AllocationInfo(32, 5))
    \o Entries(8, AllocationInfo(40, 6)) \o Entries(8, AllocationInfo(48, 7))
    \o Entries(8, AllocationInfo(56, 8)) \o Entries(8, AllocationInfo(64, 9))

Segregated(s, i) == AllocationInfo(s, AFTER_SEGREGATED_START_BIN + i)

(* One entry for each 320 bytes; the first three are not used.             *)
SmallAllocTable2 ==
  Entries(3, AllocationInfo(0, 0))
    \o << Segregated(1152, 0), Segregated(1472, 1), Segregated(1792, 2), Segregated(1792, 2),
          Segregated(2304, 3), Segregated(2688, 4), Segregated(2688, 4) >>

-----------------------------------------------------------------------------
(* Bug: a table without the entry for size 0.                              *)
TinyInfoShifted(s) == SmallAllocTable[IF s = 0 THEN 1 ELSE s]

TinyInfo(s) == SmallAllocTable[s + 1]

SearchReverse(mask) == CHOOSE i \in 0 .. 31 : 2 ^ i <= mask /\ mask < 2 ^ (i + 1)

(* 127 >> (9 - highestBit), one less than the distance between the bins.   *)
Offset(highestBit) == 127 \div 2 ^ (9 - highestBit)

(* There are four bins between two powers of two.                          *)
SegregatedInfo(s) ==
  LET highestBit == SearchReverse(s - 1)
      offset == Offset(highestBit)
      up == ((s + offset) \div (offset + 1)) * (offset + 1)   \* & ~offset
  IN  AllocationInfo(up, (s - 1) \div 2 ^ (highestBit - 2) + 4 * (highestBit - 5) + 3)

MediumInfo(s) == SmallAllocTable2[s \div 320 + 1]

GetAllocationInfoSmall(s) ==
  CASE s <= MAX_TINY_SIZE -> TinyInfo(s)
    [] s \in MAX_TINY_SIZE + 1 .. MAX_SEGREGATED_SIZE -> SegregatedInfo(s)
    [] OTHER -> MediumInfo(s)

(* Bug: a request at the limit of a class takes the next one's bin.        *)
LargeInfoStrict(s) ==
  CASE s < 3200 -> AllocationInfo(3200, 0)
    [] s \in 3200 .. 4047 -> AllocationInfo(4048, 1)
    [] s \in 4048 .. 5397 -> AllocationInfo(5397, 3)
    [] OTHER -> AllocationInfo(8096, 3)

GetAllocationInfoLarge(s) ==
  CASE s <= 3200 -> AllocationInfo(3200, 0)
    [] s \in 3201 .. 4048 -> AllocationInfo(4048, 1)
    [] s \in 4049 .. 5397 -> AllocationInfo(5397, 2)
    [] OTHER -> AllocationInfo(8096, 3)

(* AllocateHuge: the pages of the location with its header in front, which *)
(* is the bin as well.                                                     *)
HugePages(s) == (s + HUGE_HEADER_SIZE + HUGE_GRANULARITY - 1) \div HUGE_GRANULARITY

GetAllocationInfoHuge(s) ==
  AllocationInfo(HugePages(s) * HUGE_GRANULARITY - HUGE_HEADER_SIZE, HugePages(s))

(* Allocate goes by the size to one kind of location.                      *)
Kind(s) ==
  CASE s <= MAX_SMALL_SIZE -> "small"
    [] s \in MAX_SMALL_SIZE + 1 .. MAX_LARGE_SIZE -> "large"
    [] s \in MAX_LARGE_SIZE + 1 .. MAX_HUGE_SIZE -> "huge"
    [] OTHER -> "os"

(* The system's own locations have the size asked for, and no bin.         *)
Info(s) ==
  CASE Kind(s) = "small" -> GetAllocationInfoSmall(s)
    [] Kind(s) = "large" -> GetAllocationInfoLarge(s)
    [] Kind(s) = "huge" -> GetAllocationInfoHuge(s)
    [] OTHER -> AllocationInfo(s, 0)

Bins(kind) ==
  CASE kind = "small" -> 0 .. SMALL_BINS - 1
    [] kind = "large" -> 0 .. LARGE_BINS - 1
    [] kind = "huge" -> HUGE_START .. HUGE_BINS - 1
    [] OTHER -> {0}

-----------------------------------------------------------------------------
FirstRequest == size \in Requests

NextRequest == size + 1 \in Requests /\ size' = size + 1

-----------------------------------------------------------------------------
(* Properties.                                                             *)

(***************************************************************************)
(* Allocate returns "a location large enough to hold the specified number  *)
(* of bytes", in a bin the context (for a huge location the allocator)     *)
(* has.                                                                    *)
(***************************************************************************)
Fits == Info(size).Size >= size /\ Info(size).Bin \in Bins(Kind(size))

(***************************************************************************)
(* Sizes and bins grow together with the request: two requests share a bin *)
(* exactly when they get locations of one size.                            *)
(***************************************************************************)
BinsSeparate ==
  [][Kind(size') = Kind(size) /\ Kind(size) # "os" =>
       LET now == Info(size)
           next == Info(size')
       IN  /\ next.Size >= now.Size
           /\ next.Bin >= now.Bin
           /\ next.Bin = now.Bin <=> next.Size = now.Size]_size
=============================================================================
