---------------------------- MODULE LargeLayout ----------------------------
(***************************************************************************)
(* Where a large group keeps its locations (src/Allocator/LargeGroup.hpp). *)
(*                                                                         *)
(* A large group has 64 KB: four subgroups of 16 KB, each of which starts  *)
(* with a header that tells the kind of the group and the number of the    *)
(* subgroup, and is read to find the group of an address again (module     *)
(* Dispatch).  So no location may touch a header.                          *)
(*                                                                         *)
(* The sizes of its locations are those SizeClasses gives large requests;  *)
(* here a request of exactly that size stands for them.                    *)
(***************************************************************************)
EXTENDS SizeClasses

CONSTANT LocationSizes   \* The sizes looked at, of 3200, 4048, 5397 and 8096.

ASSUME LocationSizesAssumption == LocationSizes \subseteq {3200, 4048, 5397, 8096}

LARGE_GROUP_SIZE == 65536
SMALL_GROUP_SIZE == 16384
HEADER_SIZE == 192
NodeSize == 16           \* The used part of the header of a subgroup.

Locations(s) == (LARGE_GROUP_SIZE - HEADER_SIZE) \div s

-----------------------------------------------------------------------------
(* SubgroupMapping.                                                        *)

(* A shift takes its count modulo the 32 bits of the mask, two for each    *)
(* location, so that 16 locations have a place of their own.               *)
Place(i) == i % 16

(* The two bits at a place are the union of those of its locations, whose  *)
(* subgroup is the index divided by the locations of a subgroup.           *)
Subgroup(s, i) ==
  LET perSubgroup == Locations(s) \div 4
      values == {j \div perSubgroup :
                  j \in {k \in 0 .. Locations(s) - 1 : Place(k) = Place(i)}}
      Bit(n) == IF \E v \in values : (v \div n) % 2 = 1 THEN n ELSE 0
  IN  Bit(1) + Bit(2)

-----------------------------------------------------------------------------
(* Bug: the headers of the subgroups before are not skipped.               *)
LocationToAddressPacked(s, i) == HEADER_SIZE + s * i

(* LocationToAddress, relative to the start of the group.                  *)
LocationToAddress(s, i) == (Subgroup(s, i) + 1) * HEADER_SIZE + s * i

AddressToLocation(s, address) == address \div s

-----------------------------------------------------------------------------
(* Properties.                                                             *)

(* No byte of the n from a is one of the m from b.                         *)
Apart(a, n, b, m) == a + n <= b \/ b + m <= a

(***************************************************************************)
(* Two locations have no byte in common, none reaches beyond the group,    *)
(* and none touches the header of a subgroup.                              *)
(***************************************************************************)
LocationsApart ==
  size \in LocationSizes =>
    \A i \in 0 .. Locations(size) - 1 :
      LET address == LocationToAddress(size, i) IN
        /\ \A j \in 0 .. i - 1 : Apart(address, size, LocationToAddress(size, j), size)
        /\ \A subgroup \in 0 .. 3 : Apart(address, size, subgroup * SMALL_GROUP_SIZE, NodeSize)
        /\ address + size <= LARGE_GROUP_SIZE
=============================================================================
