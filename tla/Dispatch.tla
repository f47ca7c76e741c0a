------------------------------ MODULE Dispatch ------------------------------
(***************************************************************************)
(* How Allocator::Deallocate tells the four kinds of locations apart       *)
(* (src/Allocator/Allocator.hpp), from nothing but the address.            *)
(*                                                                         *)
(* It rounds the address down to 16 KB.  A location that starts at most 64 *)
(* bytes further is huge, or the system's own if at most 16; otherwise the *)
(* header of a group is there, which says whether the group is large, and  *)
(* which of its subgroups this is.  Nothing but the layout of the groups   *)
(* makes the answer right.                                                 *)
(*                                                                         *)
(* Addresses are relative to the memory of the group, or of the location,  *)
(* which starts at a multiple of 16 KB (of 64 KB, if it is not a small     *)
(* group).                                                                 *)
(***************************************************************************)
EXTENDS LargeLayout

SMALL_GROUP_HEADER_SIZE == 256
OSHeaderSize == 16

-----------------------------------------------------------------------------
(* Allocate.                                                               *)

SmallLocations(s) == (SMALL_GROUP_SIZE - SMALL_GROUP_HEADER_SIZE) \div s

SmallAddresses(s) == {SMALL_GROUP_HEADER_SIZE + s * i : i \in 0 .. SmallLocations(s) - 1}

LargeAddresses(s) == {LocationToAddress(s, i) : i \in 0 .. Locations(s) - 1}

HugeToClient(address) == address + HUGE_HEADER_SIZE

(* What AllocateFromOS returns: on Windows memory starts at 64 KB.         *)
OSAddress == 0

(* Where a location for a request can be.                                  *)
Addresses(s) ==
  CASE Kind(s) = "small" -> SmallAddresses(Info(s).Size)
    [] Kind(s) = "large" -> LargeAddresses(Info(s).Size)
    [] Kind(s) = "huge" -> {HugeToClient(0)}
    [] OTHER -> {OSAddress}

(* What InitializeUnused left in the header at a multiple of 16 KB.        *)
HeaderAt(kind, aligned) ==
  IF kind = "large" THEN [Type |-> 1, Subgroup |-> aligned \div SMALL_GROUP_SIZE]
                    ELSE [Type |-> 0, Subgroup |-> 0]

-----------------------------------------------------------------------------
(* Deallocate.                                                             *)

Distance(address) == address % SMALL_GROUP_SIZE

(* Bug: the kind is tested with the size of the header of a group.         *)
IsHugeLocationWide(address) == Distance(address) <= HEADER_SIZE

IsHugeLocation(address) == Distance(address) <= HUGE_HEADER_SIZE

IsOSLocation(address) == Distance(address) <= OSHeaderSize

IsLargeLocation(header) == header.Type # 0

HugeFromClient(address) == address - HUGE_HEADER_SIZE

Found(kind, start) == [kind |-> kind, start |-> start]

(* Deallocate: the kind it takes the location for, and the start of the    *)
(* group or of the memory it belongs to.                                   *)
Destination(s, address) ==
  LET aligned == address - Distance(address)
      header == HeaderAt(Kind(s), aligned)
  IN  IF IsHugeLocation(address)
      THEN IF IsOSLocation(address) THEN Found("os", address)
                                    ELSE Found("huge", HugeFromClient(address))
      ELSE IF IsLargeLocation(header)
           THEN Found("large", aligned - header.Subgroup * SMALL_GROUP_SIZE)
           ELSE Found("small", aligned)

-----------------------------------------------------------------------------
(* Properties.                                                             *)

(***************************************************************************)
(* Deallocate takes every location for what it is and comes back to the    *)
(* group, in a large group to the index too, it was made from.             *)
(***************************************************************************)
AddressKnown ==
  LET s == Info(size).Size IN
    (Kind(size) = "large" => s \in LocationSizes) =>
      /\ \A address \in Addresses(size) : Destination(size, address) = Found(Kind(size), 0)
      /\ Kind(size) = "large" =>
           \A i \in 0 .. Locations(s) - 1 : AddressToLocation(s, LocationToAddress(s, i)) = i
=============================================================================
