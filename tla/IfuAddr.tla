------------------------------- MODULE IfuAddr -------------------------------
(***************************************************************************)
(* The addresses of the front end.  A parcel is the 16 bits that are half    *)
(* an instruction or a compressed one, and is named by its address; a fetch   *)
(* looks up a group of parcels, and a cache line has several groups.          *)
(***************************************************************************)
EXTENDS Integers

CONSTANTS
  PARCELS,       \* parcels of a fetch group: 8 in the code (16 bytes)
  LINE_GROUPS,   \* fetch groups of a cache line: 4 in the code (64 bytes)
  ADDRS,         \* parcels there are; addresses wrap, as the 31 bits of the code do
  Long           \* parcels that begin an instruction of two parcels (low bits 11)

Addr == 0..ADDRS - 1

ASSUME AddrAssumption ==
  /\ {PARCELS, LINE_GROUPS, ADDRS} \subseteq Nat \ {0}
  /\ PARCELS % 2 = 0 /\ ADDRS % (PARCELS * LINE_GROUPS) = 0
  /\ Long \subseteq Addr

Plus(a, k) == (a + k) % ADDRS
Group(a) == a \div PARCELS
Line(a) == Group(a) \div LINE_GROUPS
Offset(a) == a % PARCELS
NextGroup(a) == Plus(Group(a) * PARCELS, PARCELS)

Least(a, b) == IF a < b THEN a ELSE b
=============================================================================
