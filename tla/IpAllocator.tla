---------------------------- MODULE IpAllocator ----------------------------
(***************************************************************************)
(* IpAllocator (src/src/ip_alloc.cpp): the overlay addresses of a node,    *)
(* computed from a host index and the two configured prefixes.             *)
(*                                                                         *)
(* An IPv4 prefix is a record [addr, block] of the configured address and  *)
(* of the number 2^(32 - length) of addresses it spans; a length of 0      *)
(* makes the constructor shift by the full width of the type, which C++    *)
(* leaves undefined, and is not considered.  An IPv6 prefix is a record    *)
(* [hi, lo], the upper 96 bits and the last four bytes of its base (the    *)
(* code parses the IPv6 prefix length and never uses it again).  Textual   *)
(* addresses are modelled by the numbers they print.                       *)
(***************************************************************************)
EXTENDS Integers

Ipv4Cidrs == [addr : Nat, block : Nat \ {0}]

Ipv6Cidrs == [hi : Int, lo : Int]

Addresses == [v4 : Int, v6 : Ipv6Cidrs]

\* Mutant: the configured address is used with its host bits.
ipv4_unmasked(c) == c.addr

\* ipv4_base_: the configured address with its host bits masked off.
ipv4_base(c) == c.addr - (c.addr % c.block)

\* ipv4_hosts_: the largest index that address_for accepts.
ipv4_hosts(c) == c.block - 1

\* The complement of the condition on which address_for throws.
index_in_range(c, index) == index # 0 /\ index <= ipv4_hosts(c)

\* The IPv4 address adds the index to the base, which cannot overflow; the
\* IPv6 address carries the index in its last four bytes.
address_for(c4, c6, index) ==
    [v4 |-> ipv4_base(c4) + index, v6 |-> [c6 EXCEPT !.lo = index]]
=============================================================================
