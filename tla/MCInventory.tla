---------------------------- MODULE MCInventory -----------------------------
(***************************************************************************)
(* A small instance of Inventory: two IPv6 networks of one target each,    *)
(* which listen and compete for the one host that nmap may fingerprint,    *)
(* and an IPv4 neighbour outside them that may be missing, so that arp may *)
(* have nothing to list.  (Hosts with an entry and no open port are in     *)
(* MCProbe.)  The address widths are those of MCProbe.                     *)
(***************************************************************************)
EXTENDS Inventory

V4(n) == [fam |-> 4, n |-> n]
V6(n) == [fam |-> 6, n |-> n]
P(a, bits) == [addr |-> a, bits |-> bits]

MCPrivateBlocks == {P(V4(8), 2), P(V6(64), 1)}
MCPrefixes == <<P(V6(66), 7), P(V6(64), 7)>>
MCListeners == {V6(66), V6(64)}
MCOutsiders == {V4(12)}
=============================================================================
