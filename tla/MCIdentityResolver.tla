------------------------- MODULE MCIdentityResolver -------------------------
(***************************************************************************)
(* A small instance of IdentityResolver: s1 and s2 have the same pid and   *)
(* remote endpoint, one after the other.                                   *)
(***************************************************************************)
EXTENDS IdentityResolver, TLC

CONSTANTS s1, s2

SameConn == [pid |-> 11, remote |-> [addr |-> [ip |-> 1, mapped |-> FALSE], port |-> 50000]]

MCSessions == {s1, s2}
MCSessionConn == [s \in MCSessions |-> SameConn]
=============================================================================
