------------------------------ MODULE MCAugur -------------------------------
(***************************************************************************)
(* A small instance of Augur: s1 and s2 have the same pid and remote       *)
(* endpoint, one after the other; the key of s1 is recognised, that of s2  *)
(* is not.  s3 is another session of the device of s1.                     *)
(***************************************************************************)
EXTENDS Augur, TLC

CONSTANTS s1, s2, s3

V4(n) == [ip |-> n, mapped |-> FALSE]
Conn(pid, user) == [pid |-> pid, user |-> user, local |-> 22,
               remote |-> [addr |-> V4(1), port |-> 50000]]

MCSessions == {s1, s2}
MCDevice == {s1, s3}
MCSessionConn == s1 :> Conn(11, "ann") @@ s2 :> Conn(11, "bob") @@ s3 :> Conn(12, "ann")
MCSessionKeys == s1 :> {"k1"} @@ s2 :> {"k2"} @@ s3 :> {"k1"}

Ann == [user |-> "ann", fingerprint |-> "k1", networks |-> {}]
MCConfigs == {[mode |-> "enforce", enforce |-> TRUE, ports |-> {22},
               networks |-> {}, devices |-> {Ann}, allow |-> {}, terminate |-> {}]}
MCWirings == {{"discoverer", "resolver", "enforcer"}}
=============================================================================
