----------------------------- MODULE MCMonitor ------------------------------
(***************************************************************************)
(* Small instances of Monitor for TLC.  Sessions s1 and s2 have the same   *)
(* pid and remote endpoint, so s2 can only connect after s1 is gone and    *)
(* inherits its key; they differ in user and SSH key.  Session s3 has      *)
(* their pid but comes from another address; s4 runs beside the others.    *)
(***************************************************************************)
EXTENDS Monitor, TLC

CONSTANTS s1, s2, s3, s4

V4(n) == [ip |-> n, mapped |-> FALSE]
Home == [name |-> "home", cidr |-> {V4(1)}]

Conn(pid, user, ip, local) ==
    [pid |-> pid, user |-> user, local |-> local,
     remote |-> [addr |-> V4(ip), port |-> 50000]]

MCSessions == {s1, s2, s3, s4}
MCSessionConn ==
    s1 :> Conn(11, "ann", 1, 22) @@
    s2 :> Conn(11, "bob", 1, 22) @@
    s3 :> Conn(11, "bob", 2, 22) @@
    s4 :> Conn(12, "bob", 3, 22)
MCSessionKeys == s1 :> {"k1"} @@ s2 :> {"k2"} @@ s3 :> {"k2"} @@ s4 :> {"k2"}

(* One recognised device (ann's key from the home network), and an address *)
(* that observation_policy always permits.                                 *)
Ann == [user |-> "ann", fingerprint |-> "k1", networks |-> {"home"}]
Base == [mode |-> "enforce", enforce |-> TRUE, ports |-> {22},
         networks |-> {Home}, devices |-> {Ann},
         allow |-> {[addr |-> V4(2), padded |-> FALSE]}, terminate |-> {}]
MCConfigs == {Base, [Base EXCEPT !.ports = {2222}]}

AllWired == {"discoverer", "resolver", "enforcer"}
MCWirings == {AllWired, AllWired \ {"enforcer"}, AllWired \ {"discoverer"}}
=============================================================================
