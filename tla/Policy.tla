------------------------------- MODULE Policy -------------------------------
(***************************************************************************)
(* The admission policy of Augur: which SSH connections the configuration  *)
(* recognises and which ones a scan is to terminate.  These are the pure   *)
(* functions of internal/config/config.go (MatchNetwork, MatchDevice,      *)
(* deviceMatchesNetwork, containsFingerprint) and the tests that Scan in   *)
(* internal/monitor/monitor.go makes before it calls the enforcer.         *)
(*                                                                         *)
(* Data.  An address is a record [ip, mapped]: "mapped" says that an IPv4  *)
(* address is written as an IPv4-mapped IPv6 address.  A parsed CIDR is    *)
(* the set of the addresses it contains; netip.Prefix.Contains never       *)
(* matches a mapped address with an IPv4 prefix, so the two forms are      *)
(* different members.  An entry of observation_policy is [addr, padded]:   *)
(* "padded" says that the JSON string has blanks around the address.       *)
(* A configuration is a record [mode, enforce, ports, networks, devices,   *)
(* allow, terminate] of sets; the order of a Go slice only decides which   *)
(* of several matches is logged.                                           *)
(***************************************************************************)
EXTENDS Naturals

(* The user of a device that matches any user: the empty string. *)
AnyUser == ""

(* Config.Validate, the part about the admission policy: a configuration   *)
(* that Load returns satisfies it.  Duplicate addresses are found after    *)
(* trimming and unmapping, over both lists; the name "" names no network.  *)
Validate(c) ==
    /\ c.mode \in {"observe", "enforce"}
    /\ c.ports # {} /\ c.ports \subseteq 1..65535
    /\ c.devices # {}
    /\ c.allow \cap c.terminate = {}
    /\ \A e, f \in c.allow \cup c.terminate : e.addr.ip = f.addr.ip => e = f
    /\ \A m, n \in c.networks : m.name = n.name => m = n \/ m.name = ""
    /\ \A d \in c.devices : \A name \in d.networks :
          name # "" /\ \E n \in c.networks : n.name = name

(* netip.Addr.Unmap: the IPv4 form of an IPv4-mapped address. *)
Unmap(address) == [address EXCEPT !.mapped = FALSE]

(* Config.MatchNetwork: some recognised network contains the address. *)
MatchNetwork(c, address) == \E n \in c.networks : Unmap(address) \in n.cidr

(* Mutant: a named network admits whatever the address is. *)
deviceNamesNetwork(c, device, address) ==
    IF device.networks # {}
    THEN \E n \in c.networks : n.name \in device.networks
    ELSE c.networks = {} \/ MatchNetwork(c, address)

(* Config.deviceMatchesNetwork, called with an unmapped address. *)
deviceMatchesNetwork(c, device, address) ==
    IF device.networks # {}
    THEN \E n \in c.networks : n.name \in device.networks /\ address \in n.cidr
    ELSE c.networks = {} \/ MatchNetwork(c, address)

(* Config.MatchDevice, with containsFingerprint as membership. *)
MatchDevice(c, user, fingerprints, address) ==
    \E d \in c.devices :
        /\ d.user \in {AnyUser, user}
        /\ d.fingerprint \in fingerprints
        /\ deviceMatchesNetwork(c, d, Unmap(address))

(* Mutant: the addresses of the policy are compared as they are written. *)
ListedAsWritten(entries, address) ==
    \E e \in entries : ~e.padded /\ e.addr = address

(* The loop of observationAllows and observationTerminates.  An entry with *)
(* blanks around it passes Validate, which trims, but not the ParseAddr    *)
(* made here, which does not: the entry is skipped.                        *)
Listed(entries, address) ==
    \E e \in entries : ~e.padded /\ Unmap(e.addr) = Unmap(address)

observationAllows(c, address)     == Listed(c.allow, address)
observationTerminates(c, address) == Listed(c.terminate, address)

(* The two "continue" tests of Scan: the connection is to be terminated    *)
(* when it was found with these fingerprints.                              *)
Terminable(c, conn, fingerprints) ==
    /\ ~MatchDevice(c, conn.user, fingerprints, conn.remote.addr)
    /\ c.mode # "observe"
    /\ c.enforce
    /\ ~observationAllows(c, conn.remote.addr)
    /\ c.terminate # {} => observationTerminates(c, conn.remote.addr)
=============================================================================
