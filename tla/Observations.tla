---------------------------- MODULE Observations ----------------------------
(***************************************************************************)
(* What a network probe makes of its readings (internal/monitor/probe.go): *)
(* combineObservations joins the neighbour caches and the open ports per   *)
(* address, enrichOS adds the fingerprints that nmap reports.              *)
(*                                                                         *)
(* Data.  A neighbour is [address, mac, interface], with "" for an         *)
(* incomplete MAC or a missing interface.  The inventory is a function     *)
(* from addresses to [mac, interface, ports, os]; Probe returns it sorted  *)
(* by address.  Fingerprints are atoms.                                    *)
(***************************************************************************)
EXTENDS ProbeTargets, FiniteSets

NoOS == "no fingerprint"

(* What the last of some places says that says anything, or "". *)
LastText(says, places) ==
    LET given == {i \in places : says[i] # ""}
    IN  IF given = {} THEN "" ELSE says[Max(given)]

(* Mutant: the older reading wins. *)
ReadingsReversed(before, after) == after \o before

Readings(before, after) == before \o after

(* Mutant: neighbours of other networks are not left out. *)
WantedAnyway(prefixes, address) == TRUE

(* Only addresses of the probed networks count. *)
Wanted(prefixes, address) == containsPrefix(prefixes, Unmap(address))

(* combineObservations.  openPorts: address -> its open ports, for the     *)
(* addresses that have any, each in one form only.                         *)
combineObservations(prefixes, before, after, openPorts) ==
    LET read == Readings(before, after)
        wanted == {i \in DOMAIN read : Wanted(prefixes, read[i].address)}
        scanned == {t \in DOMAIN openPorts : Wanted(prefixes, t)}
        about(a) == {i \in wanted : Unmap(read[i].address) = a}
    IN  [a \in {Unmap(read[i].address) : i \in wanted} \cup {Unmap(t) : t \in scanned} |->
            [mac |-> LastText([i \in DOMAIN read |-> read[i].mac], about(a)),
             interface |-> LastText([i \in DOMAIN read |-> read[i].interface], about(a)),
             ports |-> UNION {openPorts[t] : t \in {u \in scanned : Unmap(u) = a}},
             os |-> NoOS]]

(* netip.Addr.Less: IPv4 before IPv6, then by number. *)
Less(a, b) == a.fam < b.fam \/ (a.fam = b.fam /\ a.n < b.n)

(* Mutant: hosts without open ports are fingerprinted too. *)
NmapTargetsAll(observations, maxHosts) ==
    {a \in DOMAIN observations :
        Cardinality({b \in DOMAIN observations : Less(b, a)}) < maxHosts}

(* The addresses that enrichOS passes to nmap: the first maxHosts of those *)
(* with an open port.                                                      *)
NmapTargets(observations, maxHosts) ==
    LET open == {a \in DOMAIN observations : observations[a].ports # {}}
    IN  {a \in open : Cardinality({b \in open : Less(b, a)}) < maxHosts}

(* The loop of enrichOS over the fingerprints of parseNmapXML, which are   *)
(* stored by unmapped address.                                             *)
enriched(observations, fingerprints) ==
    [a \in DOMAIN observations |->
        IF a \in DOMAIN fingerprints
        THEN [observations[a] EXCEPT !.os = fingerprints[a]] ELSE observations[a]]
=============================================================================
