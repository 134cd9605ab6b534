----------------------------- MODULE ProbeCases -----------------------------
(***************************************************************************)
(* The data path of one network probe over every configuration of an       *)
(* instance: the file is validated at start-up, the networks are checked   *)
(* against the local interfaces and expanded when a probe begins, and the  *)
(* readings are combined at its end.  Inventory adds time and failures.    *)
(***************************************************************************)
EXTENDS Observations

CONSTANTS
    Configs,     \* configurations [networks, probeNetworks, probes] as written
    LocalSets,   \* sets of subnets that the local interfaces may have
    Entries      \* neighbours that ARP and NDP may report

Universe == [fam : {4}, n : 0..(2^V4Bits - 1)] \cup [fam : {6}, n : 0..(2^V6Bits - 1)]

(* What the parsers return: ParsePrefix for the texts of the configuration *)
(* and netip for the interfaces; parseNeighborAddress unmaps.              *)
ASSUME CasesTyped ==
    /\ \A c \in Configs :
          /\ c.networks \in Seq([name : STRING, cidr : [ok : BOOLEAN, addr : Universe,
                                                     bits : NoBits..V6Bits]])
          /\ \A i \in DOMAIN c.networks :
                c.networks[i].cidr.bits <= BitLen(c.networks[i].cidr.addr)
          /\ c.probeNetworks \in Seq(STRING)
    /\ \A local \in LocalSets : local \subseteq Prefix
    /\ \A e \in Entries : /\ e.address \in Addr /\ ~Is4In6(e.address)
                          /\ e.mac \in STRING /\ e.interface \in STRING

(* No interface has a subnet that contains the IPv4-mapped addresses. *)
ASSUME LocalsUnmapped ==
    \A locals \in LocalSets : \A p \in locals :
        \A n \in MappedBase..(MappedBase + 2^V4Bits - 1) :
            ~InPrefix(Masked(p), [fam |-> 6, n |-> n])

VARIABLES
    config,    \* the configuration file
    stage,     \* "file", "loaded", "targets", "observed", or why it ended
    locals,    \* what localInterfacePrefixes returns
    targets,   \* what expandProbePrefixes returns
    reading,   \* the neighbours read before and after the TCP scan
    open,      \* what scanTCP returns
    observed   \* what combineObservations returns

caseVars == <<config, stage, locals, targets, reading, open, observed>>

NoReading == [before |-> << >>, after |-> << >>]

CaseInit ==
    /\ config \in Configs
    /\ stage = "file"
    /\ locals \in LocalSets
    /\ targets = << >>
    /\ reading = NoReading
    /\ open = << >>
    /\ observed = << >>

(* Parse and Validate; scanNetworkInventory does nothing unless enabled. *)
Load ==
    /\ stage = "file"
    /\ stage' = IF ValidNetworks(config) /\ validateProbeConfig(config)
                   /\ config.probes.enabled
                THEN "loaded" ELSE "not probed"
    /\ UNCHANGED <<config, locals, targets, reading, open, observed>>

(* Probe up to scanTCP. *)
Expand ==
    /\ stage = "loaded"
    /\ LET prefixes == ProbePrefixes(config)
           expanded == expandProbePrefixes(prefixes, config.probes.maxHosts)
       IN  /\ stage' = CASE ~validateLocalProbePrefixes(prefixes, locals) -> "off-link"
                         [] ~expanded.ok -> "too large"
                         [] OTHER -> "targets"
           /\ targets' = IF stage' = "targets" THEN expanded.targets ELSE << >>
    /\ UNCHANGED <<config, locals, reading, open, observed>>

(* Probe from the results of scanTCP on: any of the targets is open. *)
Observe ==
    /\ stage = "targets"
    /\ \E hosts \in {{}, ToSet(targets)} \cup {{t} : t \in ToSet(targets)} :
          open' = [t \in hosts |-> {22}]
    /\ \E before, after \in {<< >>} \cup {<<e>> : e \in Entries} :
          reading' = [before |-> before, after |-> after]
    /\ observed' = combineObservations(ProbePrefixes(config), reading'.before,
                                       reading'.after, open')
    /\ stage' = "observed"
    /\ UNCHANGED <<config, locals, targets>>

Done == stage \notin {"file", "loaded", "targets"} /\ UNCHANGED caseVars

CaseNext == Load \/ Expand \/ Observe \/ Done

CaseSpec == CaseInit /\ [][CaseNext]_caseVars
-----------------------------------------------------------------------------
(* The addresses that an IPv4 network of more than two reserves. *)
Reserved(p) ==
    LET members == {a \in Universe : InPrefix(p, a)}
    IN  IF p.addr.fam = 4 /\ Cardinality(members) > 2
        THEN {a \in members : \/ \A b \in members : a.n <= b.n
                              \/ \A b \in members : b.n <= a.n}
        ELSE {}

(* The targets are exactly the addresses that the configured CIDRs contain *)
(* and that are a host in at least one of them, each once, also where      *)
(* networks overlap or nest.                                               *)
TargetsExact ==
    stage = "targets" =>
        /\ IsInjective(targets)
        /\ LET P == ProbePrefixes(config)
           IN  ToSet(targets) = {a \in Universe :
                   \E i \in DOMAIN P : InPrefix(P[i], a) /\ a \notin Reserved(P[i])}

(* The limit is computed twice, by Validate and by expandProbePrefixes: a  *)
(* configuration that loads is never refused by the expansion, up to the   *)
(* networks whose size does not fit in a machine word.                     *)
LimitsAgree == stage # "too large"

(* validateProbeConfig looks at the first address of a network only; the   *)
(* cap on max_hosts makes that enough for every address in it.             *)
OnlyPrivateProbed == \A i \in DOMAIN targets : IsPrivate(targets[i])

(* No address outside the subnets of the local interfaces is probed. *)
OnlyLocalProbed ==
    \A i \in DOMAIN targets : \E p \in locals : InPrefix(Masked(p), targets[i])

(* Every host that answered the TCP scan is in the inventory with its      *)
(* ports, although combineObservations compares the unmapped address with  *)
(* prefixes that may be IPv4-mapped: those never pass the local check.     *)
OpenHostsObserved ==
    stage = "observed" =>
        \A t \in DOMAIN open :
            t \in DOMAIN observed /\ observed[t].ports = open[t]

(* A host is observed with the newest MAC that was read for it: an entry   *)
(* that became incomplete during the scan does not erase the earlier one.  *)
NewestMac ==
    stage = "observed" =>
        \A a \in DOMAIN observed :
            LET macs(entries) == {entries[i].mac : i \in {j \in DOMAIN entries :
                                     entries[j].address = a /\ entries[j].mac # ""}}
            IN  observed[a].mac \in
                    IF macs(reading.after) # {} THEN macs(reading.after)
                    ELSE macs(reading.before) \cup
                         IF macs(reading.before) = {} THEN {""} ELSE {}
=============================================================================
