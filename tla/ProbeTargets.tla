---------------------------- MODULE ProbeTargets ----------------------------
(***************************************************************************)
(* Which addresses a network probe may connect to: the network part of     *)
(* Config.Validate (validateProbeConfig, prefixHostCount, ProbePrefixes,   *)
(* ParsePrefix) in internal/config/config.go, and the checks and the       *)
(* expansion that Probe makes with the same prefixes in                    *)
(* internal/monitor/probe.go (validateLocalProbePrefixes,                  *)
(* expandProbePrefixes, containsPrefix).  The limit on the hosts of a      *)
(* network is computed in both places.                                     *)
(*                                                                         *)
(* Data.  An address is [fam, n]: family 4 or 6 and its number; a prefix   *)
(* is [addr, bits].  The widths of the two families and of a machine word  *)
(* are parameters, so that every boundary fits in a small instance.  The   *)
(* IPv4-mapped addresses are a block of IPv6 from MappedBase on.           *)
(***************************************************************************)
EXTENDS Integers, Sequences, SequencesExt

CONSTANTS
    V4Bits, V6Bits,  \* Addr.BitLen: 32 and 128
    WordBits,        \* the width of uint64
    MappedBase,      \* the number of ::ffff:0.0.0.0
    PrivateBlocks,   \* the prefixes of IsPrivate and IsLinkLocalUnicast
    MaxHostsCap      \* the largest max_hosts that Validate accepts: 65536

ASSUME WidthsOK ==
    /\ V4Bits \in Nat /\ V6Bits \in Nat /\ V4Bits < V6Bits
    /\ WordBits \in Nat \ {0}
    /\ MappedBase \in 0..(2^V6Bits - 2^V4Bits)
    /\ MaxHostsCap \in Nat \ {0}

(* 2^n for the widths in use, as ^ is defined: the provers have no rule    *)
(* for it.                                                                 *)
ASSUME PowersOfTwo ==
    2^0 = 1 /\ \A b \in 0..(V6Bits + WordBits) : 2^(b + 1) = 2 * 2^b

BitLen(a) == IF a.fam = 4 THEN V4Bits ELSE V6Bits

(* netip.Addr.Unmap *)
Is4In6(a) == a.fam = 6 /\ a.n \in MappedBase..(MappedBase + 2^V4Bits - 1)
Unmap(a) == IF Is4In6(a) THEN [fam |-> 4, n |-> a.n - MappedBase] ELSE a

(* netip.Prefix: Masked clears the host bits; Contains compares the        *)
(* families first, so a mapped address is in no IPv4 prefix.               *)
Addr == [fam : {4, 6}, n : Nat]
Prefix == {p \in [addr : Addr, bits : Nat] : p.bits <= BitLen(p.addr)}
hostBits(p) == BitLen(p.addr) - p.bits
Masked(p) == [p EXCEPT !.addr.n = (@ \div 2^hostBits(p)) * 2^hostBits(p)]
InPrefix(p, a) ==
    a.fam = p.addr.fam /\ Masked([p EXCEPT !.addr = a]) = Masked(p)

containsPrefix(prefixes, a) == \E i \in DOMAIN prefixes : InPrefix(prefixes[i], a)

(* The cap is at most the size of every private block and of the block of  *)
(* mapped addresses (the smallest have 16 host bits); the latter begins at *)
(* a multiple of its size.                                                 *)
ASSUME BlocksOK ==
    /\ PrivateBlocks \subseteq Prefix
    /\ \A block \in PrivateBlocks : MaxHostsCap <= 2^hostBits(block)
    /\ MaxHostsCap <= 2^V4Bits
    /\ MappedBase % 2^V4Bits = 0

(* IsPrivate or IsLinkLocalUnicast of an address; both unmap it. *)
IsPrivate(a) == \E block \in PrivateBlocks : InPrefix(block, Unmap(a))
-----------------------------------------------------------------------------
(* ParsePrefix of a CIDR text: [ok, addr, bits], where bits = NoBits is a  *)
(* bare address.                                                           *)
NoBits == -1
ParsePrefix(cidr) ==
    IF cidr.bits = NoBits THEN [addr |-> cidr.addr, bits |-> BitLen(cidr.addr)]
    ELSE Masked([addr |-> cidr.addr, bits |-> cidr.bits])

(* uint64(1) << hostBits: what is shifted out of the word is lost. *)
ShiftedOne(bits) == 2^bits % 2^WordBits

(* Mutant: the count without the test of the number of bits. *)
prefixHostCountUnguarded(p, limit) ==
    IF ShiftedOne(hostBits(p)) > limit THEN limit + 1 ELSE ShiftedOne(hostBits(p))

prefixHostCount(p, limit) ==
    IF hostBits(p) >= WordBits - 1 \/ ShiftedOne(hostBits(p)) > limit
    THEN limit + 1 ELSE ShiftedOne(hostBits(p))

(* The network of a configuration that has a name; names are unique. *)
NetworkNamed(c, name) ==
    c.networks[CHOOSE j \in DOMAIN c.networks : c.networks[j].name = name]

(* Validate on recognized_networks: they parse, their names are unique.    *)
ValidNetworks(c) ==
    /\ \A i \in DOMAIN c.networks : c.networks[i].cidr.ok
    /\ \A i, j \in DOMAIN c.networks :
          c.networks[i].name = c.networks[j].name /\ i # j => c.networks[i].name = ""

(* Mutant: max_hosts has no upper limit of its own. *)
ValidLimitsUncapped(s) ==
    /\ s.interval > 0 /\ s.timeout > 0
    /\ s.concurrency \in 1..1024
    /\ s.maxHosts >= 1
    /\ s.os.enabled => /\ s.os.binary # ""
                       /\ s.os.timeout \in 1..600 /\ s.os.maxHosts \in 1..s.maxHosts

(* The limits of network_probes.  The timeout of nmap is in seconds, its   *)
(* binary is the text without the blanks around it.                        *)
ValidLimits(s) ==
    /\ s.interval > 0 /\ s.timeout > 0
    /\ s.concurrency \in 1..1024
    /\ s.maxHosts \in 1..MaxHostsCap
    /\ s.os.enabled => /\ s.os.binary # ""
                       /\ s.os.timeout \in 1..600 /\ s.os.maxHosts \in 1..s.maxHosts

Port == 1..65535

(* validateProbeConfig; Validate calls it after ValidNetworks. *)
validateProbeConfig(c) ==
    LET s == c.probes
    IN  /\ \A i \in DOMAIN c.probeNetworks :
              /\ c.probeNetworks[i] # ""
              /\ \E j \in DOMAIN c.networks : c.networks[j].name = c.probeNetworks[i]
        /\ s.os.enabled => s.enabled
        /\ s.enabled =>
              /\ c.probeNetworks # << >>
              /\ ValidLimits(s)
              /\ s.tcpPorts # << >> /\ ToSet(s.tcpPorts) \subseteq Port
              /\ IsInjective(s.tcpPorts)
              /\ IsInjective(c.probeNetworks)
              /\ \A i \in DOMAIN c.probeNetworks :
                    LET p == ParsePrefix(NetworkNamed(c, c.probeNetworks[i]).cidr)
                    IN  IsPrivate(p.addr) /\ prefixHostCount(p, s.maxHosts) <= s.maxHosts

ProbePrefixes(c) ==
    [i \in DOMAIN c.probeNetworks |->
        ParsePrefix(NetworkNamed(c, c.probeNetworks[i]).cidr)]
-----------------------------------------------------------------------------
(* Mutant: a smaller local subnet vouches for a larger network. *)
validateLocalAnySize(probePrefixes, localPrefixes) ==
    \A i \in DOMAIN probePrefixes : \E local \in localPrefixes :
        InPrefix(Masked(local), Masked(probePrefixes[i]).addr)

(* Mutant: the networks are compared in their unmapped form. *)
validateLocalUnmapped(probePrefixes, localPrefixes) ==
    \A i \in DOMAIN probePrefixes : \E local \in localPrefixes :
        InPrefix(Masked(local), Unmap(Masked(probePrefixes[i]).addr))

(* Every network to probe is part of a subnet of a local interface. *)
validateLocalProbePrefixes(probePrefixes, localPrefixes) ==
    \A i \in DOMAIN probePrefixes : \E local \in localPrefixes :
        /\ BitLen(local.addr) = BitLen(probePrefixes[i].addr)
        /\ local.bits <= probePrefixes[i].bits
        /\ InPrefix(Masked(local), Masked(probePrefixes[i]).addr)

(* Mutant: a network of two addresses loses both. *)
EndsOfPair(p) == IF p.addr.fam = 4 /\ hostBits(p) > 0 THEN 1 ELSE 0

(* How many addresses are left out at each end of a network: an IPv4       *)
(* network of more than two addresses has no host at either end.           *)
Ends(p) == IF p.addr.fam = 4 /\ ShiftedOne(hostBits(p)) > 2 THEN 1 ELSE 0

(* The addresses of one prefix that are scanned, in order. *)
Block(p) ==
    [i \in 1..(ShiftedOne(hostBits(p)) - 2 * Ends(p)) |->
        [Masked(p).addr EXCEPT !.n = @ + i - 1 + Ends(p)]]

(* The body of the loop of expandProbePrefixes: an address that has been   *)
(* seen is not added again.                                                *)
withAddress(seen, a) == IF a \in ToSet(seen) THEN seen ELSE Append(seen, a)
withPrefix(seen, p) == FoldLeft(withAddress, seen, Block(p))

(* expandProbePrefixes: the targets, each once, or an error when a prefix  *)
(* is too large.                                                           *)
expandProbePrefixes(prefixes, maxHosts) ==
    IF \E i \in DOMAIN prefixes :
          \/ hostBits(prefixes[i]) >= WordBits - 1
          \/ ShiftedOne(hostBits(prefixes[i])) > maxHosts
    THEN [ok |-> FALSE, targets |-> << >>]
    ELSE [ok |-> TRUE, targets |-> FoldLeft(withPrefix, << >>, prefixes)]
=============================================================================
