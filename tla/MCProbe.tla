------------------------------ MODULE MCProbe -------------------------------
(***************************************************************************)
(* An instance of ProbeCases: IPv4 of 4 bits, of which 8..11 is private;   *)
(* IPv6 of 7 bits, of which the upper half is private and 16..31 are the   *)
(* mapped addresses; words of 6 bits, so that a large IPv6 network does    *)
(* not fit; a cap of 4 hosts, the size of the smallest private block.      *)
(***************************************************************************)
EXTENDS ProbeCases

V4(n) == [fam |-> 4, n |-> n]
V6(n) == [fam |-> 6, n |-> n]
P(a, bits) == [addr |-> a, bits |-> bits]
Cidr(a, bits) == [ok |-> TRUE, addr |-> a, bits |-> bits]

MCPrivateBlocks == {P(V4(8), 2), P(V6(64), 1)}

CidrsV4 == {Cidr(V4(n), bits) : n \in 0..15, bits \in 0..4 \cup {NoBits}}
CidrsV6 == {Cidr(V6(n), bits) : n \in {0, 16, 24, 27, 31, 64, 67, 126}, bits \in 0..7 \cup {NoBits}}
Overlapping == {Cidr(V4(8), 2), Cidr(V4(8), 3), Cidr(V4(11), NoBits), Cidr(V4(10), 4),
                Cidr(V6(24), 5), Cidr(V6(64), 5), Cidr(V6(66), 6)}

Settings(maxHosts, osMax, binary) ==
    [enabled |-> TRUE, interval |-> 30, timeout |-> 1, concurrency |-> 32,
     maxHosts |-> maxHosts, tcpPorts |-> <<22>>,
     os |-> [enabled |-> TRUE, binary |-> binary, timeout |-> 30, maxHosts |-> osMax]]

Net(name, cidr) == [name |-> name, cidr |-> cidr]

MCConfigs ==
    {[networks |-> <<Net("a", cidr)>>, probeNetworks |-> <<"a">>,
      probes |-> Settings(maxHosts, 1, "nmap")] :
        cidr \in CidrsV4 \cup CidrsV6, maxHosts \in {0, 1, 2, 4, 8}}
    \cup
    {[networks |-> <<Net("a", c), Net(b, d)>>, probeNetworks |-> <<b, "a">>,
      probes |-> Settings(maxHosts, 2, binary)] :
        b \in {"a", "b", ""}, c, d \in Overlapping, maxHosts \in {1, 2, 4},
        binary \in {"", "nmap"}}

MCLocalSets == {{P(V4(9), 2), P(V6(64), 1)}, {P(V4(8), 3)}, {P(V4(15), 1), P(V6(100), 3)}}

MCEntries == [address : {V4(9), V4(12)}, mac : {"", "m1", "m2"}, interface : {"en0"}]
=============================================================================
