------------------------------ MODULE MCPolicy ------------------------------
(***************************************************************************)
(* Instances of PolicyCases.  Addresses 1 and 2 are IPv4, in both forms.   *)
(* The unnamed network is written as a mapped CIDR, which contains no      *)
(* unmapped address.                                                       *)
(***************************************************************************)
EXTENDS PolicyCases, FiniteSets

A(ip, mapped) == [ip |-> ip, mapped |-> mapped]

NetworkPool == {[name |-> "home", cidr |-> {A(1, FALSE)}],
                [name |-> "lab",  cidr |-> {A(2, FALSE)}],
                [name |-> "",     cidr |-> {A(1, TRUE), A(2, TRUE)}]}
DevicePool == [user : {AnyUser, "ann"}, fingerprint : {"k1", "k2"},
               networks : {{}, {"home"}, {"home", "lab"}}]
Entries == [addr : [ip : {1, 2}, mapped : BOOLEAN], padded : BOOLEAN]

Candidates ==
    [mode : {"enforce"}, enforce : {TRUE}, ports : {{22}},
     networks : SUBSET NetworkPool,
     devices : {{d} : d \in DevicePool},
     allow : {{}} \cup {{e} : e \in Entries},
     terminate : {{}} \cup {{e} : e \in Entries}]

MCConfigs == {c \in Candidates : Validate(c)}
MCConnections == [user : {"ann", "bob"},
                  remote : [addr : [ip : {1, 2}, mapped : BOOLEAN], port : {50000}]]
MCKeySets == {{}, {"k1"}}
=============================================================================
