---------------------------- MODULE InputProofs -----------------------------
(***************************************************************************)
(* Proofs about what the daemon makes of its inputs: the admission policy  *)
(* of a configuration, for every configuration, connection and set of      *)
(* keys, and the parser of lsof's output, for every output and filter.     *)
(***************************************************************************)
EXTENDS PolicyCases, LsofParser, Places

-----------------------------------------------------------------------------
(* The admission policy.  Everything that it compares with an address it   *)
(* compares with the unmapped one.                                         *)

(* The configuration, the connection and the keys are those of a case. *)
CaseOK == config \in Configs /\ conn \in Connections /\ keys \in KeySets

(* Unmapping twice is unmapping once. *)
LEMMA UnmapTwice ==
    ASSUME NEW address
    PROVE  Unmap(Unmap(address)) = Unmap(address)
  BY DEF Unmap

(* The lists of the policy and the devices see an address in one form. *)
LEMMA OneForm ==
    ASSUME NEW c, NEW user, NEW fingerprints, NEW address
    PROVE  /\ observationAllows(c, Unmap(address)) <=> observationAllows(c, address)
           /\ observationTerminates(c, Unmap(address)) <=> observationTerminates(c, address)
           /\ MatchDevice(c, user, fingerprints, Unmap(address))
                <=> MatchDevice(c, user, fingerprints, address)
  BY UnmapTwice DEF observationAllows, observationTerminates, Listed, MatchDevice

(* The connection with the unmapped address differs in nothing else. *)
LEMMA UnmappedConnection ==
    ASSUME NEW c \in Connections
    PROVE  /\ Unmapped(c).user = c.user
           /\ Unmapped(c).remote.addr = Unmap(c.remote.addr)
  BY CasesTyped DEF Unmapped

(* Judging changes neither the configuration nor the connection nor the keys. *)
LEMMA Cases == CaseSpec => []CaseOK
<1>1. CaseInit => CaseOK
  BY DEF CaseInit, CaseOK
<1>2. CaseOK /\ [Judge]_caseVars => CaseOK'
  BY DEF Judge, caseVars, CaseOK
<1> QED
  BY <1>1, <1>2, PTL DEF CaseSpec

(* An IPv4 peer is judged alike in both forms of its address, whatever the *)
(* networks, the devices and the lists of the configuration are.           *)
THEOREM FormNeverMatters == CaseSpec => []FormIrrelevant
<1>1. CaseOK => FormIrrelevant
  BY UnmappedConnection, OneForm DEF CaseOK, FormIrrelevant, Terminable
<1> QED
  BY <1>1, Cases, PTL

(* A device that names networks is admitted from no address from which it  *)
(* would not be admitted without naming them.                              *)
THEOREM NamingNetworksNarrows == CaseSpec => []RestrictionNarrows
<1>1. ASSUME CaseOK, MatchDevice(config, conn.user, keys, conn.remote.addr)
      PROVE  RestrictionNarrows
  <2> DEFINE address == Unmap(conn.remote.addr)
             free(d) == [d EXCEPT !.networks = {}]
             unrestricted == [config EXCEPT !.devices = {free(d) : d \in @}]
  <2>1. PICK d \in config.devices : /\ d.user \in {AnyUser, conn.user}
                                    /\ d.fingerprint \in keys
                                    /\ deviceMatchesNetwork(config, d, address)
    BY <1>1 DEF MatchDevice
  <2>2. /\ free(d).user = d.user
        /\ free(d).fingerprint = d.fingerprint
        /\ free(d).networks = {}
    BY <1>1, <2>1, CasesTyped DEF CaseOK
  <2>3. /\ unrestricted.devices = {free(e) : e \in config.devices}
        /\ unrestricted.networks = config.networks
    BY <1>1, CasesTyped DEF CaseOK
  <2>4. free(d) \in unrestricted.devices
    BY <2>3
  <2> HIDE DEF free
  <2>5. config.networks = {} \/ MatchNetwork(config, address)
    BY <2>1, UnmapTwice DEF deviceMatchesNetwork, MatchNetwork
  <2>6. deviceMatchesNetwork(unrestricted, free(d), address)
    BY <2>2, <2>3, <2>5 DEF deviceMatchesNetwork, MatchNetwork
  <2>7. MatchDevice(unrestricted, conn.user, keys, conn.remote.addr)
    BY <2>1, <2>2, <2>4, <2>6 DEF MatchDevice
  <2> QED
    BY <2>7 DEF RestrictionNarrows, free
<1>2. CaseOK => RestrictionNarrows
  BY <1>1 DEF RestrictionNarrows
<1> QED
  BY <1>2, Cases, PTL
-----------------------------------------------------------------------------
(* The lsof parser.  The record is that of the process whose lines are     *)
(* being read, as far as they have been read.                              *)

(* What is assumed of the lines of an output. *)
LEMMA OutputTyped ==
    ASSUME output \in Outputs
    PROVE  /\ Len(output) \in Nat /\ DOMAIN output = 1..Len(output)
           /\ \A i \in DOMAIN output : IsLine(output[i])
           /\ 1 \in DOMAIN output => output[1].field = "p"
           /\ Starts \subseteq 1..Len(output)
  BY OutputsTyped DEF Starts

(* A process that is read begins before the next line, and no other begins *)
(* in between.                                                             *)
Current(b) ==
    b \in Starts /\ b < next /\ \A k \in Starts : ~(b < k /\ k < next)

(* The lines of a field that have been read since a place. *)
Seen(b, field) == {j \in b..(next - 1) : output[j].field = field}

Made(pid, command, user, names, established, hasState) ==
    [pid |-> pid, command |-> command, user |-> user, names |-> names,
     established |-> established, hasState |-> hasState]

(* The record has what has been read of its process. *)
RecordShape ==
    record = Made(record.pid, record.command, record.user, record.names,
                  record.established, record.hasState)
RecordOf(b) ==
    /\ record.pid = output[b].value.number
    /\ record.command = LastOf(Seen(b, "c"))
    /\ record.user = IF Seen(b, "L") # {} THEN LastOf(Seen(b, "L")) ELSE FirstOf(Seen(b, "u"))
    /\ record.names = Values(Seen(b, "n"))
    /\ record.hasState = (Seen(b, "T") # {})
    /\ record.established = IsEstablished(LastOf(Seen(b, "T")))

(* The processes before a place: what was found, and that nothing failed. *)
Faulty(i) == Established(i) /\ Unparseable(Values(Lines(i, "n")))
Done(b) == UNION {ConnectionsOf(i) : i \in {s \in Starts : s < b}}
Clean(b) == \A i \in Starts : i < b => ~Faulty(i)

(* No line before the next one is an error of its own. *)
NoErrorYet ==
    /\ \A i \in DOMAIN output : i < next => output[i].field # "overlong"
    /\ \A i \in Starts : i < next => output[i].value.ok

Scanning ==
    /\ NoErrorYet
    /\ \/ next = 1 /\ record = EmptyRecord /\ connections = {}
       \/ \E b \in Starts :
             Current(b) /\ RecordOf(b) /\ connections = Done(b) /\ Clean(b)

Failure ==
    \/ \E i \in DOMAIN output : output[i].field = "overlong"
    \/ \E i \in Starts : ~output[i].value.ok \/ Faulty(i)

ParserInv ==
    /\ output \in Outputs
    /\ next \in 1..(Len(output) + 1)
    /\ RecordShape
    /\ outcome \in {"none", "ok", "error"}
    /\ outcome = "none" => Scanning
    /\ outcome = "ok" => ~Failure /\ connections = UNION {ConnectionsOf(i) : i \in Starts}
    /\ outcome = "error" => Failure

(* No text is no state.                                                    *)
LEMMA AbsentIsNoState == IsEstablished(Absent) = FALSE
  BY DEF IsEstablished, Absent

(* Between two processes, and at the end, all lines of the process before  *)
(* have been read.                                                         *)
LEMMA AllRead ==
    ASSUME ParserInv, NEW b \in Starts, Current(b), At("p") \/ AtEnd, NEW field
    PROVE  Lines(b, field) = Seen(b, field)
<1>1. /\ Len(output) \in Nat /\ DOMAIN output = 1..Len(output) /\ b \in 1..Len(output)
      /\ Starts \subseteq 1..Len(output) /\ next \in 1..(Len(output) + 1) /\ b < next
  BY OutputTyped DEF ParserInv, Current
<1>2. next \in Starts \/ next = Len(output) + 1
  BY <1>1 DEF At, AtEnd, Starts
<1>3. ASSUME NEW j \in Own(b) PROVE j \in b..(next - 1)
  <2>1. j \in b..Len(output) /\ Starts \cap (b + 1)..j = {}
    BY <1>3 DEF Own
  <2>2. CASE next \in Starts
    <3>1. ~(next \in (b + 1)..j)
      BY <2>1, <2>2
    <3> QED
      BY <1>1, <2>1, <3>1
  <2>3. CASE next = Len(output) + 1
    BY <1>1, <2>1, <2>3
  <2> QED
    BY <1>2, <2>2, <2>3
<1>4. ASSUME NEW j \in b..(next - 1) PROVE j \in Own(b)
  <2>1. j \in b..Len(output)
    BY <1>1
  <2>2. \A k \in (b + 1)..j : b < k /\ k < next
    BY <1>1
  <2>3. \A k \in Starts : k \notin (b + 1)..j
    BY <2>2 DEF Current
  <2> QED
    BY <2>1, <2>3 DEF Own
<1>5. Own(b) = b..(next - 1)
  BY <1>3, <1>4
<1> QED
  BY <1>5 DEF Lines, Seen

(* Then flush takes the connections of this process, and fails if one of   *)
(* them is unparseable.                                                    *)
LEMMA WholeRecord ==
    ASSUME ParserInv, outcome = "none", At("p") \/ AtEnd,
           NEW b \in Starts, Current(b), RecordOf(b), NoErrorYet
    PROVE  /\ Reported <=> Established(b)
           /\ Reported => Found = ConnectionsOf(b)
           /\ ~Reported => ConnectionsOf(b) = {}
           /\ FlushFails <=> Faulty(b)
           /\ record.pid # 0
<1>1. \A field : Lines(b, field) = Seen(b, field)
  BY AllRead
<1>2. record.pid = output[b].value.number /\ record.pid # 0
  <2>1. b \in DOMAIN output /\ output[b].field = "p" /\ IsLine(output[b])
    BY OutputTyped DEF Starts, ParserInv
  <2>2. output[b].value \in Pids
    BY <2>1 DEF IsLine
  <2> QED
    BY <2>2 DEF Pids, RecordOf
<1>3. record.command = Command(b)
  BY <1>1 DEF RecordOf, Command
<1>4. record.user = User(b)
  BY <1>1 DEF RecordOf, User
<1>5. record.names = Values(Lines(b, "n"))
  BY <1>1 DEF RecordOf
<1>6. record.hasState /\ record.established <=> IsEstablished(LastOf(Lines(b, "T")))
  <2>1. Seen(b, "T") = {} => ~IsEstablished(LastOf(Seen(b, "T")))
    BY AbsentIsNoState DEF LastOf
  <2> QED
    BY <1>1, <2>1 DEF RecordOf
<1>7. Reported <=> Established(b)
  BY <1>2, <1>3, <1>6 DEF Reported, Established
<1>8. Found = Listing(output[b].value.number, Command(b), User(b), Values(Lines(b, "n")))
  BY <1>2, <1>3, <1>4, <1>5 DEF Found
<1>9. FlushFails <=> Faulty(b)
  BY <1>5, <1>7 DEF FlushFails, Faulty
<1> QED
  BY <1>2, <1>7, <1>8, <1>9 DEF ConnectionsOf

(* A record without a pid is empty: it belongs to no process.              *)
LEMMA NoRecord ==
    ASSUME record = EmptyRecord
    PROVE  ~Reported /\ ~FlushFails /\ record.pid = 0
<1>1. record.pid = 0
  BY Zenon DEF EmptyRecord
<1> QED
  BY <1>1 DEF Reported, FlushFails

(* At a place where flush is called: the processes before it are done if   *)
(* flush does not fail, and there is a faulty one if it does.              *)
Flushed ==
    IF FlushFails THEN \E i \in Starts : Faulty(i)
    ELSE /\ Clean(next)
         /\ Done(next) = IF Reported THEN connections \cup Found ELSE connections

LEMMA FlushedBefore ==
    ASSUME ParserInv, outcome = "none", At("p") \/ AtEnd
    PROVE  /\ Flushed
           /\ (IF record.pid = 0 THEN record ELSE EmptyRecord) = EmptyRecord
<1>1. Scanning /\ Starts \subseteq 1..Len(output) /\ Len(output) \in Nat
      /\ next \in 1..(Len(output) + 1)
  BY OutputTyped DEF ParserInv
<1>2. CASE next = 1 /\ record = EmptyRecord /\ connections = {}
  <2>1. {s \in Starts : s < next} = {}
    <3>1. \A s \in 1..Len(output) : ~(s < 1)
      BY <1>1
    <3> QED
      BY <1>1, <1>2, <3>1
  <2>2. Done(next) = {} /\ Clean(next)
    BY <2>1 DEF Done, Clean
  <2> QED
    BY <1>2, <2>2, NoRecord DEF Flushed
<1>3. ASSUME NEW b \in Starts, Current(b), RecordOf(b), connections = Done(b), Clean(b)
      PROVE  Flushed /\ record.pid # 0
  <2>1. /\ Reported => Found = ConnectionsOf(b)
        /\ ~Reported => ConnectionsOf(b) = {}
        /\ FlushFails <=> Faulty(b)
        /\ record.pid # 0
    BY <1>1, <1>3, WholeRecord DEF Scanning
  <2>2. \A s \in Starts : s < next <=> s < b \/ s = b
    BY <1>1, <1>3 DEF Current
  <2>3. Done(next) = Done(b) \cup ConnectionsOf(b)
    BY <2>2 DEF Done
  <2>4. ~Faulty(b) => Clean(next)
    BY <1>3, <2>2 DEF Clean
  <2> QED
    BY <1>3, <2>1, <2>3, <2>4 DEF Flushed
<1> QED
  BY <1>1, <1>2, <1>3 DEF Scanning

(* The last of some places and a later one is the later one, the first of  *)
(* them stays the first.                                                   *)
LEMMA OneMorePlace ==
    ASSUME NEW k \in Nat \ {0}, NEW T \in SUBSET (1..(k - 1))
    PROVE  /\ Max(T \cup {k}) = k
           /\ T = {} => Min(T \cup {k}) = k
           /\ T # {} => Min(T \cup {k}) = Min(T)
<1>1. T \cup {k} \in SUBSET (1..k) /\ T \cup {k} # {} /\ \A x \in T : x < k /\ x \in Nat
  OBVIOUS
<1>2. Max(T \cup {k}) \in T \cup {k} /\ k <= Max(T \cup {k})
  BY <1>1, MaxOfPlaces
<1>3. Max(T \cup {k}) = k
  <2>1. \A m \in T \cup {k} : k <= m => m = k
    BY <1>1
  <2> QED
    BY <1>2, <2>1
<1>4. ASSUME T # {} PROVE Min(T \cup {k}) = Min(T)
  <2>1. Min(T) \in T /\ \A x \in T : Min(T) <= x
    BY <1>1, <1>4, k - 1 \in Nat, MinOfPlaces
  <2>2. Min(T \cup {k}) \in T \cup {k} /\ \A x \in T \cup {k} : Min(T \cup {k}) <= x
    BY <1>1, MinOfPlaces
  <2>3. \A l, m \in T : l <= m /\ m <= l => l = m
    BY <1>1
  <2>4. Min(T) <= k /\ ~(k <= Min(T))
    <3>1. \A l \in T : l <= k /\ ~(k <= l)
      BY <1>1
    <3> QED
      BY <2>1, <3>1
  <2>5. Min(T \cup {k}) # k
    BY <2>1, <2>2, <2>4
  <2> QED
    BY <2>1, <2>2, <2>3, <2>5
<1>5. ASSUME T = {} PROVE Min(T \cup {k}) = k
  <2>1. Min(T \cup {k}) \in T \cup {k}
    BY <1>1, MinOfPlaces
  <2> QED
    BY <1>5, <2>1
<1> QED
  BY <1>3, <1>4, <1>5

(* What a step that leaves the output alone leaves alone.                  *)
LEMMA SameOutput ==
    ASSUME output' = output, ports' = ports
    PROVE  /\ Starts' = Starts /\ (Failure' <=> Failure) /\ Len(output)' = Len(output)
           /\ \A i : ConnectionsOf(i)' = ConnectionsOf(i)
           /\ \A b : Done(b)' = Done(b) /\ (Clean(b)' <=> Clean(b))
<1>1. Starts' = Starts
  BY DEF Starts
<1>2. \A i, f : Lines(i, f)' = Lines(i, f)
  BY <1>1 DEF Lines, Own
<1>3. \A S : LastOf(S)' = LastOf(S) /\ FirstOf(S)' = FirstOf(S) /\ Values(S)' = Values(S)
  BY DEF LastOf, FirstOf, Values
<1>4. \A i : Command(i)' = Command(i) /\ User(i)' = User(i) /\ (Established(i)' <=> Established(i))
  BY <1>2, <1>3 DEF Command, User, Established
<1>5. \A i : Faulty(i)' <=> Faulty(i)
  BY <1>2, <1>3, <1>4 DEF Faulty
<1>6. \A i : ConnectionsOf(i)' = ConnectionsOf(i)
  BY <1>2, <1>3, <1>4 DEF ConnectionsOf, Listing, OnPort
<1>7. \A b : Done(b)' = Done(b) /\ (Clean(b)' <=> Clean(b))
  BY <1>1, <1>5, <1>6 DEF Done, Clean
<1> QED
  BY <1>1, <1>5, <1>6, <1>7 DEF Failure

(* A line that has been read is one more of its field.                     *)
LEMMA SeenNext ==
    ASSUME ParserInv, next \in DOMAIN output, next' = next + 1, output' = output,
           NEW b \in Starts, Current(b), NEW field
    PROVE  LET now == Seen(b, field)'
           IN  IF output[next].field = field
               THEN /\ now # {}
                    /\ LastOf(now) = output[next].value
                    /\ FirstOf(now) = IF Seen(b, field) = {} THEN output[next].value
                                      ELSE FirstOf(Seen(b, field))
                    /\ Values(now) = Values(Seen(b, field)) \cup {output[next].value}
               ELSE now = Seen(b, field)
<1>1. /\ next \in Nat \ {0} /\ b \in Nat \ {0} /\ b < next /\ b \in 1..(next - 1)
  BY OutputTyped DEF ParserInv, Current
<1> DEFINE T == Seen(b, field)
           now == Seen(b, field)'
<1>2. now = IF output[next].field = field THEN T \cup {next} ELSE T
  <2>1. b..((next + 1) - 1) = b..(next - 1) \cup {next}
    BY <1>1
  <2>2. now = {j \in b..(next - 1) \cup {next} : output[j].field = field}
    BY <2>1 DEF Seen
  <2> QED
    BY <2>2 DEF Seen
<1>3. T \in SUBSET (1..(next - 1))
  BY <1>1 DEF Seen
<1> HIDE DEF T, now
<1>4. /\ Max(T \cup {next}) = next
      /\ T = {} => Min(T \cup {next}) = next
      /\ T # {} => Min(T \cup {next}) = Min(T)
  BY <1>1, <1>3, OneMorePlace
<1>5. ASSUME output[next].field = field
      PROVE  /\ now # {}
             /\ LastOf(now) = output[next].value
             /\ FirstOf(now) = IF T = {} THEN output[next].value ELSE FirstOf(T)
             /\ Values(now) = Values(T) \cup {output[next].value}
  <2>1. now = T \cup {next} /\ now # {}
    BY <1>2, <1>5
  <2>2. LastOf(now) = output[next].value
    BY <1>4, <2>1 DEF LastOf
  <2>3. FirstOf(now) = IF T = {} THEN output[next].value ELSE FirstOf(T)
    BY <1>4, <2>1 DEF FirstOf
  <2>4. Values(now) = Values(T) \cup {output[next].value}
    BY <2>1 DEF Values
  <2> QED
    BY <2>1, <2>2, <2>3, <2>4
<1> QED
  BY <1>2, <1>5 DEF T, now

(* The shape of the empty record.                                          *)
LEMMA EmptyShape ==
    /\ EmptyRecord = Made(0, Absent, Absent, {}, FALSE, FALSE)
    /\ EmptyRecord = Made(EmptyRecord.pid, EmptyRecord.command, EmptyRecord.user,
                          EmptyRecord.names, EmptyRecord.established, EmptyRecord.hasState)
  BY DEF EmptyRecord, Made

(* A daemon that begins to parse has an empty record.                      *)
LEMMA ParserInit == Init => ParserInv
<1> SUFFICES ASSUME Init PROVE ParserInv
  OBVIOUS
<1>1. output \in Outputs /\ next = 1 /\ record = EmptyRecord /\ connections = {}
      /\ outcome = "none"
  BY DEF Init
<1>2. Len(output) \in Nat /\ DOMAIN output = 1..Len(output) /\ Starts \subseteq 1..Len(output)
  BY <1>1, OutputTyped
<1>3. NoErrorYet
  BY <1>1, <1>2 DEF NoErrorYet
<1>4. RecordShape
  BY <1>1, EmptyShape DEF RecordShape
<1> QED
  BY <1>1, <1>2, <1>3, <1>4 DEF ParserInv, Scanning

(* The parser stops with an error where there is one.                      *)
LEMMA ErrorInv ==
    ASSUME ParserInv, FlushError \/ PidError \/ ScanError
    PROVE  ParserInv'
<1>1. /\ outcome = "none" /\ outcome' = "error" /\ output' = output /\ ports' = ports
      /\ next' = next /\ record' = record
  BY DEF FlushError, PidError, ScanError, ReturnError
<1>2. Failure
  <2>1. CASE FlushError
    <3>1. \E i \in Starts : Faulty(i)
      BY <1>1, <2>1, FlushedBefore DEF FlushError, Flushed
    <3> QED
      BY <3>1 DEF Failure
  <2>2. CASE PidError
    BY <2>2 DEF PidError, At, Starts, Failure
  <2>3. CASE ScanError
    BY <2>3 DEF ScanError, At, Failure
  <2> QED
    BY <2>1, <2>2, <2>3
<1>3. RecordShape'
  BY <1>1 DEF ParserInv, RecordShape
<1> QED
  BY <1>1, <1>2, <1>3, SameOutput DEF ParserInv

(* Reading a line that is no error.                                        *)
LEMMA NoErrorNext ==
    ASSUME ParserInv, NoErrorYet, next \in DOMAIN output, next' = next + 1, output' = output,
           output[next].field # "overlong", next \in Starts => output[next].value.ok
    PROVE  NoErrorYet'
<1>1. /\ DOMAIN output = 1..Len(output) /\ Starts \subseteq 1..Len(output)
      /\ Len(output) \in Nat /\ next \in 1..Len(output)
  BY OutputTyped DEF ParserInv
<1>2. \A k \in 1..Len(output) : k < next + 1 => k < next \/ k = next
  BY <1>1
<1>3. \A i \in DOMAIN output : i < next + 1 => output[i].field # "overlong"
  BY <1>1, <1>2 DEF NoErrorYet
<1>4. \A i \in Starts : i < next + 1 => output[i].value.ok
  BY <1>1, <1>2 DEF NoErrorYet
<1>5. Starts' = Starts
  BY DEF Starts
<1> QED
  BY <1>3, <1>4, <1>5 DEF NoErrorYet

(* The record that begins with a pid is that of a process of which nothing *)
(* else has been read.                                                     *)
LEMMA NewProcess ==
    ASSUME ParserInv, ScanProcess
    PROVE  ParserInv'
<1>1. /\ outcome = "none" /\ outcome' = "none" /\ output' = output /\ ports' = ports
      /\ next \in DOMAIN output /\ output[next].field = "p" /\ next' = next + 1
      /\ output[next].value.ok /\ ~FlushFails /\ At("p")
      /\ connections' = IF Reported THEN connections \cup Found ELSE connections
  BY DEF ScanProcess, At, Flush
<1>2. /\ Len(output) \in Nat /\ DOMAIN output = 1..Len(output) /\ next \in 1..Len(output)
      /\ Starts \subseteq 1..Len(output) /\ next \in Starts
  BY <1>1, OutputTyped DEF ParserInv, Starts
<1> DEFINE pid == output[next].value.number
<1>3. record' = [EmptyRecord EXCEPT !.pid = pid]
  <2>1. record' = [(IF record.pid = 0 THEN record ELSE EmptyRecord) EXCEPT !.pid = pid]
    BY DEF ScanProcess, Flush
  <2> QED
    BY <1>1, <2>1, FlushedBefore
<1>4. record' = Made(pid, Absent, Absent, {}, FALSE, FALSE)
  BY <1>3 DEF EmptyRecord, Made
<1>5. connections' = Done(next) /\ Clean(next)
  BY <1>1, FlushedBefore DEF Flushed
<1>6. PICK b \in Starts : b = next
  BY <1>2
<1>7. \A k \in Nat : k < next + 1 <=> k < next \/ k = next
  BY <1>2
<1>8. Current(b)'
  <2>1. b < next + 1 /\ \A k \in Starts : ~(b < k /\ k < next + 1)
    BY <1>2, <1>6
  <2>2. Starts' = Starts
    BY <1>1, SameOutput
  <2> QED
    BY <1>1, <1>6, <2>1, <2>2 DEF Current
<1>9. NoErrorYet'
  <2>1. NoErrorYet
    BY <1>1 DEF ParserInv, Scanning
  <2> QED
    BY <1>1, <1>2, <2>1, NoErrorNext
<1>10. RecordOf(b)'
  <2>1. /\ record'.pid = pid /\ record'.command = Absent /\ record'.user = Absent
        /\ record'.names = {} /\ record'.established = FALSE /\ record'.hasState = FALSE
    BY <1>4 DEF Made
  <2>2. \A f \in {"c", "u", "L", "n", "T"} : Seen(b, f)' = {}
    <3>1. \A j \in b..((next + 1) - 1) : j = next
      BY <1>2, <1>6
    <3> QED
      BY <1>1, <3>1 DEF Seen
  <2>3. /\ LastOf(Seen(b, "c"))' = Absent /\ FirstOf(Seen(b, "u"))' = Absent
        /\ Values(Seen(b, "n"))' = {} /\ LastOf(Seen(b, "T"))' = Absent
    BY <2>2 DEF LastOf, FirstOf, Values
  <2>4. record'.pid = output'[b].value.number
    BY <1>1, <1>6, <2>1
  <2>5. record'.user = IF Seen(b, "L")' # {} THEN LastOf(Seen(b, "L"))'
                       ELSE FirstOf(Seen(b, "u"))'
    BY <2>1, <2>2, <2>3
  <2>6. record'.hasState = (Seen(b, "T")' # {})
    BY <2>1, <2>2
  <2>7. record'.established = IsEstablished(LastOf(Seen(b, "T"))')
    BY <2>1, <2>3, AbsentIsNoState
  <2> QED
    BY <2>1, <2>3, <2>4, <2>5, <2>6, <2>7 DEF RecordOf
<1>11. RecordShape'
  BY <1>4 DEF RecordShape, Made
<1>12. Scanning'
  BY <1>1, <1>5, <1>6, <1>8, <1>9, <1>10, SameOutput DEF Scanning
<1>13. next' \in 1..(Len(output) + 1)
  BY <1>1, <1>2
<1> QED
  BY <1>1, <1>11, <1>12, <1>13, SameOutput DEF ParserInv

(* The record has no user as long as no line u or L has been read.         *)
LEMMA UserKnown ==
    ASSUME ParserInv, NEW b \in Starts, Current(b), RecordOf(b)
    PROVE  record.user = Absent <=> Seen(b, "L") = {} /\ Seen(b, "u") = {}
<1>1. /\ Len(output) \in Nat /\ DOMAIN output = 1..Len(output) /\ b \in 1..Len(output)
      /\ next \in 1..(Len(output) + 1)
  BY OutputTyped DEF ParserInv
<1>2. \A f : Seen(b, f) \in SUBSET (1..Len(output))
  BY <1>1 DEF Seen
<1>3. \A f \in {"u", "L"} : \A j \in Seen(b, f) : output[j].value # Absent
  <2>1. \A j \in DOMAIN output : IsLine(output[j])
    BY OutputTyped DEF ParserInv
  <2>2. \A f : \A j \in Seen(b, f) : j \in DOMAIN output /\ output[j].field = f
    BY <1>1, <1>2 DEF Seen
  <2>3. \A line : IsLine(line) /\ line.field \in {"u", "L"} => line.value # Absent
    BY DEF IsLine
  <2> QED
    BY <2>1, <2>2, <2>3
<1>4. Seen(b, "L") # {} => LastOf(Seen(b, "L")) # Absent
  BY <1>1, <1>2, <1>3, MaxOfPlaces DEF LastOf
<1>5. IF Seen(b, "u") = {} THEN FirstOf(Seen(b, "u")) = Absent
      ELSE FirstOf(Seen(b, "u")) # Absent
  BY <1>1, <1>2, <1>3, MinOfPlaces DEF FirstOf
<1> QED
  BY <1>4, <1>5 DEF RecordOf

(* What the lines of the other fields make of the record.                  *)
LEMMA FieldScanned ==
    ASSUME ParserInv, ScanField, NEW b \in Starts, Current(b), RecordOf(b)
    PROVE  RecordOf(b)' /\ RecordShape'
<1>1. /\ output' = output /\ next' = next + 1 /\ next \in DOMAIN output
      /\ output[next].field # "p"
  BY DEF ScanField, At, AtEnd
<1> DEFINE line == output[next]
           v == line.value
           r == record
<1>2. /\ LastOf(Seen(b, "c")') = IF line.field = "c" THEN v ELSE LastOf(Seen(b, "c"))
      /\ Seen(b, "L")' # {} <=> line.field = "L" \/ Seen(b, "L") # {}
      /\ LastOf(Seen(b, "L")') = IF line.field = "L" THEN v ELSE LastOf(Seen(b, "L"))
      /\ FirstOf(Seen(b, "u")') = IF line.field = "u" /\ Seen(b, "u") = {} THEN v
                                  ELSE FirstOf(Seen(b, "u"))
      /\ Values(Seen(b, "n")') = IF line.field = "n" THEN Values(Seen(b, "n")) \cup {v}
                                 ELSE Values(Seen(b, "n"))
      /\ Seen(b, "T")' # {} <=> line.field = "T" \/ Seen(b, "T") # {}
      /\ LastOf(Seen(b, "T")') = IF line.field = "T" THEN v ELSE LastOf(Seen(b, "T"))
  BY <1>1, SeenNext
<1>3. \A S : LastOf(S)' = LastOf(S) /\ FirstOf(S)' = FirstOf(S) /\ Values(S)' = Values(S)
  BY <1>1 DEF LastOf, FirstOf, Values
<1>4. record.user = Absent <=> Seen(b, "L") = {} /\ Seen(b, "u") = {}
  BY UserKnown
<1>5. r = Made(r.pid, r.command, r.user, r.names, r.established, r.hasState)
  BY DEF ParserInv, RecordShape
<1>6. record' = Made(r.pid,
                     IF line.field = "c" THEN v ELSE r.command,
                     IF line.field = "L" \/ (line.field = "u" /\ r.user = Absent) THEN v ELSE r.user,
                     IF line.field = "n" THEN r.names \cup {v} ELSE r.names,
                     IF line.field = "T" THEN IsEstablished(v) ELSE r.established,
                     IF line.field = "T" THEN TRUE ELSE r.hasState)
  <2>1. record' = CASE line.field = "c" -> [r EXCEPT !.command = v]
                    [] line.field = "u" -> [r EXCEPT !.user = IF @ = Absent THEN v ELSE @]
                    [] line.field = "L" -> [r EXCEPT !.user = v]
                    [] line.field = "n" -> [r EXCEPT !.names = @ \cup {v}]
                    [] line.field = "T" -> [r EXCEPT !.hasState = TRUE,
                                                     !.established = IsEstablished(v)]
                    [] OTHER -> r
    BY <1>1 DEF ScanField, At
  <2> HIDE DEF v
  <2>2. CASE line.field = "c"
    BY <1>5, <2>1, <2>2 DEF Made
  <2>3. CASE line.field = "u"
    BY <1>5, <2>1, <2>3 DEF Made
  <2>4. CASE line.field = "L"
    BY <1>5, <2>1, <2>4 DEF Made
  <2>5. CASE line.field = "n"
    BY <1>5, <2>1, <2>5 DEF Made
  <2>6. CASE line.field = "T"
    BY <1>5, <2>1, <2>6 DEF Made
  <2>7. CASE line.field \notin {"c", "u", "L", "n", "T"}
    BY <1>5, <2>1, <2>7 DEF Made
  <2> QED
    BY <2>2, <2>3, <2>4, <2>5, <2>6, <2>7
<1>7. RecordShape'
  BY <1>6 DEF RecordShape, Made
<1>8. /\ record'.pid = r.pid
      /\ record'.command = IF line.field = "c" THEN v ELSE r.command
      /\ record'.user = IF line.field = "L" \/ (line.field = "u" /\ r.user = Absent)
                        THEN v ELSE r.user
      /\ record'.names = IF line.field = "n" THEN r.names \cup {v} ELSE r.names
      /\ record'.established = IF line.field = "T" THEN IsEstablished(v) ELSE r.established
      /\ record'.hasState = IF line.field = "T" THEN TRUE ELSE r.hasState
  BY <1>6 DEF Made
<1> HIDE DEF line, v, r
<1>9. RecordOf(b)'
  BY <1>1, <1>2, <1>3, <1>4, <1>8 DEF RecordOf, r
<1> QED
  BY <1>7, <1>9

(* A field keeps the parser in its process.                                *)
LEMMA NextField ==
    ASSUME ParserInv, ScanField
    PROVE  ParserInv'
<1>1. /\ outcome = "none" /\ outcome' = "none" /\ output' = output /\ ports' = ports
      /\ next \in DOMAIN output /\ output[next].field \notin {"p", "overlong"}
      /\ next' = next + 1 /\ connections' = connections
  BY DEF ScanField, At, AtEnd
<1>2. /\ Len(output) \in Nat /\ DOMAIN output = 1..Len(output) /\ next \in 1..Len(output)
      /\ Starts \subseteq 1..Len(output) /\ next \notin Starts
      /\ 1 \in DOMAIN output => output[1].field = "p"
  BY <1>1, OutputTyped DEF ParserInv, Starts
<1>3. PICK b \in Starts : Current(b) /\ RecordOf(b) /\ connections = Done(b) /\ Clean(b)
  <2>1. next # 1
    BY <1>1, <1>2
  <2> QED
    BY <1>1, <2>1 DEF ParserInv, Scanning
<1>4. RecordOf(b)' /\ RecordShape'
  BY <1>3, FieldScanned
<1>5. Current(b)'
  <2>1. b < next + 1 /\ \A k \in Starts : ~(b < k /\ k < next + 1)
    <3>1. \A k \in 1..Len(output) : k < next + 1 => k < next \/ k = next
      BY <1>2
    <3>2. b < next => b < next + 1
      BY <1>2
    <3> QED
      BY <1>2, <1>3, <3>1, <3>2 DEF Current
  <2>2. Starts' = Starts
    BY <1>1, SameOutput
  <2> QED
    BY <1>1, <1>3, <2>1, <2>2 DEF Current
<1>6. NoErrorYet'
  <2>1. NoErrorYet
    BY <1>1 DEF ParserInv, Scanning
  <2> QED
    BY <1>1, <1>2, <2>1, NoErrorNext
<1>7. Scanning'
  BY <1>1, <1>3, <1>4, <1>5, <1>6, SameOutput DEF Scanning
<1>8. next' \in 1..(Len(output) + 1)
  BY <1>1, <1>2
<1> QED
  BY <1>1, <1>4, <1>7, <1>8, SameOutput DEF ParserInv

(* At the end all processes are done.                                      *)
LEMMA LastProcess ==
    ASSUME ParserInv, EndOfOutput
    PROVE  ParserInv'
<1>1. /\ outcome = "none" /\ outcome' = "ok" /\ output' = output /\ ports' = ports
      /\ AtEnd /\ ~FlushFails /\ next' = next
      /\ connections' = IF Reported THEN connections \cup Found ELSE connections
      /\ record' = [(IF record.pid = 0 THEN record ELSE EmptyRecord) EXCEPT !.pid = 0]
  BY DEF EndOfOutput, Flush
<1>2. /\ Len(output) \in Nat /\ DOMAIN output = 1..Len(output)
      /\ Starts \subseteq 1..Len(output) /\ next = Len(output) + 1
  BY <1>1, OutputTyped DEF ParserInv, AtEnd
<1>3. connections' = Done(next) /\ Clean(next)
  BY <1>1, FlushedBefore DEF Flushed
<1>4. \A i \in 1..Len(output) : i < next
  BY <1>2
<1>5. Done(next) = UNION {ConnectionsOf(i) : i \in Starts}
  BY <1>2, <1>4 DEF Done
<1>6. ~Failure
  <2>1. NoErrorYet
    BY <1>1 DEF ParserInv, Scanning
  <2> QED
    BY <1>2, <1>3, <1>4, <2>1 DEF Failure, NoErrorYet, Clean
<1>7. RecordShape'
  <2>1. record' = [EmptyRecord EXCEPT !.pid = 0]
    BY <1>1, FlushedBefore
  <2>2. record' = Made(0, Absent, Absent, {}, FALSE, FALSE)
    BY <2>1 DEF EmptyRecord, Made
  <2> QED
    BY <2>2 DEF RecordShape, Made
<1> QED
  BY <1>1, <1>3, <1>5, <1>6, <1>7, SameOutput DEF ParserInv

(* The invariant is inductive.                                             *)
LEMMA ParserInductive == ParserInv /\ [Next]_vars => ParserInv'
<1> SUFFICES ASSUME ParserInv, [Next]_vars PROVE ParserInv'
  OBVIOUS
<1>1. CASE UNCHANGED vars
  <2>1. /\ output' = output /\ ports' = ports /\ next' = next /\ record' = record
        /\ connections' = connections /\ outcome' = outcome
    BY <1>1 DEF vars
  <2>2. \A b : (Current(b)' <=> Current(b)) /\ (RecordOf(b)' <=> RecordOf(b))
    <3>1. \A f, b : Seen(b, f)' = Seen(b, f)
      BY <2>1 DEF Seen
    <3> QED
      BY <2>1, <3>1, SameOutput DEF Current, RecordOf, LastOf, FirstOf, Values
  <2>3. Scanning => Scanning'
    BY <2>1, <2>2, SameOutput DEF Scanning, NoErrorYet
  <2>4. RecordShape'
    BY <2>1 DEF RecordShape, ParserInv
  <2> QED
    BY <2>1, <2>3, <2>4, SameOutput DEF ParserInv
<1> QED
  BY <1>1, ErrorInv, NewProcess, NextField, LastProcess DEF Next, Returned

(* The invariant of the parser holds throughout.                           *)
LEMMA ParserInvariant == Spec => []ParserInv
  BY ParserInit, ParserInductive, PTL DEF Spec

(* For any lines that begin with a process, and any monitored ports: a     *)
(* result of the parser has the connections of the sshd processes whose    *)
(* last line T says ESTABLISHED, each with the pid and the user of its own *)
(* process, and no other.                                                  *)
THEOREM ListsExactly == Spec => []ListedExactly
<1>1. ParserInv => ListedExactly
  BY DEF ParserInv, ListedExactly
<1> QED
  BY <1>1, ParserInvariant, PTL

(* The parser fails for a line that is too long, a pid that is no number   *)
(* or an unparseable name of such a process, and for nothing else,         *)
(* wherever in the output it is.                                           *)
THEOREM FailsOnlyForSessions == Spec => []FailsExactly
<1>1. ParserInv => FailsExactly
  BY DEF ParserInv, Failure, Faulty, FailsExactly
<1> QED
  BY <1>1, ParserInvariant, PTL
=============================================================================
