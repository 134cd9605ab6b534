----------------------------- MODULE LsofParser -----------------------------
(***************************************************************************)
(* ParseLsofOutput and parseConnectionName of internal/monitor/lsof.go:    *)
(* the field output of lsof, one field per line, turned into connections.  *)
(* Discover calls it with the configured ports, Verify with none, which    *)
(* means any port.                                                         *)
(*                                                                         *)
(* lsof prints a line p at the beginning of a process, then c, u and L     *)
(* about it, and n and T about each of its files.  T stands for all TCP    *)
(* and TPI information: the state (ST=) and, depending on the system, the  *)
(* sizes of the queues (QR=, QS=) and more, each on a line T of its own.   *)
(* Nothing else is taken for granted about the lines: any of them may be   *)
(* missing or repeated.  The record of the parser is carried from line to  *)
(* line; the fields of one process must not reach the next one.            *)
(***************************************************************************)
EXTENDS Naturals, Sequences, FiniteSetsExt

CONSTANTS
    Outputs,     \* what lsof may print: sequences of lines [field, value]
    PortFilters  \* the values of the argument ports: sets, {} for any port

(* No text.  lsof prints no field without text: a line shorter than two    *)
(* characters is skipped.                                                  *)
Absent == ""

(* A pid is reduced to whether strconv.Atoi accepts it, a name to whether  *)
(* parseConnectionName does and to its endpoints.                          *)
Pids == [ok : BOOLEAN, number : Nat \ {0}]
Endpoints == [ok : BOOLEAN, local : Nat, remote : STRING]

(* "skipped" is a line the parser ignores: too short, or of a field that   *)
(* it does not know, such as f, which lsof prints for every file.          *)
(* "overlong" is one that does not fit into the buffer of bufio.Scanner.   *)
IsLine(line) ==
    CASE line.field = "p" -> line.value \in Pids
      [] line.field = "n" -> line.value \in Endpoints
      [] line.field \in {"c", "u", "L", "T"} -> line.value \in STRING /\ line.value # Absent
      [] OTHER -> line.field \in {"skipped", "overlong"}

ASSUME OutputsTyped ==
    \A text \in Outputs :
        /\ Len(text) \in Nat /\ DOMAIN text = 1..Len(text)
        /\ \A i \in DOMAIN text : IsLine(text[i])
        /\ 1 \in DOMAIN text => text[1].field = "p"

VARIABLES
    output,      \* the lines that lsof has printed
    ports,       \* the argument ports
    next,        \* the place of the line that scanner.Scan reads next
    record,      \* the variable record, its names as a set
    connections, \* the connections found; their order is of no consequence
    outcome      \* "none", "ok" or "error"

vars == <<output, ports, next, record, connections, outcome>>
-----------------------------------------------------------------------------
EmptyRecord == [pid |-> 0, command |-> Absent, user |-> Absent, names |-> {},
                established |-> FALSE, hasState |-> FALSE]

Init ==
    /\ output \in Outputs
    /\ ports \in PortFilters
    /\ next = 1
    /\ record = EmptyRecord
    /\ connections = {}
    /\ outcome = "none"

isSSHDaemonCommand(command) == command \in {"sshd", "sshd-session"}

(* The text of a line T that has "ESTABLISHED" in it. *)
IsEstablished(value) == value = "ST=ESTABLISHED"

OnPort(name) == ports = {} \/ name.local \in ports

Listing(pid, command, user, names) ==
    {[pid |-> pid, command |-> command, user |-> user, local |-> name.local,
      remote |-> name.remote] : name \in {n \in names : OnPort(n)}}

(* parseConnectionName fails for one of these, whatever their ports are. *)
Unparseable(names) == \E name \in names : ~name.ok

(* The record is that of an sshd process whose last line T says that it is *)
(* established: flush reports no other one.                                *)
Reported ==
    /\ record.pid # 0
    /\ isSSHDaemonCommand(record.command)
    /\ record.hasState /\ record.established

Found == Listing(record.pid, record.command, record.user, record.names)

(* Mutant: the record of a process that is not reported is kept. *)
FlushKeepingRecord(pid) ==
    /\ record' = [(IF Reported THEN EmptyRecord ELSE record) EXCEPT !.pid = pid]
    /\ connections' = IF Reported THEN connections \cup Found ELSE connections

(* flush without an error, and the pid of the next record, 0 at the end.   *)
(* The record is empty unless it has a pid.                                *)
Flush(pid) ==
    /\ record' = [(IF record.pid = 0 THEN record ELSE EmptyRecord) EXCEPT !.pid = pid]
    /\ connections' = IF Reported THEN connections \cup Found ELSE connections

(* Mutant: names are parsed before the command and the state are tested. *)
FlushFailsUnreported == Unparseable(record.names)

FlushFails == Reported /\ Unparseable(record.names)
-----------------------------------------------------------------------------
AtEnd == next \notin DOMAIN output
At(field) == next \in DOMAIN output /\ output[next].field = field

(* Whatever has been found is not returned with an error. *)
ReturnError ==
    /\ outcome = "none"
    /\ outcome' = "error"
    /\ connections' = {}
    /\ UNCHANGED <<output, ports, next, record>>

(* A name of the process before the next one, or of the last one. *)
FlushError == (At("p") \/ AtEnd) /\ FlushFails /\ ReturnError

PidError == At("p") /\ ~FlushFails /\ ~output[next].value.ok /\ ReturnError

(* scanner.Scan stops at a line that is too long: the last record is not   *)
(* flushed any more.                                                       *)
ScanError == At("overlong") /\ ReturnError

ScanProcess ==
    /\ outcome = "none"
    /\ At("p") /\ ~FlushFails /\ output[next].value.ok
    /\ Flush(output[next].value.number)
    /\ next' = next + 1
    /\ UNCHANGED <<output, ports, outcome>>

(* The switch over the other fields. *)
ScanField ==
    /\ outcome = "none"
    /\ ~AtEnd /\ ~At("p") /\ ~At("overlong")
    /\ LET value == output[next].value
       IN  record' = CASE At("c") -> [record EXCEPT !.command = value]
                       [] At("u") -> [record EXCEPT !.user = IF @ = Absent THEN value ELSE @]
                       [] At("L") -> [record EXCEPT !.user = value]
                       [] At("n") -> [record EXCEPT !.names = @ \cup {value}]
                       [] At("T") -> [record EXCEPT !.hasState = TRUE,
                                                    !.established = IsEstablished(value)]
                       [] OTHER -> record
    /\ next' = next + 1
    /\ UNCHANGED <<output, ports, connections, outcome>>

EndOfOutput ==
    /\ outcome = "none"
    /\ AtEnd /\ ~FlushFails
    /\ Flush(0)
    /\ outcome' = "ok"
    /\ UNCHANGED <<output, ports, next>>

Returned == outcome # "none" /\ UNCHANGED vars

Next ==
    \/ FlushError \/ PidError \/ ScanError
    \/ ScanProcess \/ ScanField \/ EndOfOutput
    \/ Returned

Spec == Init /\ [][Next]_vars
-----------------------------------------------------------------------------
(* The output as a whole: where the processes begin, the lines of the      *)
(* process that begins at a place, and those of one field among them.      *)
Starts == {i \in DOMAIN output : output[i].field = "p"}
Own(i) == {j \in i..Len(output) : Starts \cap (i + 1)..j = {}}
Lines(i, field) == {j \in Own(i) : output[j].field = field}

FirstOf(places) == IF places = {} THEN Absent ELSE output[Min(places)].value
LastOf(places) == IF places = {} THEN Absent ELSE output[Max(places)].value
Values(places) == {output[j].value : j \in places}

Command(i) == LastOf(Lines(i, "c"))

(* The login name if lsof knows it, the user id otherwise. *)
User(i) == IF Lines(i, "L") # {} THEN LastOf(Lines(i, "L")) ELSE FirstOf(Lines(i, "u"))

(* The parser takes an sshd process for established if the last of its     *)
(* lines T says so.                                                        *)
Established(i) == isSSHDaemonCommand(Command(i)) /\ IsEstablished(LastOf(Lines(i, "T")))

ConnectionsOf(i) ==
    IF Established(i)
    THEN Listing(output[i].value.number, Command(i), User(i), Values(Lines(i, "n")))
    ELSE {}

(* The result is the connections of the sshd processes that end with the   *)
(* state ESTABLISHED, those on the given ports and nothing else, each with *)
(* the pid and the user of its own process, although the lines of all      *)
(* processes go through one record: the enforcer signals that pid, the     *)
(* policy judges that user.                                                *)
ListedExactly == outcome = "ok" => connections = UNION {ConnectionsOf(i) : i \in Starts}

(* Parsing fails exactly when a line is too long, a pid is not a number,   *)
(* or such an sshd process has an unparseable name, on a monitored port or *)
(* not.  Any of these hides every session of the poll; an unparseable name *)
(* of another program hides none.                                          *)
FailsExactly ==
    outcome # "none" =>
        (outcome = "error" <=>
            \/ \E i \in DOMAIN output : output[i].field = "overlong"
            \/ \E i \in Starts : \/ ~output[i].value.ok
                                 \/ Established(i) /\ Unparseable(Values(Lines(i, "n"))))

(* README.md: "Augur monitors established `sshd` connections on configured *)
(* ports": a file of an sshd process, on a given port, with the state      *)
(* ESTABLISHED on one of the lines after its name, is in the result.       *)
EstablishedListed ==
    outcome = "ok" =>
        \A i \in Starts : \A j \in Lines(i, "n") :
            LET name == output[j].value
                states == {k \in Lines(i, "T") : k > j /\ Lines(i, "n") \cap (j + 1)..k = {}}
            IN  /\ isSSHDaemonCommand(Command(i))
                /\ name.ok /\ OnPort(name)
                /\ \E k \in states : IsEstablished(output[k].value)
                => \E c \in connections :
                      /\ c.pid = output[i].value.number
                      /\ c.local = name.local /\ c.remote = name.remote
=============================================================================
