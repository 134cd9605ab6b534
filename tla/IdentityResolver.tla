-------------------------- MODULE IdentityResolver --------------------------
(***************************************************************************)
(* SystemIdentityResolver of internal/monitor/identity.go: which SSH key a *)
(* connection was authenticated with, according to the unified log.        *)
(*                                                                         *)
(* Resolve reads the last Window of the log at most once a second, merges  *)
(* what it finds into a map that is never pruned, looks the connection up  *)
(* by pid and remote endpoint, and discards a record that is older than    *)
(* the process which has the pid now.  The log and ps are two commands:    *)
(* processes come and go between them.                                     *)
(*                                                                         *)
(* Time is counted in ticks, TicksPerSecond of them in a second; ps shows  *)
(* when a process started in whole seconds.  A record stands for the       *)
(* session whose authentication it reports.                                *)
(***************************************************************************)
EXTENDS Naturals, Sequences, FiniteSetsExt, Policy

CONSTANTS
    Sessions,        \* the sessions that may ever exist
    SessionConn,     \* session -> its connection, with pid and remote
    TicksPerSecond,  \* resolution of the clock
    Window,          \* log show --last 5m, in ticks
    MaxTime          \* bound on the clock

ASSUME ClockOK ==
    TicksPerSecond \in Nat \ {0} /\ Window \in Nat /\ MaxTime \in Nat \ {0}

VARIABLES
    now,          \* the clock
    status,       \* session -> "new", "live" or "gone"
    started,      \* session -> when its process started
    authed,       \* session -> when its authentication was logged, or Never
    log,          \* the sessions authenticated, oldest first: the unified log
    identities,   \* r.identities: key -> session, or Nobody
    lastRefresh,  \* r.lastRefresh, or Never
    lastError,    \* r.lastError is not nil
    pc,           \* "idle", "read" (the log) or "lookup"
    conn,         \* the session whose connection is being resolved
    begun,        \* when Resolve was called
    answer,       \* the last answer of Resolve
    seen          \* sessions whose record a refresh has read

vars == <<now, status, started, authed, log, identities, lastRefresh,
          lastError, pc, conn, begun, answer, seen>>
host == <<now, status, started, authed, log>>
resolver == <<identities, lastRefresh, lastError, pc, conn, begun, answer, seen>>
-----------------------------------------------------------------------------
(* The zero time.Time: the clock starts later. *)
Never == 0
Nobody == "nobody"

(* sessionKey.  Resolve uses the remote endpoint as lsof reported it,      *)
(* parseAcceptedEvent the unmapped one.                                    *)
sessionKey(pid, remote) == <<pid, remote>>
LookupKey(s) == sessionKey(SessionConn[s].pid, SessionConn[s].remote)
RecordKey(s) == sessionKey(SessionConn[s].pid,
                           [SessionConn[s].remote EXCEPT !.addr = Unmap(@)])
Keys == {LookupKey(s) : s \in Sessions} \cup {RecordKey(s) : s \in Sessions}

Live == {s \in Sessions : status[s] = "live"}
Holder(pid) == {s \in Live : SessionConn[s].pid = pid}

(* The second in which a moment falls, as ps -o lstart= prints it. *)
Truncate(t) == (t \div TicksPerSecond) * TicksPerSecond

NoAnswer == [kind |-> "none"]

Init ==
    /\ now = 1
    /\ status = [s \in Sessions |-> "new"]
    /\ started = [s \in Sessions |-> 0]
    /\ authed = [s \in Sessions |-> Never]
    /\ log = << >>
    /\ identities = [k \in Keys |-> Nobody]
    /\ lastRefresh = Never
    /\ lastError = FALSE
    /\ pc = "idle"
    /\ conn = Nobody
    /\ begun = 0
    /\ answer = NoAnswer
    /\ seen = {}
-----------------------------------------------------------------------------
(* The host: the clock, sshd processes, and sshd writing to the log. *)
Tick ==
    /\ now < MaxTime
    /\ now' = now + 1
    /\ UNCHANGED <<status, started, authed, log, resolver>>

Start(s) ==
    /\ status[s] = "new"
    /\ Holder(SessionConn[s].pid) = {}
    /\ status' = [status EXCEPT ![s] = "live"]
    /\ started' = [started EXCEPT ![s] = now]
    /\ UNCHANGED <<now, authed, log, resolver>>

Authenticate(s) ==
    /\ status[s] = "live"
    /\ authed[s] = Never
    /\ authed' = [authed EXCEPT ![s] = now]
    /\ log' = Append(log, s)
    /\ UNCHANGED <<now, status, started, resolver>>

Exit(s) ==
    /\ status[s] = "live"
    /\ status' = [status EXCEPT ![s] = "gone"]
    /\ UNCHANGED <<now, started, authed, log, resolver>>

(* The daemon is started again: NewSystemIdentityResolver. *)
Restart ==
    /\ identities' = [k \in Keys |-> Nobody]
    /\ lastRefresh' = Never
    /\ lastError' = FALSE
    /\ pc' = "idle"
    /\ conn' = Nobody
    /\ begun' = 0
    /\ answer' = NoAnswer
    /\ seen' = {}
    /\ UNCHANGED host
-----------------------------------------------------------------------------
(* What Resolve returns for session s: "error", or the session whose       *)
(* record was found.  The rest is remembered for the properties.           *)
Answer(s, start, kind, who) ==
    [kind |-> kind, for |-> s, who |-> who, begun |-> start, at |-> now,
     holder |-> Holder(SessionConn[s].pid)]

Return(result) ==
    /\ answer' = result
    /\ pc' = "idle"
    /\ conn' = Nobody
    /\ begun' = 0

Throttled == lastRefresh # Never /\ now < lastRefresh + TicksPerSecond

(* Mutant: the time of the next refresh is stored. *)
ResolveStoresNext(s) ==
    /\ pc = "idle"
    /\ status[s] # "new"
    /\ lastRefresh' = IF Throttled THEN lastRefresh ELSE now + TicksPerSecond
    /\ pc' = IF Throttled THEN "lookup" ELSE "read"
    /\ answer' = NoAnswer /\ conn' = s /\ begun' = now
    /\ UNCHANGED <<host, identities, lastError, seen>>

(* Mutant: the error of the last refresh is not returned again. *)
ResolveForgetsError(s) ==
    /\ pc = "idle"
    /\ status[s] # "new"
    /\ lastRefresh' = IF Throttled THEN lastRefresh ELSE now
    /\ pc' = IF Throttled THEN "lookup" ELSE "read"
    /\ answer' = NoAnswer /\ conn' = s /\ begun' = now
    /\ UNCHANGED <<host, identities, lastError, seen>>

(* Resolve is called for a connection that lsof has reported.  Within a    *)
(* second of the last refresh its error, if any, is returned again.        *)
Resolve(s) ==
    /\ pc = "idle"
    /\ status[s] # "new"
    /\ lastRefresh' = IF Throttled THEN lastRefresh ELSE now
    /\ pc' = CASE ~Throttled -> "read"
               [] Throttled /\ lastError -> "idle"
               [] OTHER -> "lookup"
    /\ IF Throttled /\ lastError
       THEN answer' = Answer(s, now, "error", Nobody) /\ UNCHANGED <<conn, begun>>
       ELSE answer' = NoAnswer /\ conn' = s /\ begun' = now
    /\ UNCHANGED <<host, identities, lastError, seen>>

(* log show fails, or its output is not what parseAuthLogRecords expects. *)
LogFails ==
    /\ pc = "read"
    /\ lastError' = TRUE
    /\ Return(Answer(conn, begun, "error", Nobody))
    /\ UNCHANGED <<host, identities, lastRefresh, seen>>

(* The records log show --last prints, by their place in the log, and the  *)
(* ones with key k; of these parseAuthLogRecords keeps the last.           *)
InLog == {i \in DOMAIN log : now <= authed[log[i]] + Window}
Records(k) == {i \in InLog : RecordKey(log[i]) = k}

(* Mutant: a refresh replaces the map. *)
Replaced ==
    [k \in Keys |-> IF Records(k) = {} THEN Nobody ELSE log[Max(Records(k))]]

(* The merge of refresh into the map. *)
Merged ==
    [k \in Keys |-> IF Records(k) = {} THEN identities[k] ELSE log[Max(Records(k))]]

ReadLog ==
    /\ pc = "read"
    /\ identities' = Merged
    /\ lastError' = FALSE
    /\ seen' = seen \cup {log[i] : i \in InLog}
    /\ pc' = "lookup"
    /\ UNCHANGED <<host, lastRefresh, conn, begun, answer>>

(* The rest of Resolve: no record, or ps fails (it does when no process    *)
(* has the pid), or the record is older than the process, or it is used.   *)
NoRecord ==
    /\ pc = "lookup"
    /\ identities[LookupKey(conn)] = Nobody
    /\ Return(Answer(conn, begun, "ok", Nobody))
    /\ UNCHANGED <<host, identities, lastRefresh, lastError, seen>>

ProcessStartFails ==
    /\ pc = "lookup"
    /\ identities[LookupKey(conn)] # Nobody
    /\ Return(Answer(conn, begun, "error", Nobody))
    /\ UNCHANGED <<host, identities, lastRefresh, lastError, seen>>

(* Mutant: the record is used whatever its age. *)
TrustRecord ==
    /\ pc = "lookup"
    /\ identities[LookupKey(conn)] # Nobody
    /\ Return(Answer(conn, begun, "ok", identities[LookupKey(conn)]))
    /\ UNCHANGED <<host, identities, lastRefresh, lastError, seen>>

CompareStart ==
    /\ pc = "lookup"
    /\ identities[LookupKey(conn)] # Nobody
    /\ \E holder \in Holder(SessionConn[conn].pid) :
          LET record == identities[LookupKey(conn)]
          IN  Return(Answer(conn, begun, "ok",
                            IF authed[record] < Truncate(started[holder])
                            THEN Nobody ELSE record))
    /\ UNCHANGED <<host, identities, lastRefresh, lastError, seen>>

Next ==
    \/ Tick
    \/ \E s \in Sessions : Start(s) \/ Authenticate(s) \/ Exit(s) \/ Resolve(s)
    \/ Restart
    \/ LogFails
    \/ ReadLog
    \/ NoRecord
    \/ ProcessStartFails
    \/ CompareStart

Spec == Init /\ [][Next]_vars
-----------------------------------------------------------------------------
(* Type correctness of the resolver and its host. *)
TypeOK ==
    /\ now \in 1..MaxTime
    /\ status \in [Sessions -> {"new", "live", "gone"}]
    /\ started \in [Sessions -> 0..MaxTime]
    /\ authed \in [Sessions -> 0..MaxTime]
    /\ log \in Seq(Sessions)
    /\ identities \in [Keys -> Sessions \cup {Nobody}]
    /\ lastRefresh \in 0..MaxTime
    /\ lastError \in BOOLEAN
    /\ pc \in {"idle", "read", "lookup"}
    /\ conn \in Sessions \cup {Nobody}
    /\ begun \in 0..MaxTime
    /\ answer.kind \in {"none", "ok", "error"}
    /\ seen \subseteq Sessions

(* The session that the answer is about still has its pid. *)
AnsweredFor(s) == answer.kind = "ok" /\ answer.for = s /\ s \in answer.holder

(* Addresses that lsof and the log write the same way. *)
SameForm(s) == LookupKey(s) = RecordKey(s)

(* The key of another session is attributed to a connection only if that   *)
(* session had the same pid and remote endpoint and authenticated no       *)
(* earlier than the second in which the new process started: pids and      *)
(* records that outlive their session are told apart by the start time.    *)
IdentityIsOwn ==
    \A s \in Sessions : AnsweredFor(s) /\ answer.who \notin {s, Nobody} =>
        /\ RecordKey(answer.who) = LookupKey(s)
        /\ authed[answer.who] >= Truncate(started[s])

(* Once a refresh has read the record of a session, the resolver knows the *)
(* key for as long as the session lives: neither the end of the log window *)
(* nor records of other sessions take it away.                             *)
KnownStaysKnown ==
    \A s \in Sessions : AnsweredFor(s) /\ SameForm(s) /\ s \in seen => answer.who = s

(* An answer without error is at most a second old: a session that         *)
(* authenticated a second or more before Resolve was called, and recently  *)
(* enough to be in the log, is identified.                                 *)
FoundAfterASecond ==
    \A s \in Sessions :
        /\ AnsweredFor(s) /\ SameForm(s)
        /\ authed[s] # Never
        /\ authed[s] + TicksPerSecond <= answer.begun
        /\ answer.at <= authed[s] + Window
        => answer.who = s
=============================================================================
