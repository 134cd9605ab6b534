------------------------------ MODULE Monitor -------------------------------
(***************************************************************************)
(* The scan loop: Monitor.Run and Monitor.Scan of                          *)
(* internal/monitor/monitor.go, started by main of cmd/augur/main.go.      *)
(*                                                                         *)
(* Each poll takes a snapshot of the established sshd connections, asks    *)
(* the identity resolver for the key of each, and terminates the ones that *)
(* the policy does not admit.  The set "terminated" remembers the          *)
(* connections already terminated, so that one which outlives SIGTERM is   *)
(* not signalled at every poll; a scan drops the entries it did not see.   *)
(*                                                                         *)
(* The resolver and the enforcer are used through their interfaces: what   *)
(* they can answer is an external choice here; modules IdentityResolver    *)
(* and TreeTerminator model them.  The network inventory that Scan         *)
(* refreshes first touches none of this state.                             *)
(*                                                                         *)
(* A session is one sshd process with one TCP connection.  Sessions come   *)
(* and go between any two steps of the scan, and a later session may have  *)
(* the pid and the remote endpoint, hence the key, of an earlier one.      *)
(***************************************************************************)
EXTENDS Naturals, Policy

CONSTANTS
    Sessions,     \* the sessions that may ever exist
    SessionConn,  \* session -> its connection [pid, user, local, remote]
    SessionKeys,  \* session -> set of fingerprints it authenticated with
    Configs,      \* the configurations the daemon may be started with
    Wirings,      \* sets of dependencies that New may have been given
    MaxRestarts   \* bound on the restarts by launchd

ASSUME ConfigsLoaded == \A c \in Configs : Validate(c)

VARIABLES
    cfg,          \* m.Config, after main applied -dry-run
    wired,        \* the dependencies that are not nil
    once,         \* the -once flag
    status,       \* session -> "new", "live" or "gone"
    signals,      \* session -> SIGTERMs sent to it by this daemon process
    ctxDone,      \* the context was cancelled by SIGINT or SIGTERM
    pc,           \* where Run and Scan are
    todo,         \* connections of the snapshot the loop has not reached
    active,       \* keys of the connections the loop has reached
    terminated,   \* m.terminated
    cur,          \* the connection the enforcer is working on
    restarts      \* restarts so far

vars == <<cfg, wired, once, status, signals, ctxDone, pc, todo, active,
          terminated, cur, restarts>>
daemon == <<cfg, wired, once>>
-----------------------------------------------------------------------------
Connections == {SessionConn[s] : s \in Sessions}
NoConn == [pid |-> 0]

(* Connection.Key: the pid and the remote endpoint. *)
Key(conn) == <<conn.pid, conn.remote>>
Keys == {Key(c) : c \in Connections}

(* The comparison of LsofConnectionVerifier.Verify. *)
SameSocket(c, d) == c.pid = d.pid /\ c.local = d.local /\ c.remote = d.remote

Live == {s \in Sessions : status[s] = "live"}
LiveAt(conn) == {s \in Live : SameSocket(SessionConn[s], conn)}

(* What lsof lists: the established connections on a configured port. *)
Monitored(c) == c.local \in cfg.ports
Snapshot == {c \in {SessionConn[s] : s \in Live} : Monitored(c)}

(* main with and without -dry-run. *)
Effective(c, dryRun) == IF dryRun THEN [c EXCEPT !.enforce = FALSE] ELSE c

Init ==
    /\ cfg \in {Effective(c, d) : c \in Configs, d \in BOOLEAN}
    /\ wired \in Wirings
    /\ once \in BOOLEAN
    /\ status = [s \in Sessions |-> "new"]
    /\ signals = [s \in Sessions |-> 0]
    /\ ctxDone = FALSE
    /\ pc = "scan"
    /\ todo = {}
    /\ active = {}
    /\ terminated = {}
    /\ cur = NoConn
    /\ restarts = 0
-----------------------------------------------------------------------------
(* The host.  A pid or a connection in use is not handed out again, and    *)
(* the pid just verified is not recycled before the signal that follows.   *)
Connect(s) ==
    /\ status[s] = "new"
    /\ \A t \in Live : SessionConn[t].pid # SessionConn[s].pid
    /\ ~(pc = "signal" /\ SessionConn[s].pid = cur.pid)
    /\ status' = [status EXCEPT ![s] = "live"]
    /\ UNCHANGED <<daemon, signals, ctxDone, pc, todo, active, terminated,
                   cur, restarts>>

Disconnect(s) ==
    /\ status[s] = "live"
    /\ status' = [status EXCEPT ![s] = "gone"]
    /\ UNCHANGED <<daemon, signals, ctxDone, pc, todo, active, terminated,
                   cur, restarts>>

(* signal.NotifyContext: the daemon is told to stop. *)
Cancel ==
    /\ ~ctxDone
    /\ ctxDone' = TRUE
    /\ UNCHANGED <<daemon, status, signals, pc, todo, active, terminated,
                   cur, restarts>>

(* The service dies at any point, or has stopped, and launchd (KeepAlive)  *)
(* starts it again with nothing in memory.                                 *)
Restart ==
    /\ ~once
    /\ restarts < MaxRestarts
    /\ restarts' = restarts + 1
    /\ signals' = [s \in Sessions |-> 0]
    /\ ctxDone' = FALSE
    /\ pc' = "scan"
    /\ todo' = {}
    /\ active' = {}
    /\ terminated' = {}
    /\ cur' = NoConn
    /\ UNCHANGED <<daemon, status>>
-----------------------------------------------------------------------------
(* Mutant: a scan that fails runs the clean-up too. *)
DiscoverFailsForgets ==
    /\ pc = "scan"
    /\ pc' = "wait"
    /\ terminated' = {}
    /\ UNCHANGED <<daemon, status, signals, ctxDone, todo, active, cur, restarts>>

(* Scan up to the loop: no discoverer, or lsof fails (it does once the     *)
(* context is cancelled), or a snapshot.                                   *)
DiscoverFails ==
    /\ pc = "scan"
    /\ pc' = "wait"
    /\ UNCHANGED <<daemon, status, signals, ctxDone, todo, active,
                   terminated, cur, restarts>>

Discover ==
    /\ pc = "scan"
    /\ "discoverer" \in wired
    /\ ~ctxDone
    /\ todo' = Snapshot
    /\ active' = {}
    /\ pc' = "loop"
    /\ UNCHANGED <<daemon, status, signals, ctxDone, terminated, cur, restarts>>

(* What connection.PublicKeyFingerprints can be after the resolver was     *)
(* asked: nothing when there is no resolver, no record or an error, or the *)
(* keys of a session with this pid and remote endpoint, which the log has  *)
(* unmapped; it may be a session just gone (see IdentityResolver).         *)
Recorded(s, c) ==
    /\ SessionConn[s].pid = c.pid
    /\ [SessionConn[s].remote EXCEPT !.addr = Unmap(@)] = c.remote

Resolved(c) ==
    {{}} \cup
    {SessionKeys[s] : s \in {t \in Sessions : /\ "resolver" \in wired
                                             /\ ~ctxDone
                                             /\ status[t] # "new"
                                             /\ Recorded(t, c)}}

(* Mutant: the loop does not look at m.terminated. *)
ExamineWithoutMemory(c, fingerprints) ==
    /\ pc = "loop"
    /\ c \in todo
    /\ todo' = todo \ {c}
    /\ active' = active \cup {Key(c)}
    /\ pc' = IF ~Terminable(cfg, c, fingerprints) THEN "loop"
             ELSE IF "enforcer" \in wired THEN "terminate" ELSE "wait"
    /\ cur' = IF pc' = "terminate" THEN c ELSE NoConn
    /\ UNCHANGED <<daemon, status, signals, ctxDone, terminated, restarts>>

(* One iteration of the loop, up to the call of the enforcer, with what    *)
(* the resolver has answered.                                              *)
ExamineWith(c, fingerprints) ==
    /\ pc = "loop"
    /\ c \in todo
    /\ todo' = todo \ {c}
    /\ active' = active \cup {Key(c)}
    /\ LET condemned == /\ Terminable(cfg, c, fingerprints)
                        /\ Key(c) \notin terminated
       IN  pc' = IF ~condemned THEN "loop"
                 ELSE IF "enforcer" \in wired THEN "terminate" ELSE "wait"
    /\ cur' = IF pc' = "terminate" THEN c ELSE NoConn
    /\ UNCHANGED <<daemon, status, signals, ctxDone, terminated, restarts>>

Examine(c) == \E fingerprints \in Resolved(c) : ExamineWith(c, fingerprints)

(* Mutant: the connection is remembered before Terminate has succeeded. *)
TerminateFailsRemembers ==
    /\ pc = "terminate"
    /\ pc' = "loop"
    /\ cur' = NoConn
    /\ terminated' = terminated \cup {Key(cur)}
    /\ UNCHANGED <<daemon, status, signals, ctxDone, todo, active, restarts>>

(* Terminate fails: the pid is gone or not a session, the connection is    *)
(* not the expected one, a command fails or the context is cancelled.  The *)
(* error is logged and the loop goes on; nothing is remembered.            *)
TerminateFails ==
    /\ pc = "terminate"
    /\ pc' = "loop"
    /\ cur' = NoConn
    /\ UNCHANGED <<daemon, status, signals, ctxDone, todo, active,
                   terminated, restarts>>

(* Mutant: only the pid is checked, not its connection. *)
VerifyPid ==
    /\ pc = "terminate"
    /\ ~ctxDone
    /\ \E s \in Live : SessionConn[s].pid = cur.pid
    /\ pc' = "signal"
    /\ UNCHANGED <<daemon, status, signals, ctxDone, todo, active,
                   terminated, cur, restarts>>

(* The last revalidation of the enforcer finds the expected connection. *)
Verify ==
    /\ pc = "terminate"
    /\ ~ctxDone
    /\ LiveAt(cur) # {}
    /\ pc' = "signal"
    /\ UNCHANGED <<daemon, status, signals, ctxDone, todo, active,
                   terminated, cur, restarts>>

(* Mutant: what is remembered is a key without the remote endpoint. *)
SignalRemembersPid ==
    /\ pc = "signal"
    /\ signals' = [s \in Sessions |->
                     IF s \in Live /\ SessionConn[s].pid = cur.pid
                     THEN signals[s] + 1 ELSE signals[s]]
    /\ terminated' = terminated \cup {<<cur.pid>>}
    /\ pc' = "loop"
    /\ cur' = NoConn
    /\ UNCHANGED <<daemon, status, ctxDone, todo, active, restarts>>

(* SIGTERM to whoever has the pid.  A process that has just exited (ESRCH) *)
(* counts as terminated.                                                   *)
Signal ==
    /\ pc = "signal"
    /\ signals' = [s \in Sessions |->
                     IF s \in Live /\ SessionConn[s].pid = cur.pid
                     THEN signals[s] + 1 ELSE signals[s]]
    /\ terminated' = terminated \cup {Key(cur)}
    /\ pc' = "loop"
    /\ cur' = NoConn
    /\ UNCHANGED <<daemon, status, ctxDone, todo, active, restarts>>

(* The end of Scan: forget the keys that this scan has not seen. *)
EndScan ==
    /\ pc = "loop"
    /\ todo = {}
    /\ terminated' = terminated \cap active
    /\ pc' = "wait"
    /\ UNCHANGED <<daemon, status, signals, ctxDone, todo, active, cur, restarts>>

(* The select of Run; with both channels ready Go picks either.  main      *)
(* returns after one scan when -once was given.                            *)
Tick ==
    /\ pc = "wait"
    /\ ~once
    /\ pc' = "scan"
    /\ UNCHANGED <<daemon, status, signals, ctxDone, todo, active,
                   terminated, cur, restarts>>

Stop ==
    /\ pc = "wait"
    /\ once \/ ctxDone
    /\ pc' = "stopped"
    /\ UNCHANGED <<daemon, status, signals, ctxDone, todo, active,
                   terminated, cur, restarts>>

Stopped == pc = "stopped" /\ UNCHANGED vars

Environment == Cancel \/ Restart \/ \E s \in Sessions : Connect(s) \/ Disconnect(s)

Next ==
    \/ Environment
    \/ DiscoverFails
    \/ Discover
    \/ \E c \in Connections : Examine(c)
    \/ TerminateFails
    \/ Verify
    \/ Signal
    \/ EndScan
    \/ Tick
    \/ Stop
    \/ Stopped

(* The daemon is a running process: its enabled steps are taken.  lsof and *)
(* the validations of the enforcer may fail, but not every time for ever.  *)
Fairness ==
    /\ WF_vars(DiscoverFails \/ Discover)
    /\ SF_vars(Discover)
    /\ WF_vars(\E c \in Connections : Examine(c))
    /\ WF_vars(TerminateFails \/ Verify)
    /\ \A c \in Connections : SF_vars(Verify /\ cur = c)
    /\ WF_vars(Signal)
    /\ WF_vars(EndScan)
    /\ WF_vars(Tick)
    /\ WF_vars(Stop)

Spec == Init /\ [][Next]_vars
FairSpec == Spec /\ Fairness
-----------------------------------------------------------------------------
(* Type correctness of the scan loop's state.                              *)
TypeOK ==
    /\ cfg \in {Effective(c, d) : c \in Configs, d \in BOOLEAN}
    /\ wired \in Wirings
    /\ once \in BOOLEAN
    /\ status \in [Sessions -> {"new", "live", "gone"}]
    /\ signals \in [Sessions -> Nat]
    /\ ctxDone \in BOOLEAN
    /\ pc \in {"scan", "loop", "terminate", "signal", "wait", "stopped"}
    /\ todo \subseteq Connections
    /\ active \subseteq Keys
    /\ terminated \subseteq Keys
    /\ cur \in Connections \cup {NoConn}
    /\ restarts \in Nat

(* One daemon process sends SIGTERM to a session at most once, however     *)
(* many polls see it afterwards: the purpose of m.terminated.              *)
AtMostOneSignal == \A s \in Sessions : signals[s] <= 1

(* A session that was signalled and still lives is never forgotten by      *)
(* m.terminated: neither a failed snapshot nor a session that connects     *)
(* while the scan runs makes the clean-up of Scan drop its key.            *)
SignalledIsRemembered ==
    \A s \in Live : signals[s] > 0 => Key(SessionConn[s]) \in terminated

(* Whatever the resolver answered and however stale the snapshot was, a    *)
(* session is signalled only if the policy terminates connections from its *)
(* address and port when nothing is known of their key.  So -dry-run, mode *)
(* observe, observation_policy and ssh_ports protect a session through     *)
(* every failure and race.                                                 *)
PolicyProtects ==
    \A s \in Sessions : signals[s] > 0 =>
        /\ Terminable(cfg, SessionConn[s], {})
        /\ Monitored(SessionConn[s])

(* A live session that the policy terminates even when its keys are known. *)
Condemned(s) ==
    /\ s \in Live
    /\ {"discoverer", "enforcer"} \subseteq wired
    /\ Monitored(SessionConn[s])
    /\ Terminable(cfg, SessionConn[s], SessionKeys[s])

(* The scans reach every such session: a daemon that is left running       *)
(* eventually signals it, unless it goes away by itself.  The exception is *)
(* a session that took over the pid and the remote endpoint of one that is *)
(* gone: m.terminated tells them apart only if a scan ran in between.      *)
UnrecognizedIsTerminated ==
    \A s \in Sessions :
        Condemned(s) ~> \/ s \notin Live
                        \/ signals[s] > 0
                        \/ \E t \in Sessions :
                              /\ Key(SessionConn[t]) = Key(SessionConn[s])
                              /\ status[t] = "gone"
                        \/ once \/ ctxDone
=============================================================================
