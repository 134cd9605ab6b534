------------------------------- MODULE Augur --------------------------------
(***************************************************************************)
(* The daemon as main wires it: the scan loop of Monitor with the identity *)
(* resolver of IdentityResolver, on one host.  Sessions start,             *)
(* authenticate and end; both modules see the same processes.  In place of *)
(* "what the resolver can answer" stands the resolver itself: its throttle *)
(* of a second, its log window, its map and its two commands.              *)
(*                                                                         *)
(* Resolve runs in the goroutine of Scan: the step in which it returns is  *)
(* the step in which Scan judges the connection.                           *)
(***************************************************************************)
EXTENDS Monitor

CONSTANTS
    TicksPerSecond,  \* see IdentityResolver
    Window,
    MaxTime

(* main gives New a discoverer and an enforcer and sets the resolver. *)
ASSUME MainWires == Wirings = {{"discoverer", "resolver", "enforcer"}}

VARIABLES
    now, started, authed, log, identities, lastRefresh, lastError, conn,
    begun, answer, seen,  \* of IdentityResolver
    rpc,                  \* its pc
    polled                \* when the poll of this scan was, 0 between scans

R == INSTANCE IdentityResolver WITH pc <- rpc

(* The assumption of IdentityResolver, and that no session is Nobody. *)
ASSUME ResolverConstants ==
    /\ TicksPerSecond \in Nat \ {0}
    /\ Window \in Nat
    /\ MaxTime \in Nat \ {0}
    /\ R!Nobody \notin Sessions

resolver == <<now, started, authed, log, identities, lastRefresh, lastError,
              conn, begun, answer, seen, rpc>>
allVars == <<vars, resolver, polled>>
-----------------------------------------------------------------------------
AugurInit == Init /\ R!Init /\ polled = 0

(* The host: one process starts, authenticates or ends for both modules.   *)
(* A signal that has been verified goes out before its pid is used again.  *)
Start(s) == Connect(s) /\ R!Start(s) /\ UNCHANGED polled
End(s) == Disconnect(s) /\ R!Exit(s) /\ UNCHANGED polled
Authenticate(s) == R!Authenticate(s) /\ UNCHANGED <<vars, polled>>
ClockTick == R!Tick /\ UNCHANGED <<vars, polled>>

(* A new daemon process has a new resolver. *)
RestartAll ==
    /\ Restart /\ R!Restart
    /\ polled' = 0

(* The steps of the scan that do not ask the resolver. *)
Poll ==
    /\ Discover
    /\ polled' = now
    /\ UNCHANGED resolver

Elsewhere ==
    /\ DiscoverFails \/ TerminateFails \/ Verify \/ Signal \/ EndScan \/ Tick
       \/ Stop \/ Stopped \/ Cancel
    /\ polled' = IF pc' \in {"loop", "terminate", "signal"} THEN polled ELSE 0
    /\ UNCHANGED resolver

(* Resolve is called for a session of the snapshot: the one that lives,    *)
(* when several have had this very connection one after the other.         *)
Resolve(s) ==
    /\ pc = "loop"
    /\ SessionConn[s] \in todo
    /\ \A t \in Live : SessionConn[t] = SessionConn[s] => t = s
    /\ R!Resolve(s)

(* A command that the cancellation of the context kills fails. *)
Lookup == R!NoRecord \/ R!ProcessStartFails \/ (R!CompareStart /\ ~ctxDone)

(* Mutant: Scan takes an error for an answer and uses the record it has. *)
FingerprintsDespiteError(s) ==
    LET record == identities[R!LookupKey(s)]
    IN  IF record = R!Nobody THEN {} ELSE SessionKeys[record]

(* connection.PublicKeyFingerprints after the call. *)
Fingerprints(s) ==
    IF answer'.kind = "error" \/ answer'.who = R!Nobody THEN {}
    ELSE SessionKeys[answer'.who]

(* The resolver works on; Scan waits for it. *)
Ask(s) ==
    /\ Resolve(s) \/ (conn = s /\ ~ctxDone /\ R!ReadLog)
    /\ rpc' # "idle"
    /\ UNCHANGED <<vars, polled>>

(* Resolve returns and Scan goes on with the connection. *)
Judge(s) ==
    /\ Resolve(s) \/ (conn = s /\ (R!LogFails \/ Lookup))
    /\ rpc' = "idle"
    /\ ExamineWith(SessionConn[s], Fingerprints(s))
    /\ UNCHANGED polled

AugurNext ==
    \/ ClockTick
    \/ RestartAll
    \/ Poll
    \/ Elsewhere
    \/ \E s \in Sessions : Start(s) \/ End(s) \/ Authenticate(s) \/ Ask(s) \/ Judge(s)

AugurSpec == AugurInit /\ [][AugurNext]_allVars
-----------------------------------------------------------------------------
(* The daemon with the real resolver is a Monitor: whatever is proved of   *)
(* the scan loop for any answers of the resolver holds for it.             *)
ImplementsMonitor == Spec

Recognised(s) ==
    MatchDevice(cfg, SessionConn[s].user, SessionKeys[s], SessionConn[s].remote.addr)

(* What may make the daemon signal a recognised session: the answer about  *)
(* it was an error; it had authenticated less than a second before Resolve *)
(* was called, or not at all; or the log no longer went back to it, in a   *)
(* daemon that had not read its record before.                             *)
Excused(s) ==
    \/ answer.kind = "error"
    \/ authed[s] = R!Never
    \/ answer.begun < authed[s] + TicksPerSecond
    \/ authed[s] + Window < answer.at /\ s \notin seen
    \/ ~R!SameForm(s)

(* A recognised session that was judged itself is signalled only for one   *)
(* of those reasons; one that was not took over the pid and the socket of  *)
(* the judged one after the poll.  This is all that the throttle, the log  *)
(* window, the map and the recycling of pids can do to a recognised key.   *)
RecognisedKilledOnlyFor ==
    pc = "signal" =>
        \A s \in LiveAt(cur) : Recognised(s) =>
            IF answer.for = s THEN Excused(s) ELSE started[s] >= polled

(* README.md: the daemon "terminates sessions whose authenticated SSH key  *)
(* is not recognized".  A session that had authenticated with a recognised *)
(* key before the poll listed it, and about which Resolve has answered     *)
(* without an error from a log that reaches back to it, is not signalled.  *)
AuthenticatedSurvives ==
    pc = "signal" =>
        \A s \in LiveAt(cur) : ~(/\ Recognised(s)
                                 /\ authed[s] # R!Never
                                 /\ authed[s] < polled
                                 /\ answer.for = s /\ answer.kind = "ok"
                                 /\ answer.at <= authed[s] + Window
                                 /\ R!SameForm(s))
=============================================================================
