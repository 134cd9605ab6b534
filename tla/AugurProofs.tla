---------------------------- MODULE AugurProofs -----------------------------
(***************************************************************************)
(* Proofs about the scan loop and about the daemon, for every set of       *)
(* sessions, configuration, wiring and log window.                         *)
(*                                                                         *)
(* The first part is about Monitor.  Its three safety invariants support   *)
(* each other: a session is signalled once because m.terminated remembers  *)
(* it, it is remembered because every scan sees it, and every scan sees it *)
(* because it was signalled on a monitored port.                           *)
(*                                                                         *)
(* The second part is about Augur: the daemon with the real resolver       *)
(* implements the scan loop with an arbitrary one, and the resolver inside *)
(* it is the one of IdentityProofs, so that what is proved of either holds *)
(* for the daemon; together they tell which recognised sessions a daemon   *)
(* can signal.                                                             *)
(***************************************************************************)
EXTENDS Augur, Places, SequenceTheorems, TLAPS

(* Live sessions have different pids, and a session that has not connected *)
(* yet was not signalled.                                                  *)
HostOK ==
    /\ \A s, t \in Live : SessionConn[s].pid = SessionConn[t].pid => s = t
    /\ \A s \in Sessions : status[s] = "new" => signals[s] = 0

(* While the loop runs, a live session that was signalled has been reached *)
(* or is still to be reached: the clean-up at the end will keep its key.   *)
SeenByScan ==
    pc \in {"loop", "terminate", "signal"} =>
        \A s \in Live : signals[s] > 0 =>
            Key(SessionConn[s]) \in active \cup {Key(c) : c \in todo}

(* The connection given to the enforcer was condemned, is not remembered,  *)
(* and is counted as active.                                               *)
CurOK ==
    pc \in {"terminate", "signal"} =>
        /\ cur \in Connections
        /\ Monitored(cur)
        /\ Terminable(cfg, cur, {})
        /\ Key(cur) \in active
        /\ Key(cur) \notin terminated

(* After the last verification only the expected session has the pid. *)
VerifiedOK ==
    pc = "signal" =>
        \A s \in Live : SessionConn[s].pid = cur.pid => SameSocket(SessionConn[s], cur)

(* The snapshot holds connections on configured ports only. *)
TodoOK == \A c \in todo : Monitored(c)

(* The inductive invariant. *)
IInv ==
    /\ TypeOK
    /\ HostOK
    /\ TodoOK
    /\ CurOK
    /\ VerifiedOK
    /\ SeenByScan
    /\ AtMostOneSignal
    /\ SignalledIsRemembered
    /\ PolicyProtects
-----------------------------------------------------------------------------
(* A connection found terminable with some fingerprints is terminable when *)
(* none are known, and so is every connection from the same endpoint:      *)
(* only MatchDevice looks at the user and the fingerprints.                *)
LEMMA TerminableWithoutKeys ==
    ASSUME NEW c, NEW judged, NEW other, NEW fingerprints,
           Terminable(c, judged, fingerprints), other.remote = judged.remote
    PROVE  Terminable(c, other, {})
  <1>1. ~MatchDevice(c, other.user, {}, other.remote.addr)
    BY DEF MatchDevice
  <1>2. QED
    BY <1>1 DEF Terminable

(* Sessions on one socket have one key. *)
LEMMA SameSocketSameKey ==
    ASSUME NEW c, NEW d, SameSocket(c, d)
    PROVE  Key(c) = Key(d) /\ c.remote = d.remote /\ (Monitored(d) => Monitored(c))
  BY DEF SameSocket, Key, Monitored

(* Every step keeps the state type correct. *)
LEMMA TypeStep == TypeOK /\ CurOK /\ [Next]_vars => TypeOK'
  <1> SUFFICES ASSUME TypeOK, CurOK, [Next]_vars PROVE TypeOK'
    OBVIOUS
  <1> USE DEF TypeOK, daemon
  <1>1. CASE \E s \in Sessions : Connect(s) \/ Disconnect(s)
    BY <1>1 DEF Connect, Disconnect
  <1>2. CASE Cancel
    BY <1>2 DEF Cancel
  <1>3. CASE Restart
    <2>1. signals' \in [Sessions -> Nat] /\ restarts' \in Nat
      BY <1>3 DEF Restart
    <2>2. (ctxDone \in BOOLEAN)'
      BY <1>3, Zenon DEF Restart
    <2>3. cur' \in Connections \cup {NoConn}
      BY <1>3 DEF Restart
    <2>4. todo' = {} /\ active' = {} /\ terminated' = {}
      BY <1>3 DEF Restart
    <2>5. QED
      BY <1>3, <2>1, <2>2, <2>3, <2>4 DEF Restart
  <1>4. CASE DiscoverFails \/ TerminateFails \/ Tick \/ Stop
    BY <1>4 DEF DiscoverFails, TerminateFails, Tick, Stop
  <1>5. CASE Discover
    BY <1>5 DEF Discover, Snapshot, Connections, Live
  <1>6. ASSUME NEW c \in Connections, Examine(c) PROVE TypeOK'
    BY <1>6 DEF Examine, ExamineWith, Keys
  <1>7. CASE Verify
    BY <1>7 DEF Verify
  <1>8. CASE Signal
    BY <1>8 DEF Signal, Keys, CurOK
  <1>9. CASE EndScan
    BY <1>9 DEF EndScan
  <1>10. CASE Stopped \/ UNCHANGED vars
    BY <1>10 DEF Stopped, vars
  <1>11. QED
    BY <1>1, <1>2, <1>3, <1>4, <1>5, <1>6, <1>7, <1>8, <1>9, <1>10
    DEF Next, Environment

(* The first state satisfies the inductive invariant. *)
LEMMA InitIInv == Init => IInv
  <1> SUFFICES ASSUME Init PROVE IInv
    OBVIOUS
  <1>1. signals \in [Sessions -> Nat]
    BY DEF Init
  <1>2. ctxDone \in BOOLEAN
    BY Zenon DEF Init
  <1>3. todo \subseteq Connections /\ active \subseteq Keys /\ terminated \subseteq Keys
    BY DEF Init
  <1>4. cur \in Connections \cup {NoConn}
    BY DEF Init
  <1>5. TypeOK
    BY <1>1, <1>2, <1>3, <1>4 DEF Init, TypeOK
  <1>6. Live = {}
    BY DEF Init, Live
  <1>7. \A s \in Sessions : signals[s] = 0
    BY DEF Init
  <1>8. QED
    BY <1>5, <1>6, <1>7 DEF Init, IInv, HostOK, TodoOK, CurOK, VerifiedOK, SeenByScan,
       AtMostOneSignal, SignalledIsRemembered, PolicyProtects

(* Every step of the host and of the daemon preserves it. *)
LEMMA NextIInv == IInv /\ [Next]_vars => IInv'
  <1> SUFFICES ASSUME IInv, [Next]_vars PROVE IInv'
    OBVIOUS
  <1> USE DEF daemon
  <1>0. TypeOK'
    BY TypeStep DEF IInv
  <1>a. TypeOK /\ HostOK /\ TodoOK /\ CurOK /\ VerifiedOK /\ SeenByScan
        /\ AtMostOneSignal /\ SignalledIsRemembered /\ PolicyProtects
    BY DEF IInv
  <1>b. \A s \in Sessions : signals[s] \in Nat
    BY <1>a DEF TypeOK
  (* The parts that only speak of the policy and of the signals sent. *)
  <1>c. ASSUME UNCHANGED <<cfg, signals>>
        PROVE  AtMostOneSignal' /\ PolicyProtects'
    BY <1>a, <1>c DEF AtMostOneSignal, PolicyProtects, Monitored
  <1>d. ASSUME UNCHANGED <<status, signals>> PROVE HostOK' /\ Live' = Live
    BY <1>a, <1>d DEF HostOK, Live
  <1>1. ASSUME NEW s \in Sessions, Connect(s) PROVE IInv'
    <2>1. Live' = Live \cup {s} /\ signals[s] = 0
      BY <1>1, <1>a DEF Connect, Live, TypeOK, HostOK
    <2>2. HostOK'
      <3>1. \A t, u \in Live' : SessionConn[t].pid = SessionConn[u].pid => t = u
        BY <1>1, <1>a, <2>1 DEF Connect, HostOK
      <3>2. \A t \in Sessions : status'[t] = "new" => status[t] = "new"
        BY <1>1, <1>a DEF Connect, TypeOK
      <3>3. QED
        BY <1>1, <1>a, <3>1, <3>2 DEF Connect, HostOK
    <2>3. VerifiedOK'
      BY <1>1, <1>a, <2>1 DEF Connect, VerifiedOK
    <2>4. SeenByScan' /\ SignalledIsRemembered'
      BY <1>1, <1>a, <2>1 DEF Connect, SeenByScan, SignalledIsRemembered
    <2>5. TodoOK' /\ CurOK'
      BY <1>1, <1>a DEF Connect, TodoOK, CurOK, Monitored
    <2>6. QED
      BY <1>0, <1>1, <1>c, <2>2, <2>3, <2>4, <2>5 DEF Connect, IInv
  <1>2. ASSUME NEW s \in Sessions, Disconnect(s) PROVE IInv'
    <2>1. Live' \subseteq Live /\ \A t \in Sessions : status'[t] = "new" => status[t] = "new"
      BY <1>2, <1>a DEF Disconnect, Live, TypeOK
    <2>2. HostOK' /\ VerifiedOK' /\ SeenByScan' /\ SignalledIsRemembered'
      BY <1>2, <1>a, <2>1 DEF Disconnect, HostOK, VerifiedOK, SeenByScan, SignalledIsRemembered
    <2>3. TodoOK' /\ CurOK'
      BY <1>2, <1>a DEF Disconnect, TodoOK, CurOK, Monitored
    <2>4. QED
      BY <1>0, <1>2, <1>c, <2>2, <2>3 DEF Disconnect, IInv
  <1>3. CASE Restart
    <2>1. \A s \in Sessions : signals'[s] = 0
      BY <1>3 DEF Restart
    <2>2. HostOK' /\ SeenByScan' /\ SignalledIsRemembered' /\ AtMostOneSignal' /\ PolicyProtects'
      BY <1>3, <1>a, <2>1 DEF Restart, HostOK, Live, SeenByScan, SignalledIsRemembered,
         AtMostOneSignal, PolicyProtects
    <2>3. TodoOK' /\ CurOK' /\ VerifiedOK'
      BY <1>3 DEF Restart, TodoOK, CurOK, VerifiedOK
    <2>4. QED
      BY <1>0, <2>2, <2>3 DEF IInv
  <1>4. CASE Cancel \/ DiscoverFails \/ TerminateFails \/ Tick \/ Stop \/ Stopped \/ UNCHANGED vars
    <2>1. UNCHANGED <<cfg, status, signals, todo, active, terminated>>
      BY <1>4 DEF Cancel, DiscoverFails, TerminateFails, Tick, Stop, Stopped, vars
    <2>2. /\ pc' \in {"loop", "terminate", "signal"} => pc \in {"loop", "terminate", "signal"}
          /\ pc' \in {"terminate", "signal"} => pc' = pc /\ cur' = cur
      BY <1>4 DEF Cancel, DiscoverFails, TerminateFails, Tick, Stop, Stopped, vars
    <2>3. SeenByScan' /\ SignalledIsRemembered' /\ VerifiedOK'
      BY <1>a, <1>d, <2>1, <2>2 DEF SeenByScan, SignalledIsRemembered, VerifiedOK
    <2>4. TodoOK' /\ CurOK'
      BY <1>a, <2>1, <2>2 DEF TodoOK, CurOK, Monitored
    <2>5. QED
      BY <1>0, <1>c, <1>d, <2>1, <2>3, <2>4 DEF IInv
  <1>5. CASE Discover
    <2>1. TodoOK' /\ CurOK' /\ VerifiedOK'
      BY <1>5 DEF Discover, TodoOK, CurOK, VerifiedOK, Snapshot, Monitored
    <2>2. ASSUME NEW s \in Live, signals[s] > 0
          PROVE  Key(SessionConn[s]) \in {Key(c) : c \in todo'}
      BY <1>5, <1>a, <2>2 DEF Discover, PolicyProtects, Snapshot, Live
    <2>3. SeenByScan' /\ SignalledIsRemembered'
      BY <1>5, <1>a, <1>d, <2>2 DEF Discover, SeenByScan, SignalledIsRemembered
    <2>4. QED
      BY <1>0, <1>5, <1>c, <1>d, <2>1, <2>3 DEF Discover, IInv
  <1>6. ASSUME NEW c \in Connections, Examine(c) PROVE IInv'
    <2>1. UNCHANGED <<cfg, status, signals, terminated>>
      BY <1>6 DEF Examine, ExamineWith
    <2>2. CurOK'
      <3> SUFFICES ASSUME pc' \in {"terminate", "signal"} PROVE CurOK'
        BY DEF CurOK
      <3>1. PICK fingerprints : Terminable(cfg, c, fingerprints) /\ Key(c) \notin terminated
        BY <1>6 DEF Examine, ExamineWith
      <3>2. cur' = c /\ Monitored(c)
        BY <1>6, <1>a DEF Examine, ExamineWith, TodoOK
      <3>3. Terminable(cfg, c, {})
        BY <3>1, TerminableWithoutKeys
      <3>4. QED
        BY <1>6, <2>1, <3>1, <3>2, <3>3 DEF Examine, ExamineWith, CurOK, Monitored
    <2>3. SeenByScan' /\ SignalledIsRemembered'
      BY <1>6, <1>a, <1>d, <2>1 DEF Examine, ExamineWith, SeenByScan, SignalledIsRemembered
    <2>4. TodoOK' /\ VerifiedOK'
      BY <1>6, <1>a DEF Examine, ExamineWith, TodoOK, VerifiedOK, Monitored
    <2>5. QED
      BY <1>0, <1>c, <1>d, <2>1, <2>2, <2>3, <2>4 DEF IInv
  <1>7. CASE Verify
    <2>1. UNCHANGED <<cfg, status, signals, todo, active, terminated, cur>> /\ pc = "terminate"
      BY <1>7 DEF Verify
    <2>2. PICK t \in Live : SameSocket(SessionConn[t], cur)
      BY <1>7 DEF Verify, LiveAt
    <2>3. VerifiedOK'
      BY <1>a, <1>d, <2>1, <2>2 DEF VerifiedOK, HostOK, SameSocket
    <2>4. SeenByScan' /\ SignalledIsRemembered'
      BY <1>a, <1>d, <2>1 DEF SeenByScan, SignalledIsRemembered
    <2>5. TodoOK' /\ CurOK'
      BY <1>a, <2>1 DEF TodoOK, CurOK, Monitored
    <2>6. QED
      BY <1>0, <1>c, <1>d, <2>1, <2>3, <2>4, <2>5 DEF IInv
  <1>8. CASE Signal
    <2>1. UNCHANGED <<cfg, status, todo, active>> /\ Live' = Live
      BY <1>8 DEF Signal, Live
    <2>2. ASSUME NEW s \in Live, SessionConn[s].pid = cur.pid
          PROVE  /\ Key(SessionConn[s]) = Key(cur)
                 /\ signals[s] = 0
                 /\ Terminable(cfg, SessionConn[s], {}) /\ Monitored(SessionConn[s])
      <3>1. SameSocket(SessionConn[s], cur)
        BY <1>8, <1>a, <2>2 DEF Signal, VerifiedOK
      <3>2. Key(SessionConn[s]) = Key(cur) /\ SessionConn[s].remote = cur.remote
            /\ Monitored(SessionConn[s])
        BY <1>8, <1>a, <3>1, SameSocketSameKey DEF Signal, CurOK
      <3>3. Terminable(cfg, SessionConn[s], {})
        BY <1>8, <1>a, <3>2, TerminableWithoutKeys DEF Signal, CurOK
      <3>4. signals[s] = 0
        BY <1>8, <1>a, <1>b, <3>2 DEF Signal, CurOK, SignalledIsRemembered, Live
      <3>5. QED
        BY <3>2, <3>3, <3>4
    <2>3. ASSUME NEW s \in Sessions
          PROVE  \/ s \in Live /\ SessionConn[s].pid = cur.pid /\ signals'[s] = 1
                 \/ signals'[s] = signals[s]
      BY <1>8, <1>b, <2>2 DEF Signal
    <2>4. AtMostOneSignal' /\ PolicyProtects'
      BY <1>a, <2>1, <2>2, <2>3 DEF AtMostOneSignal, PolicyProtects, Monitored
    <2>5. HostOK'
      BY <1>a, <2>1, <2>3 DEF HostOK, Live
    <2>6. SignalledIsRemembered'
      BY <1>8, <1>a, <2>1, <2>2, <2>3 DEF Signal, SignalledIsRemembered, Live
    <2>7. SeenByScan'
      BY <1>8, <1>a, <2>1, <2>2, <2>3 DEF Signal, SeenByScan, CurOK, Live
    <2>8. TodoOK' /\ CurOK' /\ VerifiedOK'
      BY <1>8, <1>a DEF Signal, TodoOK, CurOK, VerifiedOK, Monitored
    <2>9. QED
      BY <1>0, <2>4, <2>5, <2>6, <2>7, <2>8 DEF IInv
  <1>9. CASE EndScan
    <2>1. UNCHANGED <<cfg, status, signals>>
      BY <1>9 DEF EndScan
    <2>2. SignalledIsRemembered'
      BY <1>9, <1>a, <1>d, <2>1 DEF EndScan, SignalledIsRemembered, SeenByScan
    <2>3. SeenByScan' /\ TodoOK' /\ CurOK' /\ VerifiedOK'
      BY <1>9, <1>a DEF EndScan, SeenByScan, TodoOK, CurOK, VerifiedOK, Monitored
    <2>4. QED
      BY <1>0, <1>c, <1>d, <2>1, <2>2, <2>3 DEF IInv
  <1>10. QED
    BY <1>1, <1>2, <1>3, <1>4, <1>5, <1>6, <1>7, <1>8, <1>9 DEF Next, Environment

(* The inductive invariant holds in every reachable state. *)
THEOREM Invariance == Spec => []IInv
  BY InitIInv, NextIInv, PTL DEF Spec

(* The scan loop's state is type correct. *)
THEOREM TypeCorrect == Spec => []TypeOK
  <1>1. IInv => TypeOK
    BY DEF IInv
  <1>2. QED
    BY Invariance, <1>1, PTL

(* One daemon process never sends a session a second SIGTERM, for any      *)
(* number of sessions, polls and failures of lsof or of the enforcer.      *)
THEOREM SignalledOnce == Spec => []AtMostOneSignal
  <1>1. IInv => AtMostOneSignal
    BY DEF IInv
  <1>2. QED
    BY Invariance, <1>1, PTL

(* The clean-up at the end of Scan never forgets a session that was        *)
(* signalled and still lives.                                              *)
THEOREM Remembered == Spec => []SignalledIsRemembered
  <1>1. IInv => SignalledIsRemembered
    BY DEF IInv
  <1>2. QED
    BY Invariance, <1>1, PTL

(* No failure of the resolver and no race with the host makes the daemon   *)
(* signal a session that the configuration protects by address, port, mode *)
(* or dry-run.                                                             *)
THEOREM Protected == Spec => []PolicyProtects
  <1>1. IInv => PolicyProtects
    BY DEF IInv
  <1>2. QED
    BY Invariance, <1>1, PTL
-----------------------------------------------------------------------------
(* The log reports sessions that have started. *)
LogStarted ==
    /\ log \in Seq(Sessions)
    /\ \A i \in DOMAIN log : status[log[i]] # "new"

(* The map holds records under their own key, of sessions that started. *)
MapStarted ==
    \A k \in R!Keys : identities[k] # R!Nobody =>
        /\ identities[k] \in Sessions
        /\ R!RecordKey(identities[k]) = k
        /\ status[identities[k]] # "new"

StatusOK == status \in [Sessions -> {"new", "live", "gone"}]

AInv ==
    /\ StatusOK
    /\ LogStarted
    /\ MapStarted
    /\ wired \in Wirings
-----------------------------------------------------------------------------
(* A refresh keeps the invariant on the map. *)
LEMMA MergedStarted ==
    ASSUME AInv, NEW k \in R!Keys, R!Merged[k] # R!Nobody
    PROVE  /\ R!Merged[k] \in Sessions
           /\ R!RecordKey(R!Merged[k]) = k
           /\ status[R!Merged[k]] # "new"
<1>1. CASE R!Records(k) = {}
  BY <1>1 DEF AInv, MapStarted, R!Merged
<1>2. CASE R!Records(k) # {}
  <2> DEFINE m == Max(R!Records(k))
  <2>1. Len(log) \in Nat /\ R!Records(k) \in SUBSET (1..Len(log)) /\ DOMAIN log = 1..Len(log)
    BY DEF AInv, LogStarted, R!Records, R!InLog
  <2>2. m \in R!Records(k)
    BY <1>2, <2>1, MaxOfPlaces
  <2>3. R!Merged[k] = log[m]
    BY <1>2 DEF R!Merged, R!Max, Max
  <2>4. m \in DOMAIN log /\ R!RecordKey(log[m]) = k
    BY <2>1, <2>2 DEF R!Records
  <2> QED
    BY <2>1, <2>3, <2>4 DEF AInv, LogStarted
<1> QED
  BY <1>1, <1>2

(* In the beginning no session has started and nothing is known.           *)
LEMMA AugurInvariant == AugurInit => AInv
  BY DEF AugurInit, Init, R!Init, AInv, StatusOK, LogStarted, MapStarted

(* Every step keeps the invariant. *)
LEMMA AugurInductive == AInv /\ [AugurNext]_allVars => AInv'
<1> SUFFICES ASSUME AInv, [AugurNext]_allVars PROVE AInv'
  OBVIOUS
<1> USE DEF AInv, StatusOK, LogStarted, MapStarted
<1>1. ASSUME \/ status' = status
             \/ \E s \in Sessions : status' = [status EXCEPT ![s] = "live"]
             \/ \E s \in Sessions : status' = [status EXCEPT ![s] = "gone"]
      PROVE  StatusOK' /\ \A s \in Sessions : status[s] # "new" => status'[s] # "new"
  BY <1>1
<1>2. CASE UNCHANGED <<log, identities, wired>> /\
           (\/ status' = status
            \/ \E s \in Sessions : status' = [status EXCEPT ![s] = "live"]
            \/ \E s \in Sessions : status' = [status EXCEPT ![s] = "gone"])
  BY <1>1, <1>2
<1>3. CASE ClockTick
  BY <1>2, <1>3 DEF ClockTick, R!Tick, R!resolver, vars, daemon
<1>4. CASE RestartAll
  BY <1>4 DEF RestartAll, R!Restart, R!host, Restart, daemon
<1>5. CASE Poll
  BY <1>2, <1>5 DEF Poll, Discover, daemon, resolver
<1>6. CASE Elsewhere
  BY <1>2, <1>6 DEF Elsewhere, resolver, DiscoverFails, TerminateFails, Verify, Signal,
     EndScan, Tick, Stop, Stopped, Cancel, daemon, vars
<1>7. ASSUME NEW s \in Sessions, Start(s) PROVE AInv'
  BY <1>2, <1>7 DEF Start, Connect, R!Start, R!resolver, daemon
<1>8. ASSUME NEW s \in Sessions, End(s) PROVE AInv'
  BY <1>2, <1>8 DEF End, Disconnect, R!Exit, R!resolver, daemon
<1>9. ASSUME NEW s \in Sessions, Authenticate(s) PROVE AInv'
  <2> USE <1>9 DEF Authenticate, R!Authenticate, vars, daemon
  <2>1. /\ log \in Seq(Sessions) /\ log' = Append(log, s)
        /\ status[s] # "new" /\ status' = status
    OBVIOUS
  <2>2. LogStarted'
    BY <2>1, AppendProperties, LenProperties
  <2> QED
    BY <2>1, <2>2 DEF R!resolver
<1>10. ASSUME NEW s \in Sessions, Ask(s) PROVE AInv'
  <2>1. UNCHANGED <<log, status, wired>>
    BY <1>10 DEF Ask, Resolve, R!Resolve, R!ReadLog, R!host, vars, daemon
  <2>2. identities' = identities \/ identities' = R!Merged
    BY <1>10 DEF Ask, Resolve, R!Resolve, R!ReadLog
  <2>3. MapStarted'
    BY <2>1, <2>2, MergedStarted
  <2> QED
    BY <2>1, <2>3
<1>11. ASSUME NEW s \in Sessions, Judge(s) PROVE AInv'
  <2>1. UNCHANGED <<log, status, identities, wired>>
    BY <1>11 DEF Judge, Resolve, R!Resolve, R!LogFails, Lookup, R!NoRecord,
       R!ProcessStartFails, R!CompareStart, R!host, ExamineWith, daemon
  <2> QED
    BY <1>2, <2>1
<1>12. CASE UNCHANGED allVars
  BY <1>2, <1>12 DEF allVars, vars, daemon, resolver
<1> QED
  BY <1>3, <1>4, <1>5, <1>6, <1>7, <1>8, <1>9, <1>10, <1>11, <1>12 DEF AugurNext

(* What Resolve returns is one of the answers that Monitor allows. *)
LEMMA AnswerIsAllowed ==
    ASSUME AInv, NEW s \in Sessions, Judge(s)
    PROVE  Fingerprints(s) \in Resolved(SessionConn[s])
<1>1. CASE answer'.kind = "error" \/ answer'.who = R!Nobody
  BY <1>1 DEF Fingerprints, Resolved
<1>2. CASE answer'.kind # "error" /\ answer'.who # R!Nobody
  <2>1. conn = s /\ R!CompareStart /\ ~ctxDone
    BY <1>2 DEF Judge, Resolve, R!Resolve, R!LogFails, Lookup, R!NoRecord,
       R!ProcessStartFails, R!Return, R!Answer
  <2>2. R!LookupKey(s) \in R!Keys
    BY DEF R!Keys
  <2>3. answer'.who = identities[R!LookupKey(s)]
    BY <1>2, <2>1 DEF R!CompareStart, R!Return, R!Answer
  <2> DEFINE t == answer'.who
  <2>4. t \in Sessions /\ R!RecordKey(t) = R!LookupKey(s) /\ status[t] # "new"
    BY <1>2, <2>2, <2>3 DEF AInv, MapStarted
  <2>5. Recorded(t, SessionConn[s])
    BY <2>4 DEF R!RecordKey, R!LookupKey, R!sessionKey, R!Unmap, Unmap, Recorded
  <2>6. "resolver" \in wired
    BY MainWires DEF AInv
  <2> QED
    BY <1>2, <2>1, <2>4, <2>5, <2>6 DEF Fingerprints, Resolved
<1> QED
  BY <1>1, <1>2

(* Every step of the daemon is a step of the scan loop or changes nothing  *)
(* of it.                                                                  *)
LEMMA StepRefines == AInv /\ [AugurNext]_allVars => [Next]_vars
<1> SUFFICES ASSUME AInv, [AugurNext]_allVars PROVE [Next]_vars
  OBVIOUS
<1>1. CASE ClockTick
  BY <1>1 DEF ClockTick, R!Tick, vars
<1>2. CASE RestartAll
  BY <1>2 DEF RestartAll, Next, Environment
<1>3. CASE Poll
  BY <1>3 DEF Poll, Next
<1>4. CASE Elsewhere
  BY <1>4 DEF Elsewhere, Next, Environment
<1>5. ASSUME NEW s \in Sessions, Start(s) \/ End(s) PROVE [Next]_vars
  BY <1>5 DEF Start, End, Next, Environment
<1>6. ASSUME NEW s \in Sessions, Authenticate(s) \/ Ask(s) PROVE [Next]_vars
  BY <1>6 DEF Authenticate, Ask
<1>7. ASSUME NEW s \in Sessions, Judge(s) PROVE [Next]_vars
  <2>1. ExamineWith(SessionConn[s], Fingerprints(s))
    BY <1>7 DEF Judge
  <2>2. Examine(SessionConn[s])
    BY <1>7, <2>1, AnswerIsAllowed DEF Examine
  <2> QED
    BY <2>2 DEF Next, Connections
<1>8. CASE UNCHANGED allVars
  BY <1>8 DEF allVars
<1> QED
  BY <1>1, <1>2, <1>3, <1>4, <1>5, <1>6, <1>7, <1>8 DEF AugurNext

(* The daemon that main assembles is a Monitor. *)
THEOREM DaemonRefinement == AugurSpec => ImplementsMonitor
<1>1. AugurInit => Init
  BY DEF AugurInit
<1> QED
  BY <1>1, AugurInvariant, AugurInductive, StepRefines, PTL
  DEF AugurSpec, ImplementsMonitor, Spec

(* The daemon signals a session at most once, and none that the policy     *)
(* protects: inherited from the scan loop.                                 *)
THEOREM DaemonSafe == AugurSpec => [](AtMostOneSignal /\ PolicyProtects)
<1> QED
  BY DaemonRefinement, SignalledOnce, Protected, PTL DEF ImplementsMonitor

(* The resolver inside the daemon is the one of IdentityResolver: the scan *)
(* loop calls it in no way, and sees the host do nothing, that             *)
(* IdentityResolver leaves out.                                            *)
THEOREM ResolverRefinement == AugurSpec => R!Spec
<1>1. AugurInit => R!Init
  BY DEF AugurInit
<1>2. [AugurNext]_allVars => [R!Next]_(R!vars)
  <2> SUFFICES ASSUME [AugurNext]_allVars PROVE [R!Next]_(R!vars)
    OBVIOUS
  <2>1. CASE ClockTick \/ RestartAll
    BY <2>1 DEF ClockTick, RestartAll, R!Next
  <2>2. CASE Poll \/ Elsewhere
    BY <2>2 DEF Poll, Elsewhere, resolver, R!vars, Discover, DiscoverFails, TerminateFails,
       Verify, Signal, EndScan, Tick, Stop, Stopped, Cancel, vars
  <2>3. ASSUME NEW s \in Sessions, Start(s) \/ End(s) \/ Authenticate(s) PROVE R!Next
    BY <2>3 DEF Start, End, Authenticate, R!Next
  <2>4. ASSUME NEW s \in Sessions, Ask(s) \/ Judge(s) PROVE R!Next
    BY <2>4 DEF Ask, Judge, Resolve, Lookup, R!Next
  <2>5. CASE UNCHANGED allVars
    BY <2>5 DEF allVars, vars, resolver, R!vars
  <2> QED
    BY <2>1, <2>2, <2>3, <2>4, <2>5 DEF AugurNext
<1> QED
  BY <1>1, <1>2, PTL DEF AugurSpec, R!Spec
-----------------------------------------------------------------------------
(* What is proved of the resolver holds for the one inside the daemon. *)
RP == INSTANCE IdentityProofs WITH pc <- rpc

(* The resolver of the daemon is an IdentityResolver, renamed.             *)
LEMMA SameResolver == AugurSpec => RP!Spec
<1> USE DEF R!Never, RP!Never, R!Nobody, RP!Nobody, R!sessionKey, RP!sessionKey, R!LookupKey,
     RP!LookupKey, R!RecordKey, RP!RecordKey, R!Keys, RP!Keys, R!Live, RP!Live,
     R!Holder, RP!Holder, R!Truncate, RP!Truncate, R!NoAnswer, RP!NoAnswer, R!Answer,
     RP!Answer, R!Return, RP!Return, R!Throttled, RP!Throttled, R!InLog, RP!InLog,
     R!Records, RP!Records, R!Merged, RP!Merged, R!Unmap, RP!Unmap, R!host, RP!host,
     R!resolver, RP!resolver, R!Max, RP!Max
<1>1. R!Init => RP!Init
  BY DEF R!Init, RP!Init
<1>2. R!Tick => RP!Tick
  BY DEF R!Tick, RP!Tick
<1>3. \A s \in Sessions : R!Start(s) => RP!Start(s)
  BY DEF R!Start, RP!Start
<1>4. \A s \in Sessions : R!Authenticate(s) => RP!Authenticate(s)
  BY DEF R!Authenticate, RP!Authenticate
<1>5. \A s \in Sessions : R!Exit(s) => RP!Exit(s)
  BY DEF R!Exit, RP!Exit
<1>6. R!Restart => RP!Restart
  BY DEF R!Restart, RP!Restart
<1>7. \A s \in Sessions : R!Resolve(s) => RP!Resolve(s)
  BY DEF R!Resolve, RP!Resolve
<1>8. R!LogFails => RP!LogFails
  BY DEF R!LogFails, RP!LogFails
<1>9. R!ReadLog => RP!ReadLog
  BY DEF R!ReadLog, RP!ReadLog
<1>10. R!NoRecord => RP!NoRecord
  BY DEF R!NoRecord, RP!NoRecord
<1>11. R!ProcessStartFails => RP!ProcessStartFails
  BY DEF R!ProcessStartFails, RP!ProcessStartFails
<1>12. R!CompareStart => RP!CompareStart
  BY DEF R!CompareStart, RP!CompareStart
<1>20. R!vars = RP!vars
  BY DEF R!vars, RP!vars
<1>21. [R!Next]_(R!vars) => [RP!Next]_(RP!vars)
  BY <1>2, <1>3, <1>4, <1>5, <1>6, <1>7, <1>8, <1>9, <1>10, <1>11, <1>12, <1>20
  DEF R!Next, RP!Next, R!vars, RP!vars
<1> QED
  BY <1>1, <1>21, ResolverRefinement, PTL DEF R!Spec, RP!Spec

(* So the inductive invariant of the resolver holds in the daemon.         *)
LEMMA ResolverInvariant == AugurSpec => []RP!IInv
<1>1. RP!ClockOK
  BY ResolverConstants
<1> QED
  BY <1>1, SameResolver, RP!Invariance, PTL

(* What the proof below uses of it. *)
LEMMA HostFacts ==
    ASSUME RP!IInv
    PROVE  /\ now \in Nat
           /\ started \in [Sessions -> Nat]
           /\ status \in [Sessions -> {"new", "live", "gone"}]
           /\ \A s, t \in Live : SessionConn[s].pid = SessionConn[t].pid => s = t
  BY DEF RP!IInv, RP!TypeOK, RP!HostOK, RP!Pid, RP!Live, Live
-----------------------------------------------------------------------------
(* The connections of the snapshot that are still to be judged or that the *)
(* enforcer is working on.                                                 *)
InScan == pc \in {"loop", "terminate", "signal"}
Pending == todo \cup IF pc = "loop" THEN {} ELSE {cur}

(* What has a pid of the snapshot since before the poll is the connection  *)
(* that the snapshot shows.                                                *)
SnapshotOK ==
    /\ polled \in Nat /\ polled <= now
    /\ InScan => \A c \in Pending, s \in Live :
          SessionConn[s].pid = c.pid /\ started[s] < polled => SessionConn[s] = c

(* Resolve works for a connection of the snapshot, on behalf of the        *)
(* session that had it at the poll if that one lives.                      *)
AskedOK ==
    rpc # "idle" =>
        /\ pc = "loop"
        /\ conn \in Sessions /\ SessionConn[conn] \in todo
        /\ status[conn] # "new"
        /\ \A s \in Live :
              SessionConn[s] = SessionConn[conn] /\ started[s] < polled => s = conn

(* The enforcer works on a connection because of what Resolve answered: it *)
(* is not a recognised session for which its own record was found.         *)
AnsweredOK ==
    pc \in {"terminate", "signal"} =>
        /\ answer.kind \in {"ok", "error"}
        /\ answer.for \in Sessions /\ cur = SessionConn[answer.for]
        /\ status[answer.for] # "new"
        /\ \A s \in Live : SessionConn[s] = cur /\ started[s] < polled => s = answer.for
        /\ answer.kind = "ok" =>
              /\ answer.for \in Live => answer.for \in answer.holder
              /\ Recognised(answer.for) => answer.who # answer.for

DInv == SnapshotOK /\ AskedOK /\ AnsweredOK
-----------------------------------------------------------------------------
(* A daemon that begins has taken no snapshot and asked nothing.           *)
LEMMA DaemonInit == AugurInit => DInv
  BY DEF AugurInit, Init, R!Init, DInv, SnapshotOK, AskedOK, AnsweredOK, InScan

(* A session that starts or ends leaves a scan as it is: one that starts   *)
(* now did not start before the poll.                                      *)
LEMMA HostStep ==
    ASSUME RP!IInv, DInv, NEW s \in Sessions, Start(s) \/ End(s)
    PROVE  DInv'
<1>1. /\ UNCHANGED <<polled, now, pc, todo, cur, cfg, rpc, conn, answer>>
      /\ started' \in [Sessions -> Nat]
      /\ \A t \in Sessions : started'[t] = started[t] \/ (t = s /\ started'[t] = now)
      /\ \A t \in Sessions : status'[t] = "new" => status[t] = "new"
      /\ \A t \in Live' : \/ t \in Live /\ started'[t] = started[t]
                         \/ started'[t] = now
  BY HostFacts DEF Start, End, Connect, Disconnect, R!Start, R!Exit, R!resolver, daemon, Live
<1>2. polled \in Nat /\ polled <= now /\ now \in Nat
  BY HostFacts DEF DInv, SnapshotOK
<1>3. \A t \in Live' : started'[t] < polled => t \in Live /\ started[t] < polled
  BY <1>1, <1>2
<1>4. SnapshotOK'
  BY <1>1, <1>2, <1>3 DEF DInv, SnapshotOK, InScan, Pending
<1>5. AskedOK'
  BY <1>1, <1>3 DEF DInv, AskedOK
<1>6. AnsweredOK'
  <2> SUFFICES ASSUME pc \in {"terminate", "signal"} PROVE AnsweredOK'
    BY <1>1 DEF AnsweredOK
  <2>1. answer.for \in Live' => answer.for \in Live
    BY HostFacts DEF DInv, AnsweredOK, Start, End, R!Start, R!Exit, Live
  <2>2. Recognised(answer.for)' = Recognised(answer.for)
    BY <1>1 DEF Recognised
  <2> QED
    BY <1>1, <1>3, <2>1, <2>2 DEF DInv, AnsweredOK
<1> QED
  BY <1>4, <1>5, <1>6 DEF DInv

(* The poll: whoever has the pid of a connection of the snapshot now has   *)
(* that connection.                                                        *)
LEMMA PollStep ==
    ASSUME RP!IInv, DInv, Poll
    PROVE  DInv'
<1>1. /\ polled' = now /\ pc' = "loop" /\ todo' = Snapshot
      /\ UNCHANGED <<now, started, status, cur, rpc>>
      /\ pc = "scan"
  BY DEF Poll, Discover, resolver
<1>2. SnapshotOK'
  <2> SUFFICES ASSUME NEW c \in Snapshot, NEW t \in Live, SessionConn[t].pid = c.pid
               PROVE  SessionConn[t] = c
    BY <1>1, HostFacts DEF SnapshotOK, InScan, Pending, Live
  <2>1. PICK u \in Live : SessionConn[u] = c
    BY DEF Snapshot
  <2> QED
    BY <2>1, HostFacts
<1>3. AskedOK' /\ AnsweredOK'
  BY <1>1 DEF DInv, AskedOK, AnsweredOK
<1> QED
  BY <1>2, <1>3 DEF DInv

(* The other steps of the scan drop connections from it, and only when no  *)
(* Resolve is under way.                                                   *)
LEMMA ElsewhereStep ==
    ASSUME RP!IInv, DInv, Elsewhere
    PROVE  DInv'
<1>1. /\ UNCHANGED <<cfg, status, now, started, todo, rpc, conn, answer>>
      /\ Live' = Live
      /\ polled' = IF InScan' THEN polled ELSE 0
  BY DEF Elsewhere, resolver, DiscoverFails, TerminateFails, Verify, Signal, EndScan, Tick,
     Stop, Stopped, Cancel, daemon, vars, Live, InScan
<1>2. InScan' => InScan /\ Pending' \subseteq Pending
  BY DEF Elsewhere, DiscoverFails, TerminateFails, Verify, Signal, EndScan, Tick, Stop,
     Stopped, Cancel, vars, InScan, Pending
<1>3. pc' \in {"terminate", "signal"} => pc \in {"terminate", "signal"} /\ cur' = cur
  BY DEF Elsewhere, DiscoverFails, TerminateFails, Verify, Signal, EndScan, Tick, Stop,
     Stopped, Cancel, vars
<1>4. rpc # "idle" => pc' = "loop"
  BY DEF Elsewhere, DiscoverFails, TerminateFails, Verify, Signal, EndScan, Tick, Stop,
     Stopped, Cancel, vars, DInv, AskedOK
<1>5. SnapshotOK'
  BY <1>1, <1>2, HostFacts DEF DInv, SnapshotOK
<1>6. AskedOK'
  BY <1>1, <1>4 DEF DInv, AskedOK, InScan
<1>7. AnsweredOK'
  BY <1>1, <1>3 DEF DInv, AnsweredOK, InScan, Recognised
<1> QED
  BY <1>5, <1>6, <1>7 DEF DInv

(* Resolve is called, or goes on with the log it has read. *)
LEMMA AskStep ==
    ASSUME RP!IInv, DInv, NEW s \in Sessions, Ask(s)
    PROVE  DInv'
<1>1. UNCHANGED <<pc, todo, cur, cfg, status, now, started, polled>> /\ Live' = Live
  BY DEF Ask, Resolve, R!Resolve, R!ReadLog, R!host, vars, daemon, Live
<1>2. SnapshotOK'
  BY <1>1 DEF DInv, SnapshotOK, InScan, Pending
<1>3. pc = "loop"
  BY DEF Ask, Resolve, R!ReadLog, DInv, AskedOK
<1>4. AskedOK'
  <2>1. CASE Resolve(s)
    <3>1. rpc' # "idle" => conn' = s /\ status[s] # "new"
      BY <2>1 DEF Resolve, R!Resolve
    <3> QED
      BY <1>1, <2>1, <3>1 DEF Resolve, AskedOK
  <2>2. CASE conn = s /\ R!ReadLog
    BY <1>1, <2>2 DEF R!ReadLog, DInv, AskedOK
  <2> QED
    BY <2>1, <2>2 DEF Ask
<1>5. AnsweredOK'
  BY <1>1, <1>3 DEF AnsweredOK
<1> QED
  BY <1>2, <1>4, <1>5 DEF DInv

(* Resolve has answered and Scan judges the connection. *)
LEMMA JudgeStep ==
    ASSUME RP!IInv, DInv, NEW s \in Sessions, Judge(s)
    PROVE  DInv'
<1>1. /\ UNCHANGED <<cfg, status, now, started, polled>> /\ Live' = Live
      /\ rpc' = "idle"
  BY DEF Judge, Resolve, R!Resolve, R!LogFails, Lookup, R!NoRecord, R!ProcessStartFails,
     R!CompareStart, R!host, ExamineWith, daemon, Live
<1>2. /\ pc = "loop" /\ SessionConn[s] \in todo /\ todo' \subseteq todo
      /\ pc' \in {"terminate", "signal"} =>
            /\ pc' = "terminate" /\ cur' = SessionConn[s]
            /\ Terminable(cfg, SessionConn[s], Fingerprints(s))
      /\ pc' = "loop" \/ pc' = "terminate" \/ pc' = "wait"
  BY DEF Judge, ExamineWith
<1>3. SnapshotOK'
  BY <1>1, <1>2, HostFacts DEF DInv, SnapshotOK, InScan, Pending
<1>4. AskedOK'
  BY <1>1 DEF AskedOK
<1>5. /\ status[s] # "new"
      /\ \A t \in Live : SessionConn[t] = SessionConn[s] /\ started[t] < polled => t = s
  BY DEF Judge, Resolve, R!Resolve, R!LogFails, Lookup, R!NoRecord, R!ProcessStartFails,
     R!CompareStart, DInv, AskedOK
<1>6. /\ answer'.kind \in {"ok", "error"}
      /\ answer'.for = s
      /\ answer'.holder = R!Holder(SessionConn[s].pid)
  BY DEF Judge, Resolve, R!Resolve, R!LogFails, Lookup, R!NoRecord, R!ProcessStartFails,
     R!CompareStart, R!Return, R!Answer
<1>7. s \in Live => s \in answer'.holder
  BY <1>6 DEF R!Holder, R!Live, Live
<1>8. ASSUME Terminable(cfg, SessionConn[s], Fingerprints(s)),
             Recognised(s), answer'.kind = "ok", answer'.who = s
      PROVE  FALSE
  <2>1. Fingerprints(s) = SessionKeys[s]
    BY <1>8, ResolverConstants DEF Fingerprints
  <2> QED
    BY <1>8, <2>1 DEF Terminable, Recognised
<1>9. AnsweredOK'
  <2> SUFFICES ASSUME pc' \in {"terminate", "signal"} PROVE AnsweredOK'
    BY DEF AnsweredOK
  <2>1. Recognised(answer.for)' <=> Recognised(s)
    BY <1>1, <1>6 DEF Recognised
  <2> QED
    BY <1>1, <1>2, <1>5, <1>6, <1>7, <1>8, <2>1 DEF AnsweredOK
<1> QED
  BY <1>3, <1>4, <1>9 DEF DInv

(* Every step of the daemon keeps the invariant, given that of the resolver. *)
LEMMA DaemonInductive == RP!IInv /\ DInv /\ [AugurNext]_allVars => DInv'
<1> SUFFICES ASSUME RP!IInv, DInv, [AugurNext]_allVars PROVE DInv'
  OBVIOUS
<1>1. CASE ClockTick
  <2>1. /\ now' = now + 1
        /\ UNCHANGED <<cfg, pc, todo, cur, status, started, rpc, conn, answer, polled>>
        /\ Live' = Live
    BY <1>1 DEF ClockTick, R!Tick, R!resolver, vars, daemon, Live
  <2> QED
    BY <2>1, HostFacts DEF DInv, SnapshotOK, AskedOK, AnsweredOK, InScan, Pending, Recognised
<1>2. CASE RestartAll
  <2>1. /\ polled' = 0 /\ pc' = "scan" /\ rpc' = "idle" /\ now' = now
    BY <1>2 DEF RestartAll, Restart, R!Restart, R!host
  <2> QED
    BY <2>1, HostFacts DEF DInv, SnapshotOK, AskedOK, AnsweredOK, InScan
<1>3. ASSUME NEW s \in Sessions, Authenticate(s) PROVE DInv'
  <2>1. UNCHANGED <<cfg, pc, todo, cur, status, started, now, rpc, conn, answer, polled>>
        /\ Live' = Live
    BY <1>3 DEF Authenticate, R!Authenticate, R!resolver, vars, daemon, Live
  <2> QED
    BY <2>1 DEF DInv, SnapshotOK, AskedOK, AnsweredOK, InScan, Pending, Recognised
<1>4. CASE UNCHANGED allVars
  <2>1. UNCHANGED <<cfg, pc, todo, cur, status, started, now, rpc, conn, answer, polled>>
        /\ Live' = Live
    BY <1>4 DEF allVars, vars, daemon, resolver, Live
  <2> QED
    BY <2>1 DEF DInv, SnapshotOK, AskedOK, AnsweredOK, InScan, Pending, Recognised
<1> QED
  BY <1>1, <1>2, <1>3, <1>4, HostStep, PollStep, ElsewhereStep, AskStep, JudgeStep
  DEF AugurNext

(* At the signal, what the resolver guarantees of its answer excuses the   *)
(* daemon.                                                                 *)
LEMMA OnlyFor == RP!IInv /\ DInv => RecognisedKilledOnlyFor
<1> SUFFICES ASSUME RP!IInv, DInv, pc = "signal",
                    NEW s \in LiveAt(cur), Recognised(s)
             PROVE  IF answer.for = s THEN Excused(s) ELSE started[s] >= polled
  BY DEF RecognisedKilledOnlyFor
<1>1. s \in Live /\ s \in Sessions /\ SessionConn[s].pid = cur.pid
  BY DEF LiveAt, SameSocket, Live
<1>2. started[s] \in Nat /\ polled \in Nat
  BY <1>1, HostFacts DEF DInv, SnapshotOK
<1>3. CASE answer.for # s
  <2>1. ~(started[s] < polled)
    BY <1>1, <1>3 DEF DInv, SnapshotOK, AnsweredOK, InScan, Pending
  <2> QED
    BY <1>2, <1>3, <2>1
<1>4. CASE answer.for = s /\ answer.kind = "ok"
  <2>1. RP!AnsweredFor(s) /\ answer.who # s
    BY <1>1, <1>4 DEF DInv, AnsweredOK, RP!AnsweredFor
  <2>2. RP!SameForm(s) <=> R!SameForm(s)
    BY DEF R!SameForm, RP!SameForm, R!LookupKey, RP!LookupKey, R!RecordKey, RP!RecordKey,
       R!sessionKey, RP!sessionKey, R!Unmap, RP!Unmap
  <2>3. R!SameForm(s) => s \notin seen
    BY <1>1, <2>1, <2>2 DEF RP!IInv, RP!KnownStaysKnown
  <2>4. R!SameForm(s) /\ authed[s] # R!Never =>
           ~(authed[s] + TicksPerSecond <= answer.begun /\ answer.at <= authed[s] + Window)
    BY <1>1, <2>1, <2>2 DEF RP!IInv, RP!FoundAfterASecond, R!Never, RP!Never
  <2>5. authed[s] \in Nat /\ answer.begun \in Nat /\ answer.at \in Nat
    BY <1>1, <1>4 DEF RP!IInv, RP!TypeOK, RP!AnswerOK
  <2> QED
    BY <1>4, <2>3, <2>4, <2>5, ResolverConstants DEF Excused
<1>5. CASE answer.for = s /\ answer.kind = "error"
  BY <1>5 DEF Excused
<1> QED
  BY <1>3, <1>4, <1>5 DEF DInv, AnsweredOK

(* A recognised session is signalled only when the answer about it was an  *)
(* error, when it had not authenticated a second before Resolve was called *)
(* or is no longer in the log, or when it took over the pid and the socket *)
(* of the one that was judged after the poll.                              *)
THEOREM DaemonExcused == AugurSpec => []RecognisedKilledOnlyFor
<1> QED
  BY OnlyFor, DaemonInit, DaemonInductive, ResolverInvariant, PTL DEF AugurSpec
=============================================================================
