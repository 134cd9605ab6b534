--------------------------- MODULE IdentityProofs ---------------------------
(***************************************************************************)
(* Proofs about the identity resolver, for every set of sessions, clock    *)
(* resolution and log window.  A record of a living session is the last    *)
(* one of its pid in the log, because the pid is not used again before the *)
(* session ends; so no later refresh replaces it, and no earlier record    *)
(* can be inside the window when it is not.                                *)
(***************************************************************************)
EXTENDS IdentityResolver, Places, SequenceTheorems, TLAPS

Pid(s) == SessionConn[s].pid

(* Live sessions have different pids; a session starts before it can       *)
(* authenticate.                                                           *)
HostOK ==
    /\ \A s, t \in Live : Pid(s) = Pid(t) => s = t
    /\ \A s \in Sessions : status[s] = "new" => authed[s] = Never
    /\ \A s \in Sessions : authed[s] # Never => started[s] <= authed[s]
    /\ \A s \in Sessions : authed[s] <= now /\ started[s] <= now

(* The log holds the authenticated sessions in the order of time, and the  *)
(* record of a living session is the last one of its pid.                  *)
LogOK ==
    /\ \A s \in Sessions : authed[s] # Never <=> \E i \in DOMAIN log : log[i] = s
    /\ \A i, j \in DOMAIN log : i <= j => authed[log[i]] <= authed[log[j]]
    /\ \A i, j \in DOMAIN log : i < j /\ Pid(log[i]) = Pid(log[j]) => log[i] \notin Live

(* The map holds records under their own key. *)
MapOK ==
    \A k \in Keys : identities[k] # Nobody =>
        /\ identities[k] \in Sessions
        /\ RecordKey(identities[k]) = k
        /\ authed[identities[k]] # Never

(* What was read of a living session is still in the map. *)
SeenOK ==
    \A s \in seen :
        /\ authed[s] # Never
        /\ s \in Live => identities[RecordKey(s)] = s

(* After a refresh without an error, what was logged before it and is in   *)
(* the window was read.                                                    *)
RefreshOK ==
    /\ lastRefresh <= now
    /\ lastRefresh # Never /\ ~lastError /\ pc # "read" =>
          \A s \in Sessions :
              authed[s] # Never /\ authed[s] < lastRefresh /\ now <= authed[s] + Window
              => s \in seen

(* A lookup follows a refresh that is less than a second older than it. *)
CallOK ==
    /\ pc # "idle" => conn \in Sessions /\ answer.kind = "none" /\ begun <= now
    /\ pc = "read" => lastRefresh # Never /\ begun <= lastRefresh
    /\ pc = "lookup" => /\ ~lastError /\ lastRefresh # Never
                        /\ begun < lastRefresh + TicksPerSecond

(* An answer describes a moment that has passed. *)
AnswerOK ==
    answer.kind = "ok" =>
        /\ answer.for \in Sessions
        /\ answer.begun \in Nat /\ answer.at \in Nat
        /\ answer.begun <= answer.at /\ answer.at <= now
        /\ answer.holder \subseteq {s \in Sessions : status[s] # "new"}
        /\ answer.who # Nobody => answer.who \in Sessions /\ authed[answer.who] # Never

(* The inductive invariant. *)
IInv ==
    /\ TypeOK
    /\ HostOK
    /\ LogOK
    /\ MapOK
    /\ SeenOK
    /\ RefreshOK
    /\ CallOK
    /\ AnswerOK
    /\ IdentityIsOwn
    /\ KnownStaysKnown
    /\ FoundAfterASecond
-----------------------------------------------------------------------------
(* The second in which a moment falls does not come after it. *)
LEMMA TruncateBound ==
    ASSUME NEW t \in Nat
    PROVE  Truncate(t) \in Nat /\ Truncate(t) <= t
  BY ClockOK DEF Truncate

(* Records with the same key are of the same pid. *)
LEMMA KeyPid ==
    ASSUME NEW s, NEW t, RecordKey(s) = RecordKey(t)
    PROVE  Pid(s) = Pid(t)
  BY DEF RecordKey, sessionKey, Pid

(* After a refresh the map has, for every living session that it has read  *)
(* now or before, that session's own record.                               *)
LEMMA MergeKeepsLiving ==
    ASSUME TypeOK, HostOK, LogOK, SeenOK,
           NEW s \in Live,
           s \in seen \cup {log[i] : i \in InLog}
    PROVE  authed[s] # Never /\ Merged[RecordKey(s)] = s
<1> DEFINE k == RecordKey(s)
<1>1. s \in Sessions /\ k \in Keys
  BY DEF Live, Keys
<1>2. authed[s] # Never
  BY <1>1 DEF SeenOK, InLog, LogOK
<1>3. PICK i \in DOMAIN log : log[i] = s
  BY <1>1, <1>2 DEF LogOK
<1>4. CASE Records(k) = {}
  <2>1. i \notin InLog
    BY <1>3, <1>4 DEF Records
  <2>2. s \in seen
    <3> SUFFICES ASSUME NEW j \in InLog, log[j] = s PROVE FALSE
      BY <2>1
    <3> QED
      BY <1>4 DEF Records
  <2> QED
    BY <1>1, <1>2, <1>4, <2>2 DEF SeenOK, Merged
<1>5. CASE Records(k) # {}
  <2> DEFINE m == Max(Records(k))
  <2>1. Len(log) \in Nat /\ DOMAIN log = 1..Len(log)
    BY DEF TypeOK
  <2>2. m \in Records(k) /\ \A j \in Records(k) : j <= m
    <3>1. Records(k) \in SUBSET (1..Len(log))
      BY <2>1 DEF Records, InLog
    <3> QED
      BY <1>5, <2>1, <3>1, MaxOfPlaces
  <2>3. m \in DOMAIN log /\ m \in InLog /\ RecordKey(log[m]) = k
    BY <2>2 DEF Records, InLog
  <2>4. Pid(log[m]) = Pid(log[i])
    BY <1>3, <2>3, KeyPid
  <2>5. ~(i < m)
    BY <1>3, <2>3, <2>4 DEF LogOK
  <2>6. ~(m < i)
    <3> SUFFICES ASSUME m < i PROVE FALSE
      OBVIOUS
    <3>1. i \notin Records(k)
      BY <2>1, <2>2, <2>3
    <3>2. ~(now <= authed[s] + Window)
      BY <1>3, <3>1 DEF Records, InLog
    <3>3. now <= authed[log[m]] + Window
      BY <2>3 DEF InLog
    <3>4. authed[log[m]] <= authed[s]
      BY <1>3, <2>1, <2>3 DEF LogOK
    <3>5. log[m] \in Sessions
      BY <2>1, <2>3 DEF TypeOK
    <3>6. authed[s] \in Nat /\ authed[log[m]] \in Nat /\ now \in Nat
      BY <1>1, <3>5, ClockOK DEF TypeOK
    <3> HIDE DEF m
    <3> QED
      BY <3>2, <3>3, <3>4, <3>6, ClockOK
  <2>7. m = i
    BY <2>1, <2>3, <2>5, <2>6
  <2> QED
    BY <1>1, <1>2, <1>3, <1>5, <2>7 DEF Merged
<1> QED
  BY <1>4, <1>5
(* What the merged map holds is a record of the log or an older entry.     *)
LEMMA MergedOK ==
    ASSUME TypeOK, LogOK, MapOK, NEW k \in Keys
    PROVE  /\ Merged[k] \in Sessions \cup {Nobody}
           /\ Merged[k] # Nobody => /\ Merged[k] \in Sessions
                                    /\ RecordKey(Merged[k]) = k
                                    /\ authed[Merged[k]] # Never
<1>1. CASE Records(k) = {}
  BY <1>1 DEF Merged, MapOK, TypeOK
<1>2. CASE Records(k) # {}
  <2>1. Len(log) \in Nat /\ Records(k) \in SUBSET (1..Len(log))
    BY DEF TypeOK, Records, InLog
  <2>2. Max(Records(k)) \in Records(k)
    BY <1>2, <2>1, MaxOfPlaces
  <2>3. /\ log[Max(Records(k))] \in Sessions
        /\ RecordKey(log[Max(Records(k))]) = k
        /\ Max(Records(k)) \in DOMAIN log
    BY <2>1, <2>2 DEF TypeOK, Records, InLog
  <2> QED
    BY <1>2, <2>3 DEF Merged, LogOK
<1> QED
  BY <1>1, <1>2

(* A lookup that finds something finds a record of the right key; and one  *)
(* for a living session that was read, or that authenticated a second      *)
(* before the call and is in the window, finds that session's own.         *)
LEMMA LookupFinds ==
    ASSUME IInv, pc = "lookup", NEW s \in Live, s = conn, SameForm(s),
           \/ s \in seen
           \/ /\ authed[s] # Never
              /\ authed[s] + TicksPerSecond <= begun
              /\ now <= authed[s] + Window
    PROVE  identities[LookupKey(s)] = s /\ authed[s] # Never
<1>1. s \in Sessions /\ authed[s] \in Nat /\ lastRefresh \in Nat /\ begun \in Nat
  BY DEF Live, IInv, TypeOK
<1>2. s \in seen
  BY <1>1, ClockOK DEF IInv, CallOK, RefreshOK
<1> QED
  BY <1>2 DEF IInv, SeenOK, SameForm

(* The invariant is inductive. *)
LEMMA InductiveInvariant == IInv /\ [Next]_vars => IInv'
<1> SUFFICES ASSUME IInv, [Next]_vars PROVE IInv'
  OBVIOUS
<1> USE ClockOK
<1> USE DEF IInv
<1>1. CASE Tick
  <2> USE <1>1 DEF Tick, TypeOK, resolver
  <2>1. TypeOK' /\ HostOK'
    BY DEF HostOK, Live
  <2>2. LogOK' /\ MapOK' /\ SeenOK'
    BY DEF LogOK, MapOK, SeenOK, Live
  <2>3. RefreshOK' /\ CallOK'
    BY DEF RefreshOK, CallOK
  <2>4. AnswerOK' /\ IdentityIsOwn' /\ KnownStaysKnown' /\ FoundAfterASecond'
    BY DEF AnswerOK, IdentityIsOwn, KnownStaysKnown, FoundAfterASecond, AnsweredFor
  <2> QED
    BY <2>1, <2>2, <2>3, <2>4
<1>2. ASSUME NEW s \in Sessions, Start(s) PROVE IInv'
  <2> USE <1>2 DEF Start, TypeOK, resolver
  <2>1. TypeOK'
    OBVIOUS
  <2>2. authed[s] = Never /\ Live' = Live \cup {s}
    BY DEF HostOK, Live
  <2>3. \A t \in Live : Pid(t) # Pid(s)
    BY DEF Holder, Pid
  <2>4. HostOK'
    <3>1. \A t, u \in Live' : Pid(t) = Pid(u) => t = u
      BY <2>2, <2>3 DEF HostOK, Pid
    <3> QED
      BY <2>2, <3>1 DEF HostOK, Never
  <2>5. LogOK'
    <3>1. \A i \in DOMAIN log : log[i] # s
      BY <2>2 DEF LogOK
    <3> QED
      BY <2>2, <3>1 DEF LogOK, Pid
  <2>6. MapOK' /\ RefreshOK' /\ CallOK'
    BY DEF MapOK, RefreshOK, CallOK
  <2>7. SeenOK'
    BY <2>2 DEF SeenOK
  <2>8. AnswerOK'
    BY DEF AnswerOK
  <2>9. IdentityIsOwn'
    BY DEF AnswerOK, IdentityIsOwn, AnsweredFor
  <2>10. KnownStaysKnown' /\ FoundAfterASecond'
    BY DEF KnownStaysKnown, FoundAfterASecond, AnsweredFor
  <2> QED
    BY <2>1, <2>4, <2>5, <2>6, <2>7, <2>8, <2>9, <2>10
<1>3. ASSUME NEW s \in Sessions, Authenticate(s) PROVE IInv'
  <2> USE <1>3 DEF Authenticate, resolver
  <2>1. TypeOK'
    BY DEF TypeOK
  <2>2. authed[s] = Never /\ s \in Live /\ Live' = Live
    BY DEF Live
  <2>3. /\ authed' \in [Sessions -> Nat]
        /\ authed'[s] = now /\ now \in Nat \ {0}
        /\ \A t \in Sessions \ {s} : authed'[t] = authed[t]
    BY DEF TypeOK
  <2>4. HostOK'
    BY <2>2, <2>3 DEF HostOK, TypeOK, Live
  <2>5. LogOK'
    <3>1. /\ Len(log) \in Nat /\ DOMAIN log = 1..Len(log)
          /\ DOMAIN log' = 1..(Len(log) + 1)
          /\ \A i \in DOMAIN log : log'[i] = log[i] /\ log[i] \in Sessions
          /\ log'[Len(log) + 1] = s
      <4>1. log \in Seq(Sessions) /\ log' = Append(log, s)
        BY DEF TypeOK
      <4> QED
        BY <4>1, AppendProperties, LenProperties, ElementOfSeq
    <3>2. \A i \in DOMAIN log : log[i] # s
      BY <2>2 DEF LogOK
    <3>3. \A t \in Sessions : authed'[t] # Never <=> \E i \in DOMAIN log' : log'[i] = t
      <4>1. ASSUME NEW t \in Sessions, t # s
            PROVE  (\E i \in DOMAIN log' : log'[i] = t) <=> \E i \in DOMAIN log : log[i] = t
        BY <3>1, <4>1
      <4>2. \E i \in DOMAIN log' : log'[i] = s
        BY <3>1
      <4> QED
        BY <2>3, <4>1, <4>2 DEF LogOK, Never
    <3>4. \A i, j \in DOMAIN log' : i <= j => authed'[log'[i]] <= authed'[log'[j]]
      <4> SUFFICES ASSUME NEW i \in DOMAIN log', NEW j \in DOMAIN log', i <= j
                   PROVE  authed'[log'[i]] <= authed'[log'[j]]
        OBVIOUS
      <4>1. CASE j \in DOMAIN log
        <5>1. i \in DOMAIN log
          BY <3>1, <4>1
        <5> QED
          BY <2>3, <3>1, <3>2, <4>1, <5>1 DEF LogOK
      <4>2. CASE j = Len(log) + 1
        <5>1. authed'[log'[j]] = now
          BY <2>3, <3>1, <4>2
        <5>2. log'[i] \in Sessions /\ authed'[log'[i]] <= now
          <6>1. CASE i \in DOMAIN log
            BY <2>3, <3>1, <3>2, <6>1 DEF HostOK
          <6>2. CASE i = Len(log) + 1
            BY <2>3, <3>1, <6>2
          <6> QED
            BY <3>1, <6>1, <6>2
        <5> QED
          BY <5>1, <5>2
      <4> QED
        BY <3>1, <4>1, <4>2
    <3>5. \A i, j \in DOMAIN log' :
             i < j /\ Pid(log'[i]) = Pid(log'[j]) => log'[i] \notin Live'
      <4> SUFFICES ASSUME NEW i \in DOMAIN log', NEW j \in DOMAIN log',
                          i < j, Pid(log'[i]) = Pid(log'[j])
                   PROVE  log'[i] \notin Live
        BY <2>2
      <4>1. i \in DOMAIN log
        BY <3>1
      <4>2. CASE j \in DOMAIN log
        BY <3>1, <4>1, <4>2 DEF LogOK
      <4>3. CASE j = Len(log) + 1
        BY <2>2, <3>1, <3>2, <4>1, <4>3 DEF HostOK
      <4> QED
        BY <3>1, <4>2, <4>3
    <3> QED
      BY <3>3, <3>4, <3>5, <2>2 DEF LogOK, Pid
  <2>6. MapOK' /\ SeenOK'
    BY <2>2, <2>3 DEF MapOK, SeenOK, TypeOK, Never
  <2>7. RefreshOK'
    BY <2>3 DEF RefreshOK, TypeOK
  <2>8. CallOK'
    BY DEF CallOK
  <2>9. AnswerOK'
    BY <2>3 DEF AnswerOK, Never
  <2>10. IdentityIsOwn'
    BY <2>3 DEF AnswerOK, IdentityIsOwn, AnsweredFor, TypeOK
  <2>11. KnownStaysKnown'
    BY DEF KnownStaysKnown, AnsweredFor
  <2>12. FoundAfterASecond'
    BY <2>3 DEF FoundAfterASecond, AnsweredFor, AnswerOK, TypeOK
  <2> QED
    BY <2>1, <2>4, <2>5, <2>6, <2>7, <2>8, <2>9, <2>10, <2>11, <2>12
<1>4. ASSUME NEW s \in Sessions, Exit(s) PROVE IInv'
  <2> USE <1>4 DEF Exit, TypeOK, resolver
  <2>1. TypeOK'
    OBVIOUS
  <2>2. Live' = Live \ {s}
    BY DEF Live
  <2>3. HostOK' /\ LogOK' /\ SeenOK'
    BY <2>2 DEF HostOK, LogOK, SeenOK, Pid
  <2>4. MapOK' /\ RefreshOK' /\ CallOK'
    BY DEF MapOK, RefreshOK, CallOK
  <2>5. AnswerOK' /\ IdentityIsOwn' /\ KnownStaysKnown' /\ FoundAfterASecond'
    BY DEF AnswerOK, IdentityIsOwn, KnownStaysKnown, FoundAfterASecond, AnsweredFor
  <2> QED
    BY <2>1, <2>3, <2>4, <2>5
<1>5. ASSUME NEW s \in Sessions, Resolve(s) PROVE IInv'
  <2> USE <1>5 DEF Resolve, Answer, NoAnswer, host
  <2>1. TypeOK'
    BY DEF TypeOK
  <2>2. HostOK' /\ LogOK' /\ MapOK' /\ SeenOK'
    BY DEF HostOK, LogOK, MapOK, SeenOK, Live
  <2>3. RefreshOK'
    BY DEF RefreshOK, TypeOK
  <2>4. CallOK'
    BY DEF CallOK, TypeOK, Throttled, Never
  <2>5. AnswerOK' /\ IdentityIsOwn' /\ KnownStaysKnown' /\ FoundAfterASecond'
    BY DEF AnswerOK, IdentityIsOwn, KnownStaysKnown, FoundAfterASecond, AnsweredFor
  <2> QED
    BY <2>1, <2>2, <2>3, <2>4, <2>5
<1>6. CASE Restart
  <2> USE <1>6 DEF Restart, NoAnswer, host
  <2>1. TypeOK'
    <3>1. identities' \in [Keys -> Sessions \cup {Nobody}]
      OBVIOUS
    <3>2. answer'.kind = "none" /\ 0 \in 0..MaxTime
      OBVIOUS
    <3> QED
      BY <3>1, <3>2 DEF TypeOK, Never
  <2>2. HostOK' /\ LogOK' /\ MapOK' /\ SeenOK'
    BY DEF HostOK, LogOK, MapOK, SeenOK, Live
  <2>3. RefreshOK' /\ CallOK'
    BY DEF RefreshOK, CallOK, Never, TypeOK
  <2>4. AnswerOK' /\ IdentityIsOwn' /\ KnownStaysKnown' /\ FoundAfterASecond'
    BY DEF AnswerOK, IdentityIsOwn, KnownStaysKnown, FoundAfterASecond, AnsweredFor
  <2> QED
    BY <2>1, <2>2, <2>3, <2>4
<1>7. CASE LogFails
  <2> USE <1>7 DEF LogFails, Return, Answer, host
  <2>1. TypeOK'
    BY DEF TypeOK
  <2>2. HostOK' /\ LogOK' /\ MapOK' /\ SeenOK'
    BY DEF HostOK, LogOK, MapOK, SeenOK, Live
  <2>3. RefreshOK' /\ CallOK'
    BY DEF RefreshOK, CallOK
  <2>4. AnswerOK' /\ IdentityIsOwn' /\ KnownStaysKnown' /\ FoundAfterASecond'
    BY DEF AnswerOK, IdentityIsOwn, KnownStaysKnown, FoundAfterASecond, AnsweredFor
  <2> QED
    BY <2>1, <2>2, <2>3, <2>4
<1>8. CASE ReadLog
  <2> USE <1>8 DEF ReadLog, host
  <2>1. \A i \in InLog : i \in DOMAIN log /\ log[i] \in Sessions
    BY DEF InLog, TypeOK
  <2>2. TypeOK'
    <3>1. identities' \in [Keys -> Sessions \cup {Nobody}]
      <4>1. \A k \in Keys : Merged[k] \in Sessions \cup {Nobody}
        BY MergedOK
      <4> QED
        BY <4>1 DEF Merged
    <3>2. seen' \subseteq Sessions
      BY <2>1 DEF TypeOK
    <3> QED
      BY <3>1, <3>2 DEF TypeOK
  <2>3. HostOK' /\ LogOK'
    BY DEF HostOK, LogOK, Live
  <2>4. MapOK'
    BY MergedOK DEF MapOK
  <2>5. SeenOK'
    <3> SUFFICES ASSUME NEW t \in seen'
                 PROVE  authed[t] # Never /\ (t \in Live => Merged[RecordKey(t)] = t)
      BY DEF SeenOK, Live
    <3>1. authed[t] # Never
      BY <2>1 DEF SeenOK, LogOK
    <3> QED
      BY <3>1, MergeKeepsLiving
  <2>6. RefreshOK'
    <3> SUFFICES ASSUME NEW t \in Sessions, authed[t] # Never, now <= authed[t] + Window
                 PROVE  t \in seen'
      BY DEF RefreshOK
    <3>1. PICK i \in DOMAIN log : log[i] = t
      BY DEF LogOK
    <3> QED
      BY <3>1 DEF InLog
  <2>7. CallOK'
    BY DEF CallOK, TypeOK
  <2>8. AnswerOK' /\ IdentityIsOwn' /\ KnownStaysKnown' /\ FoundAfterASecond'
    BY DEF CallOK, AnswerOK, IdentityIsOwn, KnownStaysKnown, FoundAfterASecond, AnsweredFor
  <2> QED
    BY <2>2, <2>3, <2>4, <2>5, <2>6, <2>7, <2>8
<1>9. CASE NoRecord
  <2> USE <1>9 DEF NoRecord, Return, Answer, host
  <2>1. TypeOK'
    BY DEF TypeOK
  <2>2. HostOK' /\ LogOK' /\ MapOK' /\ SeenOK'
    BY DEF HostOK, LogOK, MapOK, SeenOK, Live
  <2>3. RefreshOK' /\ CallOK'
    BY DEF RefreshOK, CallOK
  <2>4. AnswerOK' /\ IdentityIsOwn'
    BY DEF AnswerOK, IdentityIsOwn, AnsweredFor, CallOK, TypeOK, Holder, Live
  <2>5. \A t \in Sessions : AnsweredFor(t)' => t = conn /\ t \in Live
    BY DEF AnsweredFor, Holder
  <2>6. KnownStaysKnown' /\ FoundAfterASecond'
    BY <2>5, LookupFinds DEF KnownStaysKnown, FoundAfterASecond, SameForm
  <2> QED
    BY <2>1, <2>2, <2>3, <2>4, <2>6
<1>10. CASE ProcessStartFails
  <2> USE <1>10 DEF ProcessStartFails, Return, Answer, host
  <2>1. TypeOK'
    BY DEF TypeOK
  <2>2. HostOK' /\ LogOK' /\ MapOK' /\ SeenOK'
    BY DEF HostOK, LogOK, MapOK, SeenOK, Live
  <2>3. RefreshOK' /\ CallOK'
    BY DEF RefreshOK, CallOK
  <2>4. AnswerOK' /\ IdentityIsOwn' /\ KnownStaysKnown' /\ FoundAfterASecond'
    BY DEF AnswerOK, IdentityIsOwn, KnownStaysKnown, FoundAfterASecond, AnsweredFor
  <2> QED
    BY <2>1, <2>2, <2>3, <2>4
<1>11. CASE CompareStart
  <2> DEFINE record == identities[LookupKey(conn)]
  <2>1. conn \in Sessions /\ LookupKey(conn) \in Keys
    BY <1>11 DEF CompareStart, CallOK, Keys
  <2>2. record \in Sessions /\ RecordKey(record) = LookupKey(conn) /\ authed[record] # Never
    BY <1>11, <2>1 DEF CompareStart, MapOK
  <2>3. PICK holder \in Holder(SessionConn[conn].pid) :
           answer' = Answer(conn, begun, "ok", IF authed[record] < Truncate(started[holder])
                                               THEN Nobody ELSE record)
    BY <1>11 DEF CompareStart, Return
  <2> HIDE DEF record
  <2>4. holder \in Live /\ Pid(holder) = Pid(conn)
    BY <2>3 DEF Holder, Pid
  <2>5. \A t \in Sessions : AnsweredFor(t)' => t = conn /\ t \in Live /\ t = holder
    BY <2>3, <2>4 DEF AnsweredFor, Answer, Holder, HostOK, Pid
  <2>6. /\ \A t \in Sessions : authed[t] \in Nat /\ started[t] \in Nat
        /\ \A t \in Sessions : Truncate(started[t]) \in Nat /\ Truncate(started[t]) <= started[t]
    <3>1. \A t \in Sessions : authed[t] \in Nat /\ started[t] \in Nat
      BY DEF TypeOK
    <3> QED
      BY <3>1, TruncateBound
  <2> USE <1>11 DEF CompareStart, Return, host
  <2>7. TypeOK'
    <3>1. answer'.kind = "ok"
      BY <2>3 DEF Answer
    <3> QED
      BY <3>1 DEF TypeOK
  <2>8. HostOK' /\ LogOK' /\ MapOK' /\ SeenOK'
    BY DEF HostOK, LogOK, MapOK, SeenOK, Live
  <2>9. RefreshOK' /\ CallOK'
    BY DEF RefreshOK, CallOK
  <2>10. AnswerOK'
    BY <2>1, <2>2, <2>3 DEF AnswerOK, Answer, CallOK, TypeOK, Holder, Live
  <2>11. IdentityIsOwn'
    <3> SUFFICES ASSUME NEW t \in Sessions, AnsweredFor(t)', answer'.who # Nobody
                 PROVE  /\ RecordKey(answer'.who) = LookupKey(t)
                        /\ authed[answer'.who] >= Truncate(started[t])
      BY DEF IdentityIsOwn, Truncate
    <3>1. answer'.who = record /\ ~(authed[record] < Truncate(started[holder]))
      BY <2>3 DEF Answer
    <3> QED
      BY <2>2, <2>5, <2>6, <3>1
  <2>12. ASSUME NEW t \in Live, t = conn, t = holder, record = t, authed[t] # Never
         PROVE  answer'.who = t
    <3>1. started[t] <= authed[t] /\ t \in Sessions
      BY <2>12 DEF HostOK, Live
    <3> QED
      BY <2>3, <2>6, <2>12, <3>1 DEF Answer
  <2>13. KnownStaysKnown'
    BY <2>5, <2>12, LookupFinds DEF KnownStaysKnown, SameForm, record
  <2>14. FoundAfterASecond'
    BY <2>3, <2>5, <2>12, LookupFinds DEF FoundAfterASecond, SameForm, record, Answer
  <2> QED
    BY <2>7, <2>8, <2>9, <2>10, <2>11, <2>13, <2>14
<1>12. CASE UNCHANGED vars
  <2> USE <1>12 DEF vars
  <2>1. TypeOK' /\ HostOK' /\ LogOK' /\ MapOK' /\ SeenOK'
    BY DEF TypeOK, HostOK, LogOK, MapOK, SeenOK, Live
  <2>2. RefreshOK' /\ CallOK'
    BY DEF RefreshOK, CallOK
  <2>3. AnswerOK' /\ IdentityIsOwn' /\ KnownStaysKnown' /\ FoundAfterASecond'
    BY DEF AnswerOK, IdentityIsOwn, KnownStaysKnown, FoundAfterASecond, AnsweredFor
  <2> QED
    BY <2>1, <2>2, <2>3
<1> QED
  BY <1>1, <1>2, <1>3, <1>4, <1>5, <1>6, <1>7, <1>8, <1>9, <1>10, <1>11, <1>12 DEF Next

(* The invariant of the resolver holds throughout.                         *)
LEMMA Invariance == Spec => []IInv
<1>1. Init => IInv
  <2> SUFFICES ASSUME Init PROVE IInv
    OBVIOUS
  <2> USE ClockOK DEF Init, NoAnswer, Never
  <2>1. TypeOK
    <3>1. log \in Seq(Sessions) /\ answer.kind = "none"
      OBVIOUS
    <3>2. identities \in [Keys -> Sessions \cup {Nobody}]
      OBVIOUS
    <3>3. authed \in [Sessions -> 0..MaxTime] /\ started \in [Sessions -> 0..MaxTime]
      OBVIOUS
    <3>4. now \in 1..MaxTime /\ lastRefresh \in 0..MaxTime /\ begun \in 0..MaxTime
      OBVIOUS
    <3>5. status \in [Sessions -> {"new", "live", "gone"}]
      OBVIOUS
    <3>6. lastError \in BOOLEAN /\ pc = "idle" /\ conn = Nobody /\ seen = {}
      OBVIOUS
    <3> QED
      BY <3>1, <3>2, <3>3, <3>4, <3>5, <3>6 DEF TypeOK
  <2>2. HostOK /\ LogOK /\ MapOK /\ SeenOK
    BY DEF HostOK, LogOK, MapOK, SeenOK, Live
  <2>3. RefreshOK /\ CallOK /\ AnswerOK
    BY DEF RefreshOK, CallOK, AnswerOK
  <2>4. IdentityIsOwn /\ KnownStaysKnown /\ FoundAfterASecond
    BY DEF IdentityIsOwn, KnownStaysKnown, FoundAfterASecond, AnsweredFor
  <2> QED
    BY <2>1, <2>2, <2>3, <2>4 DEF IInv
<1> QED
  BY <1>1, InductiveInvariant, PTL DEF Spec
-----------------------------------------------------------------------------
(* Type correctness. *)
THEOREM TypeCorrect == Spec => []TypeOK
<1>1. IInv => TypeOK
  BY DEF IInv
<1> QED
  BY <1>1, Invariance, PTL

(* The key of another session is attributed to a connection only within    *)
(* the second in which its process started, whatever pids are recycled and *)
(* whatever happens between the log and ps.                                *)
THEOREM IdentityIsOwnTheorem == Spec => []IdentityIsOwn
<1>1. IInv => IdentityIsOwn
  BY DEF IInv
<1> QED
  BY <1>1, Invariance, PTL

(* A key that was read once is known as long as its session lives. *)
THEOREM KnownStaysKnownTheorem == Spec => []KnownStaysKnown
<1>1. IInv => KnownStaysKnown
  BY DEF IInv
<1> QED
  BY <1>1, Invariance, PTL

(* The throttle hides an authentication for a second at most. *)
THEOREM FoundAfterASecondTheorem == Spec => []FoundAfterASecond
<1>1. IInv => FoundAfterASecond
  BY DEF IInv
<1> QED
  BY <1>1, Invariance, PTL
=============================================================================
