----------------------------- MODULE TreeProofs ------------------------------
(***************************************************************************)
(* Proofs about TreeTerminator, for every host: any processes, any pids,   *)
(* any forest, forks, exits and, where it matters, any recycling of pids.  *)
(*                                                                         *)
(* The activations of terminateTree are on different pids, all of them     *)
(* marked but one that has just been entered, and none of them signalled;  *)
(* every marked pid is on the stack or signalled.  So no pid is signalled  *)
(* twice, and the root, at the bottom, last.  If no pid is recycled the    *)
(* stack is a path of the tree of processes; the tree has no cycle, so a   *)
(* child that is passed over has been signalled and is not an ancestor.    *)
(***************************************************************************)
EXTENDS TreeTerminator, SequenceTheorems, TLAPS

(* No two living processes have one pid. *)
HostOK == \A q, r \in Alive : PidOf[q] = PidOf[r] => q = r

(* Where the walk is, from the position in the code. *)
WalkOK ==
    outcome = "none" =>
        /\ pc \in {"command", "verify"} =>
              stack = << >> /\ visited = {} /\ sent = << >> /\ signalled = {}
        /\ pc \notin {"command", "verify"} => stack # << >> /\ stack[1].pid = RootPid
        /\ pc \in {"recheck command", "recheck verify"} => Len(stack) = 1
        /\ pc \in {"recheck command", "recheck verify", "signal"} =>
              stack[Len(stack)].left = {}

(* The activations are on different pids, which are marked except for the  *)
(* one that has just been entered.                                         *)
MarkedOK ==
    outcome = "none" =>
        /\ \A i \in DOMAIN stack :
              stack[i].pid \in visited <=> ~(i = Len(stack) /\ pc = "list")
        /\ \A i, j \in DOMAIN stack : stack[i].pid = stack[j].pid => i = j

(* The marked pids are those on the stack and those signalled, which are   *)
(* different.                                                              *)
SentOK ==
    /\ \A i \in DOMAIN sent : sent[i] \in visited
    /\ outcome = "none" =>
        /\ \A i \in DOMAIN sent, j \in DOMAIN stack : sent[i] # stack[j].pid
        /\ \A pid \in visited : \/ \E i \in DOMAIN sent : sent[i] = pid
                                \/ \E j \in DOMAIN stack : stack[j].pid = pid

(* When the root is about to be signalled its pid is that of the session. *)
AimOK == outcome = "none" /\ pc = "signal" /\ Len(stack) = 1 => Holder(RootPid) \subseteq {Root}

WalkInv ==
    /\ TypeOK /\ HostOK /\ WalkOK /\ MarkedOK /\ SentOK /\ AimOK
    /\ NoPidTwice /\ RootLast /\ RootSignalHitsSession
-----------------------------------------------------------------------------
(* The forest of processes: parents have been born, the tree is closed     *)
(* under living children, and it has no cycle.                             *)
ForestOK ==
    /\ state[Root] # "unborn" /\ born[Root] = launchd
    /\ Root \in Alive => Root \in tree
    /\ \A q \in tree : state[q] # "unborn"
    /\ \A q \in Procs : born[q] # launchd => state[born[q]] # "unborn"
    /\ \A q \in Alive : born[q] \in tree => q \in tree
    /\ \A S \in SUBSET (tree \ {Root}) : (\A q \in S : born[q] \in S) => S = {}

(* The process with this pid has the process with that one for parent. *)
ChildOf(pid, parent) ==
    \A q, p \in Procs :
        PidOf[q] = pid /\ PidOf[p] = parent => born[q] = p /\ state[q] # "unborn"

InTree(pid) == \A q \in Procs : PidOf[q] = pid => q \in tree

(* The stack is a path in the tree, with children of each member aside. *)
PathOK ==
    outcome = "none" =>
        \A i \in DOMAIN stack :
            /\ InTree(stack[i].pid)
            /\ i > 1 => ChildOf(stack[i].pid, stack[i - 1].pid)
            /\ \A pid \in stack[i].left : InTree(pid) /\ ChildOf(pid, stack[i].pid)

IsSent(pid) == \E i \in DOMAIN sent : sent[i] = pid

(* A process older than the walk that is alive was hit if its pid was      *)
(* signalled.                                                              *)
HitOK == \A q \in Alive \ late : IsSent(PidOf[q]) => q \in signalled

(* Every older living child of a listed activation is still to be visited, *)
(* or being visited, or signalled.                                         *)
CoveredOK ==
    outcome = "none" =>
        \A i \in DOMAIN stack : ~(i = Len(stack) /\ pc = "list") =>
            \A q \in Alive \ late :
                born[q] \in Alive /\ PidOf[born[q]] = stack[i].pid =>
                    \/ PidOf[q] \in stack[i].left
                    \/ IsSent(PidOf[q])
                    \/ i < Len(stack) /\ PidOf[q] = stack[i + 1].pid

OrphanOK == \A q \in Alive \ late : born[q] \in signalled => q \in signalled

TreeOK == ForestOK /\ PathOK /\ HitOK /\ CoveredOK /\ signalled \subseteq tree /\ OrphanOK

TreeInv == NoneRecycled => TreeOK
-----------------------------------------------------------------------------
(* What Front leaves of a stack. *)
LEMMA Popped ==
    ASSUME NEW S, NEW s \in Seq(S), s # << >>
    PROVE  /\ Len(s) \in Nat \ {0} /\ s[Len(s)] \in S
           /\ Front(s) \in Seq(S)
           /\ Len(Front(s)) = Len(s) - 1
           /\ \A i \in 1..(Len(s) - 1) : Front(s)[i] = s[i]
<1>1. Len(s) \in Nat \ {0} /\ \A i \in 1..Len(s) : s[i] \in S
  BY EmptySeq, ElementOfSeq
<1>2. \A i \in 1..(Len(s) - 1) : s[i] \in S
  BY <1>1
<1>3. PICK n \in Nat : n = Len(s) - 1
  BY <1>1
<1>4. 1 \in Int /\ n \in Int /\ \A i \in 1..n : s[i] \in S
  BY <1>2, <1>3
<1>5. /\ SubSeq(s, 1, n) \in Seq(S)
      /\ Len(SubSeq(s, 1, n)) = n
      /\ \A i \in 1..n : SubSeq(s, 1, n)[i] = s[i]
  BY <1>4, SubSeqProperties
<1> QED
  BY <1>1, <1>3, <1>5 DEF Front

(* What replacing the top of a stack does. *)
LEMMA Replaced ==
    ASSUME NEW S, NEW s \in Seq(S), s # << >>, NEW e \in S
    PROVE  /\ Append(Front(s), e) \in Seq(S)
           /\ Len(Append(Front(s), e)) = Len(s) /\ Len(s) \in Nat \ {0}
           /\ Append(Front(s), e)[Len(s)] = e
           /\ \A i \in 1..(Len(s) - 1) : Append(Front(s), e)[i] = s[i]
<1>1. /\ Front(s) \in Seq(S) /\ Len(Front(s)) = Len(s) - 1 /\ Len(s) \in Nat \ {0}
      /\ \A i \in 1..(Len(s) - 1) : Front(s)[i] = s[i]
  BY Popped
<1>2. /\ Append(Front(s), e) \in Seq(S)
      /\ Len(Append(Front(s), e)) = Len(Front(s)) + 1
      /\ \A i \in 1..Len(Front(s)) : Append(Front(s), e)[i] = Front(s)[i]
      /\ Append(Front(s), e)[Len(Front(s)) + 1] = e
  BY <1>1, AppendProperties
<1> QED
  BY <1>1, <1>2

Frames == [pid : Pids, left : SUBSET Pids]

(* What the typing of the stack and of the signals gives. *)
LEMMA WalkTypes ==
    ASSUME TypeOK
    PROVE  /\ stack \in Seq(Frames) /\ Len(stack) \in Nat /\ DOMAIN stack = 1..Len(stack)
           /\ \A i \in DOMAIN stack : stack[i] \in Frames
           /\ stack # << >> <=> Len(stack) # 0
           /\ sent \in Seq(Pids) /\ Len(sent) \in Nat /\ DOMAIN sent = 1..Len(sent)
           /\ Root \in Procs /\ RootPid \in Pids /\ launchd \notin Procs
<1>1. stack \in Seq(Frames) /\ sent \in Seq(Pids)
  BY DEF TypeOK, Frames
<1>2. Len(stack) \in Nat /\ DOMAIN stack = 1..Len(stack) /\ Len(sent) \in Nat /\ DOMAIN sent = 1..Len(sent)
  BY <1>1, LenProperties
<1>3. \A i \in DOMAIN stack : stack[i] \in Frames
  BY <1>1, <1>2, ElementOfSeq
<1>4. stack # << >> <=> Len(stack) # 0
  BY <1>1, EmptySeq
<1>5. Root \in Procs /\ RootPid \in Pids /\ launchd \notin Procs
  BY TreeConstants DEF TypeOK, Procs, RootPid, Pids
<1> QED
  BY <1>1, <1>2, <1>3, <1>4, <1>5

(* What the host does leaves the walk where it is. *)
LEMMA WalkHost ==
    ASSUME WalkInv,
           \/ \E q, c \in Procs : Fork(q, c)
           \/ \E q \in Procs : Exit(q)
           \/ CloseConnection \/ Cancel
    PROVE  WalkInv'
<1>1. /\ UNCHANGED <<PidOf, pc, stack, visited, sent, signalled, outcome>>
      /\ RootPid' = RootPid /\ Procs' = Procs /\ Pids' = Pids
  BY DEF Fork, Exit, CloseConnection, Cancel, host, RootPid, Procs, Pids
<1>2. TypeOK'
  <2>1. /\ PidOf' \in PidMaps /\ stack' \in Seq([pid : Pids', left : SUBSET Pids'])
        /\ visited' \subseteq Pids' /\ sent' \in Seq(Pids') /\ signalled' \subseteq Procs'
    BY <1>1 DEF WalkInv, TypeOK
  <2> DEFINE HostTypes ==
          /\ state' \in [Procs' -> {"unborn", "alive", "dead"}]
          /\ born' \in [Procs' -> Procs' \cup {launchd}]
          /\ tree' \subseteq Procs' /\ late' \subseteq Procs'
          /\ open' \in BOOLEAN /\ ctxDone' \in BOOLEAN
  <2>2. HostTypes
    <3> USE <1>1 DEF WalkInv, TypeOK
    <3>1. ASSUME NEW q \in Procs, NEW c \in Procs, Fork(q, c) PROVE HostTypes
      BY <3>1 DEF Fork
    <3>2. ASSUME NEW q \in Procs, Exit(q) PROVE HostTypes
      BY <3>2 DEF Exit
    <3>3. CASE CloseConnection
      BY <3>3 DEF CloseConnection
    <3>4. CASE Cancel
      BY <3>4 DEF Cancel, host
    <3> QED
      BY <3>1, <3>2, <3>3, <3>4
  <2> QED
    BY <1>1, <2>1, <2>2 DEF WalkInv, TypeOK
<1>3. HostOK' /\ AimOK'
  <2>1. CASE \E q, c \in Procs : Fork(q, c)
    <3>1. PICK q, c \in Procs : Fork(q, c)
      BY <2>1
    <3>2. Alive' = Alive \cup {c} /\ \A r \in Alive : PidOf[r] # PidOf[c]
      BY <1>1, <3>1 DEF Fork, Alive, Holder, WalkInv, TypeOK
    <3>3. HostOK'
      BY <1>1, <3>2 DEF HostOK, WalkInv
    <3>4. AimOK'
      BY <1>1, <3>1, <3>2 DEF AimOK, WalkInv, Fork, Holder
    <3> QED
      BY <3>3, <3>4
  <2>2. CASE \E q \in Procs : Exit(q)
    <3>1. Alive' \subseteq Alive
      BY <1>1, <2>2 DEF Exit, Alive, WalkInv, TypeOK
    <3> QED
      BY <1>1, <3>1 DEF HostOK, AimOK, WalkInv, Holder
  <2>3. CASE CloseConnection \/ Cancel
    <3>1. Alive' = Alive
      BY <2>3 DEF CloseConnection, Cancel, host, Alive, Procs
    <3> QED
      BY <1>1, <3>1 DEF HostOK, AimOK, WalkInv, Holder
  <2> QED
    BY <2>1, <2>2, <2>3
<1>4. WalkOK' /\ MarkedOK' /\ SentOK'
  <2>1. WalkOK'
    BY <1>1 DEF WalkInv, WalkOK
  <2>2. MarkedOK'
    BY <1>1 DEF WalkInv, MarkedOK
  <2>3. SentOK'
    BY <1>1 DEF WalkInv, SentOK
  <2> QED
    BY <2>1, <2>2, <2>3
<1>5. NoPidTwice' /\ RootLast' /\ RootSignalHitsSession'
  BY <1>1 DEF WalkInv, NoPidTwice, RootLast, RootSignalHitsSession
<1> QED
  BY <1>2, <1>3, <1>4, <1>5 DEF WalkInv

(* The top of the stack is replaced by an activation on the same pid. *)
LEMMA TopReplaced ==
    ASSUME TypeOK, stack # << >>, NEW t,
           NEW e \in Frames, e.pid = stack[Len(stack)].pid, t = Append(Front(stack), e)
    PROVE  /\ t \in Seq(Frames) /\ t # << >>
           /\ Len(t) = Len(stack) /\ DOMAIN t = DOMAIN stack
           /\ t[Len(stack)] = e /\ Len(stack) \in DOMAIN stack
           /\ \A i \in DOMAIN stack : t[i].pid = stack[i].pid
           /\ \A i \in DOMAIN stack : i < Len(stack) => t[i] = stack[i]
<1>1. /\ t \in Seq(Frames)
      /\ Len(t) = Len(stack) /\ Len(stack) \in Nat \ {0}
      /\ t[Len(stack)] = e
      /\ \A i \in 1..(Len(stack) - 1) : t[i] = stack[i]
  <2>1. stack \in Seq(Frames) /\ stack # << >> /\ e \in Frames
    BY WalkTypes
  <2>2. \A S : \A s \in Seq(S) : \A x \in S : s # << >> =>
              /\ Append(Front(s), x) \in Seq(S)
              /\ Len(Append(Front(s), x)) = Len(s) /\ Len(s) \in Nat \ {0}
              /\ Append(Front(s), x)[Len(s)] = x
              /\ \A i \in 1..(Len(s) - 1) : Append(Front(s), x)[i] = s[i]
    BY Replaced
  <2>3. /\ Append(Front(stack), e) \in Seq(Frames)
        /\ Len(Append(Front(stack), e)) = Len(stack) /\ Len(stack) \in Nat \ {0}
        /\ Append(Front(stack), e)[Len(stack)] = e
        /\ \A i \in 1..(Len(stack) - 1) : Append(Front(stack), e)[i] = stack[i]
    BY ONLY <2>1, <2>2
  <2> QED
    BY <2>3
<1>2. DOMAIN t = 1..Len(t) /\ DOMAIN stack = 1..Len(stack) /\ t # << >>
  BY <1>1, WalkTypes, LenProperties, EmptySeq
<1> QED
  BY <1>1, <1>2

(* The steps of the walk that do not touch the stack. *)
LEMMA WalkLooks ==
    ASSUME WalkInv, Fail \/ CheckCommand \/ VerifyConnection \/ Visited
    PROVE  WalkInv'
<1>1. /\ UNCHANGED <<PidOf, state, born, open, tree, late, ctxDone, visited, sent, signalled>>
      /\ RootPid' = RootPid /\ Procs' = Procs /\ Pids' = Pids /\ Alive' = Alive
      /\ outcome = "none"
  BY DEF Fail, CheckCommand, VerifyConnection, Visited, host, RootPid, Procs, Pids, Alive
<1>2. HostOK' /\ NoPidTwice' /\ RootSignalHitsSession'
  BY <1>1 DEF WalkInv, HostOK, NoPidTwice, RootSignalHitsSession
<1>3. \A i \in DOMAIN sent : sent[i] # RootPid
  <2>1. \A i \in DOMAIN sent : sent[i] = RootPid => outcome = "ok"
    BY DEF WalkInv, RootLast
  <2> QED
    BY <1>1, <2>1
<1>4. RootLast'
  BY <1>1, <1>3 DEF RootLast
<1>5. CASE Fail
  <2> USE <1>5 DEF Fail, WalkInv
  <2>1. TypeOK'
    BY <1>1, EmptySeq DEF TypeOK
  <2>2. WalkOK' /\ MarkedOK' /\ AimOK'
    BY DEF WalkOK, MarkedOK, AimOK
  <2>3. SentOK'
    BY <1>1 DEF SentOK
  <2> QED
    BY <1>2, <1>4, <2>1, <2>2, <2>3
<1>6. CASE CheckCommand
  <2> USE <1>6 DEF CheckCommand, WalkInv
  <2>1. TypeOK'
    BY <1>1 DEF TypeOK
  <2>2. WalkOK'
    BY <1>1 DEF WalkOK
  <2>3. MarkedOK'
    BY <1>1 DEF MarkedOK
  <2>4. SentOK'
    <3>1. UNCHANGED <<sent, visited, stack, outcome>> /\ SentOK
      BY <1>1
    <3> QED
      BY ONLY <3>1 DEF SentOK
  <2>5. AimOK'
    BY <1>1 DEF AimOK
  <2> QED
    BY <1>2, <1>4, <2>1, <2>2, <2>3, <2>4, <2>5
<1>7. CASE VerifyConnection /\ pc = "verify"
  <2> DEFINE first == [pid |-> RootPid, left |-> {}]
  <2>1. /\ stack' = <<first>> /\ pc' = "list" /\ outcome' = "none"
        /\ stack = << >> /\ visited = {} /\ sent = << >> /\ signalled = {}
    BY <1>7 DEF VerifyConnection, WalkInv, WalkOK
  <2>2. first \in Frames
    BY WalkTypes DEF Frames, WalkInv
  <2>3. /\ stack' \in Seq(Frames) /\ Len(stack') = 1 /\ DOMAIN stack' = {1}
        /\ stack'[1] = first /\ stack' # << >>
    BY <2>1, <2>2
  <2> HIDE DEF first
  <2>4. TypeOK'
    BY <1>1, <2>1, <2>3 DEF WalkInv, TypeOK, Frames
  <2>5. WalkOK'
    BY <1>1, <2>1, <2>3 DEF WalkOK, first
  <2>6. MarkedOK'
    BY <1>1, <2>1, <2>3 DEF MarkedOK
  <2>7. SentOK' /\ AimOK'
    BY <1>1, <2>1, <2>3 DEF SentOK, AimOK
  <2> QED
    BY <1>2, <1>4, <2>4, <2>5, <2>6, <2>7 DEF WalkInv
<1>8. CASE VerifyConnection /\ pc = "recheck verify"
  <2>1. UNCHANGED <<stack, outcome>> /\ pc' = "signal" /\ open /\ Root \in Holder(RootPid)
    BY <1>8 DEF VerifyConnection, HasConnection
  <2> USE <1>8, <2>1 DEF WalkInv
  <2>2. TypeOK'
    BY <1>1 DEF TypeOK
  <2>3. WalkOK'
    BY <1>1 DEF WalkOK
  <2>4. MarkedOK'
    BY <1>1 DEF MarkedOK
  <2>5. SentOK'
    BY <1>1 DEF SentOK
  <2>6. AimOK'
    BY <1>1 DEF AimOK, HostOK, Holder
  <2> QED
    BY <1>2, <1>4, <2>2, <2>3, <2>4, <2>5, <2>6
<1>9. CASE Visited
  <2> USE <1>9 DEF Visited, WalkInv
  <2>1. TypeOK'
    BY <1>1 DEF TypeOK
  <2>2. Last(stack) = stack[Len(stack)] /\ UNCHANGED <<stack, outcome>>
    BY DEF Last
  <2>3. WalkOK'
    <3>1. stack # << >> /\ stack[1].pid = RootPid /\ stack[Len(stack)].left = {}
      BY <2>2 DEF WalkOK
    <3>2. CASE Len(stack) = 1
      BY <1>1, <2>2, <3>1, <3>2 DEF WalkOK
    <3>3. CASE Len(stack) # 1
      BY <1>1, <2>2, <3>1, <3>3 DEF WalkOK
    <3> QED
      BY <3>2, <3>3
  <2>4. MarkedOK'
    BY <1>1, <2>2 DEF MarkedOK
  <2>5. SentOK'
    BY <1>1, <2>2 DEF SentOK
  <2>6. AimOK'
    BY <1>1, <2>2 DEF AimOK
  <2> QED
    BY <1>2, <1>4, <2>1, <2>3, <2>4, <2>5, <2>6
<1> QED
  BY <1>5, <1>6, <1>7, <1>8, <1>9 DEF VerifyConnection

(* The innermost activation is listed. *)
LEMMA WalkList ==
    ASSUME WalkInv, List
    PROVE  WalkInv'
<1> DEFINE n == Len(stack)
           top == [stack[n] EXCEPT !.left = Children(stack[n].pid)]
<1>1. /\ UNCHANGED <<PidOf, state, born, open, tree, late, ctxDone, sent, signalled, outcome>>
      /\ RootPid' = RootPid /\ Procs' = Procs /\ Pids' = Pids /\ Alive' = Alive
      /\ outcome = "none" /\ pc = "list" /\ pc' = "visit"
      /\ visited' = visited \cup {stack[n].pid} /\ stack' = Append(Front(stack), top)
  BY DEF List, Last, host, RootPid, Procs, Pids, Alive
<1>2. stack # << >> /\ stack[1].pid = RootPid /\ n \in Nat \ {0} /\ n \in DOMAIN stack
      /\ DOMAIN stack = 1..n /\ DOMAIN sent = 1..Len(sent) /\ stack[n] \in Frames
  <2>1. stack # << >> /\ stack[1].pid = RootPid
    BY <1>1 DEF WalkInv, WalkOK
  <2> QED
    BY <2>1, WalkTypes DEF WalkInv
<1>3. top \in Frames /\ top.pid = stack[n].pid
  <2>1. Children(stack[n].pid) \subseteq Pids
    BY DEF Children, Alive, Pids
  <2> QED
    BY <1>2, <2>1 DEF Frames
<1> HIDE DEF top
<1>4. /\ stack' \in Seq(Frames) /\ stack' # << >>
      /\ Len(stack') = n /\ DOMAIN stack' = DOMAIN stack
      /\ \A i \in DOMAIN stack : stack'[i].pid = stack[i].pid
  BY <1>1, <1>2, <1>3, TopReplaced DEF WalkInv
<1> HIDE DEF n
<1>5. HostOK' /\ NoPidTwice' /\ RootSignalHitsSession' /\ RootLast' /\ AimOK'
  BY <1>1 DEF WalkInv, HostOK, NoPidTwice, RootSignalHitsSession, RootLast, AimOK
<1>6. TypeOK'
  <2>1. visited' \subseteq Pids' /\ stack' \in Seq([pid : Pids', left : SUBSET Pids'])
    BY <1>1, <1>2, <1>4 DEF Frames, WalkInv, TypeOK
  <2> QED
    BY <1>1, <2>1 DEF WalkInv, TypeOK
<1>7. WalkOK'
  BY <1>1, <1>2, <1>4 DEF WalkOK
<1>8. MarkedOK'
  <2>1. \A i \in DOMAIN stack : stack[i].pid \in visited'
    BY <1>1 DEF WalkInv, MarkedOK, n
  <2> QED
    BY <1>1, <1>4, <2>1 DEF WalkInv, MarkedOK
<1>9. SentOK'
  <2>1. \A pid \in visited' : pid \in visited \/ \E j \in DOMAIN stack : stack[j].pid = pid
    BY <1>1, <1>2
  <2>2. \A i \in DOMAIN sent : sent[i] \in visited'
    BY <1>1 DEF WalkInv, SentOK
  <2>3. \A i \in DOMAIN sent, j \in DOMAIN stack' : sent[i] # stack'[j].pid
    BY <1>1, <1>4 DEF WalkInv, SentOK
  <2>4. \A pid \in visited' : \/ \E i \in DOMAIN sent : sent[i] = pid
                             \/ \E j \in DOMAIN stack' : stack'[j].pid = pid
    BY <1>1, <1>4, <2>1 DEF WalkInv, SentOK
  <2> QED
    BY <1>1, <2>2, <2>3, <2>4 DEF SentOK
<1> QED
  BY <1>5, <1>6, <1>7, <1>8, <1>9 DEF WalkInv

(* A child is passed over, or entered: its pid was never marked. *)
LEMMA WalkVisit ==
    ASSUME WalkInv, NEW child \in Pids, Visit(child)
    PROVE  WalkInv'
<1> DEFINE n == Len(stack)
           top == [stack[n] EXCEPT !.left = @ \ {child}]
           rest == Append(Front(stack), top)
           frame == [pid |-> child, left |-> {}]
<1>1. /\ UNCHANGED <<PidOf, state, born, open, tree, late, ctxDone, visited, sent,
                     signalled, outcome>>
      /\ RootPid' = RootPid /\ Procs' = Procs /\ Pids' = Pids /\ Alive' = Alive
      /\ outcome = "none" /\ pc = "visit"
      /\ \/ child \in visited /\ pc' = "visit" /\ stack' = rest
         \/ child \notin visited /\ pc' = "list" /\ stack' = Append(rest, frame)
  BY DEF Visit, Last, host, RootPid, Procs, Pids, Alive
<1>2. stack # << >> /\ stack[1].pid = RootPid /\ n \in Nat \ {0} /\ n \in DOMAIN stack
      /\ DOMAIN stack = 1..n /\ DOMAIN sent = 1..Len(sent) /\ stack[n] \in Frames
  <2>1. stack # << >> /\ stack[1].pid = RootPid
    BY <1>1 DEF WalkInv, WalkOK
  <2> QED
    BY <2>1, WalkTypes DEF WalkInv
<1>3. top \in Frames /\ top.pid = stack[n].pid /\ frame \in Frames /\ frame.pid = child
  BY <1>2 DEF Frames
<1> HIDE DEF top, frame
<1>4. /\ rest \in Seq(Frames) /\ rest # << >>
      /\ Len(rest) = n /\ DOMAIN rest = DOMAIN stack
      /\ \A i \in DOMAIN stack : rest[i].pid = stack[i].pid
  BY <1>2, <1>3, TopReplaced DEF WalkInv
<1> HIDE DEF rest
<1>5. CASE child \notin visited
  <2>1. /\ Append(rest, frame) \in Seq(Frames)
        /\ Len(Append(rest, frame)) = Len(rest) + 1
        /\ \A i \in 1..Len(rest) : Append(rest, frame)[i] = rest[i]
        /\ Append(rest, frame)[Len(rest) + 1] = frame
    BY <1>3, <1>4, AppendProperties
  <2>2. stack' \in Seq(Frames) /\ Len(stack') = n + 1 /\ DOMAIN stack' = 1..(n + 1)
        /\ stack' # << >> /\ pc' = "list"
    BY <1>1, <1>2, <1>4, <1>5, <2>1, LenProperties, EmptySeq
  <2>3. stack'[n + 1].pid = child /\ \A i \in 1..n : stack'[i].pid = stack[i].pid
    BY <1>1, <1>2, <1>3, <1>4, <1>5, <2>1
  <2>4. \A i \in 1..n : stack[i].pid \in visited
    BY <1>1, <1>2 DEF WalkInv, MarkedOK
  <2>5. \A i, j \in 1..n : stack[i].pid = stack[j].pid => i = j
    BY <1>1, <1>2 DEF WalkInv, MarkedOK
  <2> HIDE DEF n
  <2>6. MarkedOK'
    <3>1. \A i \in DOMAIN stack' : stack'[i].pid \in visited <=> ~(i = Len(stack') /\ pc' = "list")
      <4>1. \A i \in DOMAIN stack' : i \in 1..n \/ i = n + 1
        BY <1>2, <2>2
      <4>2. \A i \in 1..n : stack'[i].pid \in visited /\ i # Len(stack')
        BY <1>2, <2>2, <2>3, <2>4
      <4>3. stack'[n + 1].pid \notin visited /\ n + 1 = Len(stack')
        BY <1>5, <2>2, <2>3
      <4> QED
        BY <2>2, <4>1, <4>2, <4>3
    <3>2. \A i, j \in DOMAIN stack' : stack'[i].pid = stack'[j].pid => i = j
      <4>1. SUFFICES ASSUME NEW i \in 1..(n + 1), NEW j \in 1..(n + 1),
                            stack'[i].pid = stack'[j].pid
                     PROVE  i = j
        BY <2>2
      <4>2. CASE i = n + 1
        BY <1>2, <1>5, <2>3, <2>4, <4>1, <4>2
      <4>3. CASE j = n + 1
        BY <1>2, <1>5, <2>3, <2>4, <4>1, <4>3
      <4>4. CASE i # n + 1 /\ j # n + 1
        BY <1>2, <2>3, <2>5, <4>1, <4>4
      <4> QED
        BY <4>2, <4>3, <4>4
    <3> QED
      BY <1>1, <3>1, <3>2 DEF MarkedOK
  <2>7. SentOK'
    <3>1. \A i \in DOMAIN sent, j \in DOMAIN stack' : sent[i] # stack'[j].pid
      <4>1. \A i \in DOMAIN sent, j \in 1..n : sent[i] # stack[j].pid
        BY <1>1, <1>2 DEF WalkInv, SentOK
      <4>2. \A i \in DOMAIN sent : sent[i] # child
        BY <1>1, <1>5 DEF WalkInv, SentOK
      <4> QED
        BY <1>2, <2>2, <2>3, <4>1, <4>2
    <3>2. \A pid \in visited : \/ \E i \in DOMAIN sent : sent[i] = pid
                              \/ \E j \in DOMAIN stack' : stack'[j].pid = pid
      BY <1>1, <1>2, <2>2, <2>3 DEF WalkInv, SentOK
    <3> QED
      BY <1>1, <3>1, <3>2 DEF WalkInv, SentOK
  <2>8. WalkOK'
    BY <1>1, <1>2, <2>2, <2>3 DEF WalkOK
  <2>9. TypeOK'
    BY <1>1, <2>2 DEF Frames, WalkInv, TypeOK
  <2>10. HostOK' /\ NoPidTwice' /\ RootSignalHitsSession' /\ RootLast' /\ AimOK'
    BY <1>1, <2>2 DEF WalkInv, HostOK, NoPidTwice, RootSignalHitsSession, RootLast, AimOK
  <2> QED
    BY <2>6, <2>7, <2>8, <2>9, <2>10 DEF WalkInv
<1>6. CASE child \in visited
  <2> HIDE DEF n
  <2>1. stack' = rest /\ pc' = "visit"
    BY <1>1, <1>6
  <2>2. HostOK' /\ NoPidTwice' /\ RootSignalHitsSession' /\ RootLast' /\ AimOK'
    BY <1>1, <2>1 DEF WalkInv, HostOK, NoPidTwice, RootSignalHitsSession, RootLast, AimOK
  <2>3. TypeOK'
    BY <1>1, <1>4, <2>1 DEF Frames, WalkInv, TypeOK
  <2>4. WalkOK'
    BY <1>1, <1>2, <1>4, <2>1 DEF WalkOK
  <2>5. MarkedOK'
    BY <1>1, <1>4, <2>1 DEF WalkInv, MarkedOK
  <2>6. SentOK'
    <3>1. \A i \in DOMAIN sent, j \in DOMAIN stack' : sent[i] # stack'[j].pid
      BY <1>1, <1>4, <2>1 DEF WalkInv, SentOK
    <3>2. \A pid \in visited : \/ \E i \in DOMAIN sent : sent[i] = pid
                              \/ \E j \in DOMAIN stack' : stack'[j].pid = pid
      BY <1>1, <1>4, <2>1 DEF WalkInv, SentOK
    <3> QED
      BY <1>1, <3>1, <3>2 DEF WalkInv, SentOK
  <2> QED
    BY <2>2, <2>3, <2>4, <2>5, <2>6 DEF WalkInv
<1> QED
  BY <1>5, <1>6

(* The innermost activation sends its signal and ends. *)
LEMMA WalkSignal ==
    ASSUME WalkInv, Signal
    PROVE  WalkInv'
<1> DEFINE n == Len(stack)
           pid == stack[n].pid
           m == Len(sent)
<1>1. /\ UNCHANGED <<PidOf, state, born, open, tree, late, ctxDone, visited>>
      /\ RootPid' = RootPid /\ Procs' = Procs /\ Pids' = Pids /\ Alive' = Alive
      /\ outcome = "none" /\ pc = "signal"
      /\ sent' = Append(sent, pid) /\ signalled' = signalled \cup Holder(pid)
      /\ stack' = Front(stack)
      /\ n = 1 => outcome' = "ok" /\ pc' = "signal"
      /\ n # 1 => outcome' = "none" /\ pc' = "visit"
  BY DEF Signal, Last, host, RootPid, Procs, Pids, Alive
<1>2. stack # << >> /\ stack[1].pid = RootPid /\ n \in Nat \ {0} /\ n \in DOMAIN stack
      /\ DOMAIN stack = 1..n /\ m \in Nat /\ DOMAIN sent = 1..m /\ pid \in Pids
      /\ stack \in Seq(Frames) /\ sent \in Seq(Pids)
  <2>1. stack # << >> /\ stack[1].pid = RootPid
    BY <1>1 DEF WalkInv, WalkOK
  <2> QED
    BY <2>1, WalkTypes DEF WalkInv, Frames
<1>3. /\ stack' \in Seq(Frames) /\ Len(stack') = n - 1 /\ DOMAIN stack' = 1..(n - 1)
      /\ \A i \in 1..(n - 1) : stack'[i] = stack[i]
  <2>1. /\ Front(stack) \in Seq(Frames) /\ Len(Front(stack)) = n - 1
        /\ \A i \in 1..(n - 1) : Front(stack)[i] = stack[i]
    BY <1>2, Popped
  <2>2. DOMAIN Front(stack) = 1..(n - 1)
    BY <2>1, LenProperties
  <2> QED
    BY <1>1, <2>1, <2>2
<1>4. /\ sent' \in Seq(Pids) /\ Len(sent') = m + 1 /\ DOMAIN sent' = 1..(m + 1)
      /\ \A i \in 1..m : sent'[i] = sent[i]
      /\ sent'[m + 1] = pid
  <2>1. /\ Append(sent, pid) \in Seq(Pids) /\ Len(Append(sent, pid)) = m + 1
        /\ \A i \in 1..m : Append(sent, pid)[i] = sent[i]
        /\ Append(sent, pid)[m + 1] = pid
    BY <1>2, AppendProperties
  <2>2. DOMAIN Append(sent, pid) = 1..(m + 1)
    BY <2>1, LenProperties
  <2> QED
    BY <1>1, <2>1, <2>2
<1>5. /\ \A i \in 1..n : stack[i].pid \in visited
      /\ \A i, j \in 1..n : stack[i].pid = stack[j].pid => i = j
  BY <1>1, <1>2 DEF WalkInv, MarkedOK
<1>6. /\ \A i \in 1..m, j \in 1..n : sent[i] # stack[j].pid
      /\ \A x \in visited : (\E i \in 1..m : sent[i] = x) \/ \E j \in 1..n : stack[j].pid = x
      /\ \A i \in 1..m : sent[i] \in visited
  BY <1>1, <1>2 DEF WalkInv, SentOK
<1>7. n # 1 => pid # RootPid
  BY <1>2, <1>5
<1>8. \A i \in 1..m : sent[i] # RootPid
  BY <1>1, <1>2 DEF WalkInv, RootLast
<1>9. \A i \in 1..m : sent[i] # pid
  BY <1>2, <1>6
<1> HIDE DEF n, m, pid
<1>10. TypeOK'
  <2>1. signalled' \subseteq Procs
    BY <1>1 DEF WalkInv, TypeOK, Holder, Alive
  <2> QED
    BY <1>1, <1>2, <1>3, <1>4, <2>1 DEF Frames, WalkInv, TypeOK
<1>11. HostOK'
  BY <1>1 DEF WalkInv, HostOK
<1>12. WalkOK'
  <2>1. n # 1 => stack' # << >> /\ stack'[1].pid = RootPid
    BY <1>2, <1>3, EmptySeq
  <2> QED
    BY <1>1, <2>1 DEF WalkOK
<1>13. MarkedOK'
  <2>1. \A i \in DOMAIN stack' : stack'[i].pid \in visited
    BY <1>2, <1>3, <1>5
  <2>2. \A i, j \in DOMAIN stack' : stack'[i].pid = stack'[j].pid => i = j
    BY <1>2, <1>3, <1>5
  <2> QED
    BY <1>1, <2>1, <2>2 DEF MarkedOK
<1>14. SentOK'
  <2>1. \A i \in DOMAIN sent' : sent'[i] \in visited
    <3>1. pid \in visited
      BY <1>2, <1>5 DEF pid
    <3> QED
      BY <1>2, <1>4, <1>6, <3>1
  <2>2. \A i \in DOMAIN sent', j \in DOMAIN stack' : sent'[i] # stack'[j].pid
    <3>1. \A j \in 1..(n - 1) : j \in 1..n /\ stack[j].pid # pid
      BY <1>2, <1>5 DEF pid
    <3>2. \A i \in 1..(m + 1) : i \in 1..m \/ i = m + 1
      BY <1>2
    <3> QED
      BY <1>3, <1>4, <1>6, <3>1, <3>2
  <2>3. ASSUME NEW x \in visited
        PROVE  \/ \E i \in DOMAIN sent' : sent'[i] = x
               \/ \E j \in DOMAIN stack' : stack'[j].pid = x
    <3>1. CASE \E i \in 1..m : sent[i] = x
      BY <1>2, <1>4, <3>1
    <3>2. CASE \E j \in 1..n : stack[j].pid = x
      <4>1. PICK j \in 1..n : stack[j].pid = x
        BY <3>2
      <4>2. CASE j = n
        <5>1. sent'[m + 1] = x /\ m + 1 \in DOMAIN sent'
          BY <1>2, <1>4, <4>1, <4>2 DEF pid
        <5> QED
          BY <5>1
      <4>3. CASE j # n
        <5>1. j \in DOMAIN stack' /\ stack'[j].pid = x
          BY <1>2, <1>3, <4>1, <4>3
        <5> QED
          BY <5>1
      <4> QED
        BY <4>2, <4>3
    <3> QED
      BY <1>6, <3>1, <3>2
  <2> QED
    BY <1>1, <2>1, <2>2, <2>3 DEF SentOK
<1>15. AimOK'
  BY <1>1 DEF AimOK
<1>16. NoPidTwice'
  <2>1. \A i \in 1..(m + 1) : i \in 1..m \/ i = m + 1
    BY <1>2
  <2>2. \A i, j \in 1..m : sent[i] = sent[j] => i = j
    BY <1>2 DEF WalkInv, NoPidTwice, IsInjective
  <2>3. \A i, j \in 1..(m + 1) : sent'[i] = sent'[j] => i = j
    BY <1>4, <1>9, <2>1, <2>2
  <2> QED
    BY <1>4, <2>3 DEF NoPidTwice, IsInjective
<1>17. RootLast'
  <2>1. \A i \in 1..(m + 1) : i \in 1..m \/ i = m + 1
    BY <1>2
  <2>2. \A i \in 1..(m + 1) : sent'[i] = RootPid => i = m + 1 /\ outcome' = "ok"
    BY <1>1, <1>4, <1>7, <1>8, <2>1
  <2> QED
    BY <1>1, <1>4, <2>2 DEF RootLast
<1>18. RootSignalHitsSession'
  <2>1. ASSUME NEW q \in Holder(pid), PidOf[q] = RootPid PROVE q = Root
    <3>1. pid = RootPid
      BY <2>1 DEF Holder
    <3>2. n = 1
      BY <1>7, <3>1
    <3>3. Holder(RootPid) \subseteq {Root}
      BY <1>1, <3>2 DEF WalkInv, AimOK, n
    <3> QED
      BY <2>1, <3>1, <3>3
  <2> QED
    BY <1>1, <2>1 DEF WalkInv, RootSignalHitsSession
<1> QED
  BY <1>10, <1>11, <1>12, <1>13, <1>14, <1>15, <1>16, <1>17, <1>18 DEF WalkInv

(* Every step, of the host or of the terminator, keeps the invariant. *)
LEMMA WalkStep == WalkInv /\ [Next]_vars => WalkInv'
<1> SUFFICES ASSUME WalkInv, [Next]_vars PROVE WalkInv'
  OBVIOUS
<1>1. CASE UNCHANGED vars
  <2>1. /\ UNCHANGED <<PidOf, state, born, open, tree, late, ctxDone, pc, stack, visited,
                       sent, signalled, outcome>>
        /\ RootPid' = RootPid /\ Procs' = Procs /\ Pids' = Pids /\ Alive' = Alive
    BY <1>1 DEF vars, RootPid, Procs, Pids, Alive
  <2>2. TypeOK'
    BY <2>1 DEF WalkInv, TypeOK
  <2>3. HostOK' /\ WalkOK'
    BY <2>1 DEF WalkInv, HostOK, WalkOK
  <2>4. MarkedOK'
    BY <2>1 DEF WalkInv, MarkedOK
  <2>5. SentOK'
    BY <2>1 DEF WalkInv, SentOK
  <2>6. AimOK' /\ NoPidTwice' /\ RootLast' /\ RootSignalHitsSession'
    BY <2>1 DEF WalkInv, AimOK, Holder, NoPidTwice, RootLast, RootSignalHitsSession
  <2> QED
    BY <2>2, <2>3, <2>4, <2>5, <2>6 DEF WalkInv
<1> DEFINE HostStep == \/ \E q, c \in Procs : Fork(q, c)
                       \/ \E q \in Procs : Exit(q)
                       \/ CloseConnection \/ Cancel
<1>2. HostStep => WalkInv'
  BY WalkHost
<1>3. CASE Fail \/ CheckCommand \/ VerifyConnection \/ Visited
  BY <1>3, WalkLooks
<1>4. CASE List
  BY <1>4, WalkList
<1>5. CASE \E child \in Pids : Visit(child)
  BY <1>5, WalkVisit
<1>6. CASE Signal
  BY <1>6, WalkSignal
<1>7. UNCHANGED vars \/ HostStep \/ Terminator
  BY DEF Next, Returned
<1> HIDE DEF HostStep
<1>8. CASE Terminator
  BY <1>3, <1>4, <1>5, <1>6, <1>8 DEF Terminator
<1> QED
  BY <1>1, <1>2, <1>7, <1>8

(* The walk begins with the root alone on the stack.                       *)
LEMMA WalkInit == Init => WalkInv
<1> SUFFICES ASSUME Init PROVE WalkInv
  OBVIOUS
<1> USE DEF Init
<1>1. TypeOK
  <2>1. Alive \subseteq Procs
    BY DEF Alive
  <2>2. born \in [Procs -> Procs \cup {launchd}] /\ tree \subseteq Procs
    BY <2>1
  <2>3. stack \in Seq([pid : Pids, left : SUBSET Pids]) /\ sent \in Seq(Pids)
    BY EmptySeq
  <2> QED
    BY <2>2, <2>3 DEF TypeOK
<1>2. HostOK /\ WalkOK /\ MarkedOK /\ SentOK /\ AimOK
  BY DEF HostOK, WalkOK, MarkedOK, SentOK, AimOK
<1>3. NoPidTwice /\ RootLast /\ RootSignalHitsSession
  BY DEF NoPidTwice, IsInjective, RootLast, RootSignalHitsSession
<1> QED
  BY <1>1, <1>2, <1>3 DEF WalkInv
-----------------------------------------------------------------------------
(* The forest of the processes is that of the host, and nothing is signalled. *)
LEMMA TreeInit == Init => TreeInv
<1> SUFFICES ASSUME Init PROVE TreeOK
  BY DEF TreeInv
<1> USE DEF Init
<1>1. ForestOK
  <2>1. Alive \subseteq Procs /\ \A q \in Alive : state[q] = "alive"
    BY DEF Alive
  <2>2. \A q \in Procs : born[q] # launchd => born[q] \in Alive
    OBVIOUS
  <2>3. tree \subseteq Alive
    OBVIOUS
  <2>4. Root \in Alive => Root \in tree
    OBVIOUS
  <2>5. \A q \in Alive : born[q] \in tree => q \in tree
    OBVIOUS
  <2> QED
    BY <2>1, <2>2, <2>3, <2>4, <2>5 DEF ForestOK
<1>2. PathOK /\ CoveredOK
  BY DEF PathOK, CoveredOK
<1>3. HitOK /\ OrphanOK /\ signalled \subseteq tree
  BY DEF HitOK, IsSent, OrphanOK
<1> QED
  BY <1>1, <1>2, <1>3 DEF TreeOK

(* A child of the innermost activation is on no other activation: the      *)
(* processes between the two would be a cycle in the tree.                 *)
LEMMA NotAncestor ==
    ASSUME WalkInv, ForestOK, PathOK, outcome = "none", stack # << >>,
           NEW child \in stack[Len(stack)].left, NEW j \in DOMAIN stack
    PROVE  stack[j].pid # child
<1> SUFFICES ASSUME stack[j].pid = child PROVE FALSE
  OBVIOUS
<1> DEFINE n == Len(stack)
           S == {q \in Procs : \E k \in j..n : PidOf[q] = stack[k].pid}
<1>1. n \in Nat \ {0} /\ DOMAIN stack = 1..n /\ j \in 1..n /\ launchd \notin Procs
      /\ \A k \in 1..n : stack[k].pid \in Pids
  BY WalkTypes DEF WalkInv, Frames
<1>2. /\ \A k \in 1..n : InTree(stack[k].pid)
      /\ \A k \in 1..n : k > 1 => ChildOf(stack[k].pid, stack[k - 1].pid)
      /\ ChildOf(child, stack[n].pid)
  <2>1. \A k \in 1..n : InTree(stack[k].pid)
    BY <1>1 DEF PathOK
  <2>2. \A k \in 1..n : k > 1 => ChildOf(stack[k].pid, stack[k - 1].pid)
    BY <1>1 DEF PathOK
  <2>3. n \in DOMAIN stack
    BY <1>1
  <2>4. ChildOf(child, stack[n].pid)
    BY <2>3 DEF PathOK
  <2> QED
    BY <2>1, <2>2, <2>4
<1>3. S \subseteq tree
  BY <1>1, <1>2 DEF InTree
<1>4. ASSUME NEW q \in S PROVE born[q] \in S
  <2>1. PICK k \in j..n : PidOf[q] = stack[k].pid
    OBVIOUS
  <2>2. CASE k = j
    <3>1. PICK p \in Procs : PidOf[p] = stack[n].pid
      BY <1>1 DEF Pids
    <3>2. born[q] = p
      BY <1>2, <2>1, <2>2, <3>1 DEF ChildOf
    <3> QED
      BY <1>1, <3>1, <3>2
  <2>3. CASE k # j
    <3>1. k - 1 \in j..n /\ k \in 1..n /\ k - 1 \in 1..n /\ k > 1
      BY <1>1, <2>3
    <3>2. PICK p \in Procs : PidOf[p] = stack[k - 1].pid
      BY <1>1, <3>1 DEF Pids
    <3>3. born[q] = p
      BY <1>2, <2>1, <3>1, <3>2 DEF ChildOf
    <3> QED
      BY <3>1, <3>2, <3>3
  <2> QED
    BY <2>2, <2>3
<1>5. Root \notin S
  BY <1>1, <1>4 DEF ForestOK
<1>6. S # {}
  <2>1. PICK q \in Procs : PidOf[q] = stack[j].pid
    BY <1>1 DEF Pids
  <2> QED
    BY <1>1, <2>1
<1> HIDE DEF S
<1> QED
  BY <1>3, <1>4, <1>5, <1>6 DEF ForestOK

(* A process that is forked is a leaf of the forest.                       *)
LEMMA TreeFork ==
    ASSUME WalkInv, TreeOK, NEW q \in Procs, NEW c \in Procs, Fork(q, c)
    PROVE  TreeOK'
<1>1. /\ UNCHANGED <<PidOf, pc, stack, visited, sent, signalled, outcome>>
      /\ state[c] = "unborn" /\ q \in Alive /\ state[q] = "alive" /\ q # c
      /\ Procs' = Procs /\ late' = late \cup {c}
      /\ state' = [state EXCEPT ![c] = "alive"] /\ born' = [born EXCEPT ![c] = q]
      /\ tree' = IF q \in tree THEN tree \cup {c} ELSE tree
  BY DEF Fork, Procs, Alive
<1>2. /\ state \in [Procs -> {"unborn", "alive", "dead"}]
      /\ born \in [Procs -> Procs \cup {launchd}]
      /\ tree \subseteq Procs /\ Root \in Procs /\ launchd \notin Procs
  BY WalkTypes DEF WalkInv, TypeOK
<1>3. /\ \A r \in Procs : r # c => state'[r] = state[r] /\ born'[r] = born[r]
      /\ state'[c] = "alive" /\ born'[c] = q
  BY <1>1, <1>2
<1>4. Alive' = Alive \cup {c} /\ Alive' \ late' = Alive \ late /\ c \notin Alive
  <2>1. Alive' = Alive \cup {c} /\ c \notin Alive
    BY <1>1, <1>3 DEF Alive
  <2> QED
    BY <1>1, <2>1
<1>5. Alive \subseteq Procs
  BY DEF Alive
<1>6. /\ state[Root] # "unborn" /\ born[Root] = launchd
      /\ Root \in Alive => Root \in tree
      /\ \A r \in tree : state[r] # "unborn"
      /\ \A r \in Procs : born[r] # launchd => state[born[r]] # "unborn"
      /\ \A r \in Alive : born[r] \in tree => r \in tree
      /\ \A S \in SUBSET (tree \ {Root}) : (\A r \in S : born[r] \in S) => S = {}
  BY DEF TreeOK, ForestOK
<1>7. \A r \in Procs : born[r] # c
  BY <1>1, <1>2, <1>6
<1>8. ForestOK'
  <2>1. state'[Root] # "unborn" /\ born'[Root] = launchd /\ (Root \in Alive' => Root \in tree')
    BY <1>1, <1>2, <1>3, <1>4, <1>6
  <2>2. \A r \in tree' : state'[r] # "unborn"
    BY <1>1, <1>2, <1>3, <1>6
  <2>3. \A r \in Procs : born'[r] # launchd => state'[born'[r]] # "unborn"
    BY <1>1, <1>2, <1>3, <1>6
  <2>4. \A r \in Alive' : born'[r] \in tree' => r \in tree'
    BY <1>1, <1>3, <1>4, <1>5, <1>6, <1>7
  <2>5. ASSUME NEW S \in SUBSET (tree' \ {Root}), \A r \in S : born'[r] \in S
        PROVE  S = {}
    <3>1. S \ {c} \in SUBSET (tree \ {Root})
      BY <1>1
    <3>2. \A r \in S \ {c} : born[r] \in S \ {c}
      BY <1>2, <1>3, <1>7, <2>5, <3>1
    <3>3. S \ {c} = {}
      BY <1>6, <3>1, <3>2
    <3>4. c \notin S
      BY <1>1, <1>3, <2>5, <3>3
    <3> QED
      BY <3>3, <3>4
  <2> QED
    BY <1>1, <2>1, <2>2, <2>3, <2>4, <2>5 DEF ForestOK
<1>9. PathOK'
  <2>1. \A pid : InTree(pid) => InTree(pid)'
    BY <1>1 DEF InTree
  <2>2. \A pid, parent : ChildOf(pid, parent) => ChildOf(pid, parent)'
    BY <1>1, <1>3 DEF ChildOf
  <2> QED
    BY <1>1, <2>1, <2>2 DEF TreeOK, PathOK
<1>10. HitOK'
  BY <1>1, <1>4 DEF TreeOK, HitOK, IsSent
<1>11. \A r \in Alive \ late :
          born'[r] = born[r] /\ (born'[r] \in Alive' => born[r] \in Alive)
  BY <1>3, <1>4, <1>5, <1>7
<1>12. CoveredOK'
  BY <1>1, <1>4, <1>11 DEF TreeOK, CoveredOK, IsSent
<1>13. signalled' \subseteq tree' /\ OrphanOK'
  BY <1>1, <1>4, <1>11 DEF TreeOK, OrphanOK
<1> QED
  BY <1>8, <1>9, <1>10, <1>12, <1>13 DEF TreeOK

(* A process that exits keeps its place in the forest.                     *)
LEMMA TreeExit ==
    ASSUME WalkInv, TreeOK, NEW q \in Procs, Exit(q)
    PROVE  TreeOK'
<1>1. /\ UNCHANGED <<PidOf, born, tree, late, pc, stack, visited, sent, signalled, outcome>>
      /\ Procs' = Procs /\ state' = [state EXCEPT ![q] = "dead"]
  BY DEF Exit, Procs
<1>2. \A r \in Procs : state'[r] = state[r] \/ state'[r] = "dead"
  BY <1>1 DEF WalkInv, TypeOK
<1>3. Alive' \subseteq Alive
  BY <1>1, <1>2 DEF Alive
<1>4. /\ tree \subseteq Procs /\ Root \in Procs
      /\ born \in [Procs -> Procs \cup {launchd}]
  BY WalkTypes DEF WalkInv, TypeOK
<1>5. \A r \in Procs : state[r] # "unborn" => state'[r] # "unborn"
  BY <1>2
<1>6. ForestOK'
  <2>1. \A r \in Procs : born[r] # launchd => state'[born[r]] # "unborn"
    BY <1>4, <1>5 DEF TreeOK, ForestOK
  <2>2. /\ state'[Root] # "unborn" /\ \A r \in tree : state'[r] # "unborn"
    BY <1>4, <1>5 DEF TreeOK, ForestOK
  <2> QED
    BY <1>1, <1>3, <2>1, <2>2 DEF TreeOK, ForestOK
<1>7. PathOK'
  <2>1. \A pid : InTree(pid) => InTree(pid)'
    BY <1>1 DEF InTree
  <2>2. \A pid, parent : ChildOf(pid, parent) => ChildOf(pid, parent)'
    BY <1>1, <1>5 DEF ChildOf
  <2> QED
    BY <1>1, <2>1, <2>2 DEF TreeOK, PathOK
<1>8. HitOK'
  BY <1>1, <1>3 DEF TreeOK, HitOK, IsSent
<1>9. CoveredOK'
  BY <1>1, <1>3 DEF TreeOK, CoveredOK, IsSent
<1>10. signalled' \subseteq tree' /\ OrphanOK'
  BY <1>1, <1>3 DEF TreeOK, OrphanOK
<1> QED
  BY <1>6, <1>7, <1>8, <1>9, <1>10 DEF TreeOK

(* The host is the same for every step of the terminator.                  *)
LEMMA ForestKept ==
    ASSUME UNCHANGED <<PidOf, state, born, tree, late>>
    PROVE  /\ Procs' = Procs /\ Alive' = Alive /\ RootPid' = RootPid
           /\ ForestOK => ForestOK'
           /\ \A pid : InTree(pid)' <=> InTree(pid)
           /\ \A pid, parent : ChildOf(pid, parent)' <=> ChildOf(pid, parent)
<1>1. Procs' = Procs /\ Alive' = Alive /\ RootPid' = RootPid
  BY DEF Procs, Alive, RootPid
<1>2. ForestOK => ForestOK'
  BY <1>1 DEF ForestOK
<1>3. \A pid : InTree(pid)' <=> InTree(pid)
  BY <1>1 DEF InTree
<1>4. \A pid, parent : ChildOf(pid, parent)' <=> ChildOf(pid, parent)
  BY <1>1 DEF ChildOf
<1> QED
  BY <1>1, <1>2, <1>3, <1>4

(* The steps that neither list, nor visit, nor signal.                     *)
LEMMA TreeLooks ==
    ASSUME WalkInv, NoneRecycled, TreeOK,
           \/ CloseConnection \/ Cancel
           \/ Fail \/ CheckCommand \/ VerifyConnection \/ Visited
    PROVE  TreeOK'
<1>1. UNCHANGED <<PidOf, state, born, tree, late, visited, sent, signalled>> /\ outcome = "none"
  BY DEF CloseConnection, Cancel, Fail, CheckCommand, VerifyConnection, Visited, host
<1>2. /\ Procs' = Procs /\ Alive' = Alive
      /\ ForestOK => ForestOK'
      /\ \A pid : InTree(pid)' <=> InTree(pid)
      /\ \A pid, parent : ChildOf(pid, parent)' <=> ChildOf(pid, parent)
  BY <1>1, ForestKept
<1>3. HitOK'
  BY <1>1, <1>2 DEF TreeOK, HitOK, IsSent
<1>4. signalled' \subseteq tree' /\ OrphanOK'
  BY <1>1, <1>2 DEF TreeOK, OrphanOK
<1>5. PathOK' /\ CoveredOK'
  <2>1. CASE Fail
    BY <2>1 DEF Fail, PathOK, CoveredOK
  <2>2. CASE VerifyConnection /\ pc = "verify"
    <3> DEFINE first == [pid |-> RootPid, left |-> {}]
    <3>1. stack' = <<first>> /\ pc' = "list" /\ Root \in Holder(RootPid)
      BY <2>2 DEF VerifyConnection, HasConnection
    <3>2. DOMAIN stack' = {1} /\ Len(stack') = 1 /\ stack'[1] = first
      BY <3>1
    <3>3. InTree(RootPid)
      BY <3>1 DEF InTree, NoneRecycled, TreeOK, ForestOK, RootPid, Holder, Alive
    <3>4. first.pid = RootPid /\ first.left = {}
      OBVIOUS
    <3> HIDE DEF first
    <3>5. PathOK'
      BY <1>2, <3>2, <3>3, <3>4 DEF PathOK
    <3>6. CoveredOK'
      BY <3>1, <3>2 DEF CoveredOK
    <3> QED
      BY <3>5, <3>6
  <2>3. CASE ~Fail /\ ~(VerifyConnection /\ pc = "verify")
    <3>1. UNCHANGED <<stack, outcome>> /\ (pc = "list" <=> pc' = "list")
      BY <2>3 DEF CloseConnection, Cancel, CheckCommand, VerifyConnection, Visited
    <3>2. PathOK'
      BY <1>1, <1>2, <3>1 DEF TreeOK, PathOK
    <3>3. CoveredOK'
      BY <1>1, <1>2, <3>1 DEF TreeOK, CoveredOK, IsSent
    <3> QED
      BY <3>2, <3>3
  <2> QED
    BY <2>1, <2>2, <2>3
<1> QED
  BY <1>2, <1>3, <1>4, <1>5 DEF TreeOK

(* Without recycling pgrep lists the children of the one process that was  *)
(* entered.                                                                *)
LEMMA TreeList ==
    ASSUME WalkInv, NoneRecycled, TreeOK, List
    PROVE  TreeOK'
<1> DEFINE n == Len(stack)
           top == [stack[n] EXCEPT !.left = Children(stack[n].pid)]
<1>1. /\ UNCHANGED <<PidOf, state, born, tree, late, sent, signalled, outcome>>
      /\ outcome = "none" /\ pc = "list" /\ pc' = "visit"
      /\ stack' = Append(Front(stack), top)
  BY DEF List, Last, host
<1>2. /\ Procs' = Procs /\ Alive' = Alive
      /\ ForestOK => ForestOK'
      /\ \A pid : InTree(pid)' <=> InTree(pid)
      /\ \A pid, parent : ChildOf(pid, parent)' <=> ChildOf(pid, parent)
  BY <1>1, ForestKept
<1>3. stack # << >> /\ n \in Nat \ {0} /\ n \in DOMAIN stack /\ DOMAIN stack = 1..n
      /\ stack[n] \in Frames
  <2>1. stack # << >>
    BY <1>1 DEF WalkInv, WalkOK
  <2> QED
    BY <2>1, WalkTypes DEF WalkInv
<1>4. top \in Frames /\ top.pid = stack[n].pid /\ top.left = Children(stack[n].pid)
  <2>1. Children(stack[n].pid) \subseteq Pids
    BY DEF Children, Alive, Pids
  <2> QED
    BY <1>3, <2>1 DEF Frames
<1> HIDE DEF top
<1>5. /\ Len(stack') = n /\ DOMAIN stack' = DOMAIN stack /\ stack'[n] = top
      /\ \A i \in DOMAIN stack : stack'[i].pid = stack[i].pid
      /\ \A i \in DOMAIN stack : i < n => stack'[i] = stack[i]
  BY <1>1, <1>3, <1>4, TopReplaced DEF WalkInv
<1>6. \A i \in DOMAIN stack : i > 1 => i - 1 \in DOMAIN stack
  BY <1>3
<1>7. \A i \in DOMAIN stack : i = n \/ (i < n /\ i + 1 \in DOMAIN stack)
  BY <1>3
<1> HIDE DEF n
<1>8. InTree(stack[n].pid)
  BY <1>1, <1>3 DEF TreeOK, PathOK
<1>9. ASSUME NEW pid \in Children(stack[n].pid)
      PROVE  InTree(pid) /\ ChildOf(pid, stack[n].pid)
  <2>1. PICK r \in Alive : PidOf[r] = pid /\ born[r] \in Holder(stack[n].pid)
    BY DEF Children
  <2>2. r \in Procs /\ born[r] \in Procs /\ PidOf[born[r]] = stack[n].pid /\ state[r] = "alive"
    BY <2>1 DEF Holder, Alive
  <2>3. r \in tree
    BY <1>8, <2>1, <2>2 DEF InTree, TreeOK, ForestOK
  <2>4. InTree(pid)
    BY <2>1, <2>2, <2>3 DEF InTree, NoneRecycled
  <2>5. ChildOf(pid, stack[n].pid)
    BY <2>1, <2>2 DEF ChildOf, NoneRecycled
  <2> QED
    BY <2>4, <2>5
<1>10. PathOK'
  <2>1. ASSUME NEW i \in DOMAIN stack
        PROVE  /\ InTree(stack'[i].pid)
               /\ i > 1 => ChildOf(stack'[i].pid, stack'[i - 1].pid)
               /\ \A pid \in stack'[i].left : InTree(pid) /\ ChildOf(pid, stack'[i].pid)
    <3>1. InTree(stack'[i].pid)
      BY <1>1, <1>5 DEF TreeOK, PathOK
    <3>2. i > 1 => ChildOf(stack'[i].pid, stack'[i - 1].pid)
      BY <1>1, <1>5, <1>6 DEF TreeOK, PathOK
    <3>3. CASE i = n
      BY <1>4, <1>5, <1>9, <3>1, <3>2, <3>3
    <3>4. CASE i < n
      <4>1. \A pid \in stack[i].left : InTree(pid) /\ ChildOf(pid, stack[i].pid)
        BY <1>1 DEF TreeOK, PathOK
      <4> QED
        BY <1>5, <3>1, <3>2, <3>4, <4>1
    <3> QED
      BY <1>7, <3>3, <3>4
  <2> QED
    BY <1>2, <1>5, <2>1 DEF PathOK
<1>11. CoveredOK'
  <2>1. ASSUME NEW i \in DOMAIN stack, NEW q \in Alive \ late,
               born[q] \in Alive, PidOf[born[q]] = stack[i].pid
        PROVE  \/ PidOf[q] \in stack'[i].left
               \/ IsSent(PidOf[q])
               \/ i < n /\ PidOf[q] = stack'[i + 1].pid
    <3>1. CASE i = n
      BY <1>4, <1>5, <2>1, <3>1 DEF Children, Holder
    <3>2. CASE i # n
      BY <1>1, <1>5, <1>7, <2>1, <3>2 DEF TreeOK, CoveredOK, n
    <3> QED
      BY <3>1, <3>2
  <2>2. \A x : IsSent(x)' <=> IsSent(x)
    BY <1>1 DEF IsSent
  <2> QED
    BY <1>1, <1>2, <1>5, <2>1, <2>2 DEF CoveredOK
<1>12. HitOK'
  BY <1>1, <1>2 DEF TreeOK, HitOK, IsSent
<1>13. signalled' \subseteq tree' /\ OrphanOK'
  BY <1>1, <1>2 DEF TreeOK, OrphanOK
<1> QED
  BY <1>2, <1>10, <1>11, <1>12, <1>13 DEF TreeOK

(* A child that is passed over has been signalled: it is marked and is not *)
(* one of the activations.                                                 *)
LEMMA TreeVisit ==
    ASSUME WalkInv, NoneRecycled, TreeOK, NEW child \in Pids, Visit(child)
    PROVE  TreeOK'
<1> DEFINE n == Len(stack)
           top == [stack[n] EXCEPT !.left = @ \ {child}]
           rest == Append(Front(stack), top)
           frame == [pid |-> child, left |-> {}]
<1>1. /\ UNCHANGED <<PidOf, state, born, tree, late, sent, signalled, outcome>>
      /\ outcome = "none" /\ pc = "visit" /\ child \in stack[n].left
      /\ \/ child \in visited /\ pc' = "visit" /\ stack' = rest
         \/ child \notin visited /\ pc' = "list" /\ stack' = Append(rest, frame)
  BY DEF Visit, Last, host
<1>2. /\ Procs' = Procs /\ Alive' = Alive
      /\ ForestOK => ForestOK'
      /\ \A pid : InTree(pid)' <=> InTree(pid)
      /\ \A pid, parent : ChildOf(pid, parent)' <=> ChildOf(pid, parent)
  BY <1>1, ForestKept
<1>3. stack # << >> /\ n \in Nat \ {0} /\ n \in DOMAIN stack /\ DOMAIN stack = 1..n
      /\ stack[n] \in Frames
  <2>1. stack # << >>
    BY <1>1 DEF WalkInv, WalkOK
  <2> QED
    BY <2>1, WalkTypes DEF WalkInv
<1>4. /\ top \in Frames /\ top.pid = stack[n].pid /\ top.left = stack[n].left \ {child}
      /\ frame \in Frames /\ frame.pid = child /\ frame.left = {}
  BY <1>3 DEF Frames
<1> HIDE DEF top, frame
<1>5. /\ rest \in Seq(Frames) /\ Len(rest) = n /\ DOMAIN rest = DOMAIN stack /\ rest[n] = top
      /\ \A i \in DOMAIN stack : rest[i].pid = stack[i].pid
      /\ \A i \in DOMAIN stack : i < n => rest[i] = stack[i]
  BY <1>3, <1>4, TopReplaced DEF WalkInv
<1> HIDE DEF rest
<1>6. \A j \in DOMAIN stack : stack[j].pid # child
  BY <1>1, <1>3, NotAncestor DEF TreeOK
<1>7. /\ Append(rest, frame) \in Seq(Frames)
      /\ Len(Append(rest, frame)) = n + 1
      /\ \A i \in 1..n : Append(rest, frame)[i] = rest[i]
      /\ Append(rest, frame)[n + 1] = frame
  BY <1>4, <1>5, AppendProperties
<1>8. child \notin visited =>
          /\ Len(stack') = n + 1 /\ DOMAIN stack' = 1..(n + 1)
          /\ stack'[n + 1] = frame /\ \A i \in 1..n : stack'[i] = rest[i]
  BY <1>1, <1>7, LenProperties
<1>9. \A i \in 1..n : i > 1 => i - 1 \in 1..n
  BY <1>3
<1>10. \A i \in 1..n : i = n \/ (i < n /\ i + 1 \in 1..n)
  <2>1. \A k \in Nat : \A i \in 1..k : i = k \/ (i < k /\ i + 1 \in 1..k)
    OBVIOUS
  <2> QED
    BY <1>3, <2>1
<1>11. n + 1 > 1 /\ (n + 1) - 1 = n /\ n < n + 1 /\ \A i \in 1..(n + 1) : i \in 1..n \/ i = n + 1
  BY <1>3
<1> HIDE DEF n
<1>12. \A i \in 1..n : rest[i].left \subseteq stack[i].left
  BY <1>3, <1>4, <1>5, <1>10
<1>13. ASSUME NEW i \in 1..n
       PROVE  /\ InTree(rest[i].pid)
              /\ i > 1 => ChildOf(rest[i].pid, rest[i - 1].pid)
              /\ \A pid \in rest[i].left : InTree(pid) /\ ChildOf(pid, rest[i].pid)
  <2>1. /\ InTree(stack[i].pid)
        /\ i > 1 => ChildOf(stack[i].pid, stack[i - 1].pid)
        /\ \A pid \in stack[i].left : InTree(pid) /\ ChildOf(pid, stack[i].pid)
    BY <1>1, <1>3 DEF TreeOK, PathOK
  <2> QED
    BY <1>3, <1>5, <1>9, <1>12, <2>1
<1>14. InTree(child) /\ ChildOf(child, stack[n].pid)
  BY <1>1, <1>3 DEF TreeOK, PathOK
<1>15. PathOK'
  <2>1. CASE child \in visited
    BY <1>1, <1>2, <1>3, <1>5, <1>13, <2>1 DEF PathOK
  <2>2. CASE child \notin visited
    <3> SUFFICES ASSUME NEW i \in 1..(n + 1)
                 PROVE  /\ InTree(stack'[i].pid)
                        /\ i > 1 => ChildOf(stack'[i].pid, stack'[i - 1].pid)
                        /\ \A pid \in stack'[i].left : InTree(pid) /\ ChildOf(pid, stack'[i].pid)
      BY <1>2, <1>8, <2>2 DEF PathOK
    <3>1. CASE i \in 1..n
      <4>1. stack'[i] = rest[i] /\ (i > 1 => stack'[i - 1] = rest[i - 1])
        BY <1>8, <1>9, <2>2, <3>1
      <4> QED
        BY <1>13, <3>1, <4>1
    <3>2. CASE i = n + 1
      <4>1. stack'[i] = frame /\ stack'[i - 1].pid = stack[n].pid
        BY <1>3, <1>5, <1>8, <1>11, <2>2, <3>2
      <4> QED
        BY <1>4, <1>14, <4>1
    <3> QED
      BY <1>11, <3>1, <3>2
  <2> QED
    BY <2>1, <2>2
<1>16. ASSUME NEW i \in 1..n, NEW q \in Alive \ late,
              born[q] \in Alive, PidOf[born[q]] = stack[i].pid
       PROVE  \/ PidOf[q] \in stack[i].left
              \/ IsSent(PidOf[q])
              \/ i < n /\ PidOf[q] = stack[i + 1].pid
  BY <1>1, <1>3, <1>16 DEF TreeOK, CoveredOK, n
<1>17. \A x : IsSent(x)' <=> IsSent(x)
  BY <1>1 DEF IsSent
<1>18. CoveredOK'
  <2>1. CASE child \in visited
    <3>1. IsSent(child)
      BY <1>1, <1>6, <2>1 DEF WalkInv, SentOK, IsSent
    <3>2. ASSUME NEW i \in 1..n, NEW q \in Alive \ late,
                 born[q] \in Alive, PidOf[born[q]] = rest[i].pid
          PROVE  \/ PidOf[q] \in rest[i].left
                 \/ IsSent(PidOf[q])
                 \/ i < n /\ PidOf[q] = rest[i + 1].pid
      <4>1. \/ PidOf[q] \in stack[i].left
            \/ IsSent(PidOf[q])
            \/ i < n /\ PidOf[q] = stack[i + 1].pid
        BY <1>3, <1>5, <1>16, <3>2
      <4>2. CASE i = n
        BY <1>4, <1>5, <3>1, <4>1, <4>2
      <4>3. CASE i < n
        BY <1>3, <1>5, <1>10, <4>1, <4>3
      <4> QED
        BY <1>10, <4>2, <4>3
    <3>3. stack' = rest
      BY <1>1, <2>1
    <3> QED
      BY <1>1, <1>2, <1>3, <1>5, <1>17, <3>2, <3>3 DEF CoveredOK
  <2>2. CASE child \notin visited
    <3>1. pc' = "list"
      BY <1>1, <2>2
    <3>2. ASSUME NEW i \in 1..n, NEW q \in Alive \ late,
                 born[q] \in Alive, PidOf[born[q]] = stack'[i].pid
          PROVE  \/ PidOf[q] \in stack'[i].left
                 \/ IsSent(PidOf[q])
                 \/ i < n + 1 /\ PidOf[q] = stack'[i + 1].pid
      <4>1. stack'[i] = rest[i]
        BY <1>8, <2>2
      <4>2. \/ PidOf[q] \in stack[i].left
            \/ IsSent(PidOf[q])
            \/ i < n /\ PidOf[q] = stack[i + 1].pid
        BY <1>3, <1>5, <1>16, <3>2, <4>1
      <4>3. CASE i = n
        <5>1. stack'[i + 1].pid = child /\ i < n + 1
          BY <1>4, <1>8, <1>11, <2>2, <4>3
        <5>2. i \in 1..n /\ ~(i < n)
          BY <1>3, <4>3
        <5> QED
          BY <1>4, <1>5, <4>1, <4>2, <4>3, <5>1, <5>2
      <4>4. CASE i < n
        <5>1. i + 1 \in 1..n /\ i < n + 1
          BY <1>3, <4>4
        <5>2. stack'[i + 1].pid = stack[i + 1].pid /\ rest[i] = stack[i]
          BY <1>3, <1>5, <1>8, <2>2, <4>4, <5>1
        <5> QED
          BY <4>1, <4>2, <5>1, <5>2
      <4> QED
        BY <1>10, <4>3, <4>4
    <3>3. Len(stack') = n + 1 /\ DOMAIN stack' = 1..(n + 1)
      BY <1>8, <2>2
    <3>4. ASSUME NEW i \in DOMAIN stack', ~(i = Len(stack') /\ pc' = "list"),
                 NEW q \in Alive \ late, born[q] \in Alive, PidOf[born[q]] = stack'[i].pid
          PROVE  \/ PidOf[q] \in stack'[i].left
                 \/ IsSent(PidOf[q])
                 \/ i < Len(stack') /\ PidOf[q] = stack'[i + 1].pid
      <4>1. i \in 1..n
        BY <1>11, <3>1, <3>3, <3>4
      <4> QED
        BY <3>2, <3>3, <3>4, <4>1
    <3> QED
      BY <1>1, <1>2, <1>17, <3>4 DEF CoveredOK
  <2> QED
    BY <2>1, <2>2
<1>19. HitOK'
  BY <1>1, <1>2 DEF TreeOK, HitOK, IsSent
<1>20. signalled' \subseteq tree' /\ OrphanOK'
  BY <1>1, <1>2 DEF TreeOK, OrphanOK
<1> QED
  BY <1>2, <1>15, <1>18, <1>19, <1>20 DEF TreeOK

(* When an activation ends every older living child of its process has     *)
(* been signalled.                                                         *)
LEMMA TreeSignal ==
    ASSUME WalkInv, NoneRecycled, TreeOK, Signal
    PROVE  TreeOK'
<1> DEFINE n == Len(stack)
           pid == stack[n].pid
           m == Len(sent)
<1>1. /\ UNCHANGED <<PidOf, state, born, tree, late>>
      /\ outcome = "none" /\ pc = "signal"
      /\ sent' = Append(sent, pid) /\ signalled' = signalled \cup Holder(pid)
      /\ stack' = Front(stack)
      /\ n = 1 => outcome' = "ok"
      /\ n # 1 => outcome' = "none" /\ pc' = "visit"
  BY DEF Signal, Last, host
<1>2. /\ Procs' = Procs /\ Alive' = Alive
      /\ ForestOK => ForestOK'
      /\ \A x : InTree(x)' <=> InTree(x)
      /\ \A x, parent : ChildOf(x, parent)' <=> ChildOf(x, parent)
  BY <1>1, ForestKept
<1>3. stack # << >> /\ n \in Nat \ {0} /\ n \in DOMAIN stack /\ DOMAIN stack = 1..n
      /\ m \in Nat /\ DOMAIN sent = 1..m /\ stack \in Seq(Frames)
      /\ sent \in Seq(Pids) /\ pid \in Pids /\ stack[n].left = {}
  <2>1. stack # << >> /\ stack[n].left = {}
    BY <1>1 DEF WalkInv, WalkOK
  <2> QED
    BY <2>1, WalkTypes DEF WalkInv, Frames
<1>4. /\ Len(stack') = n - 1 /\ DOMAIN stack' = 1..(n - 1)
      /\ \A i \in 1..(n - 1) : stack'[i] = stack[i]
  <2>1. /\ Front(stack) \in Seq(Frames) /\ Len(Front(stack)) = n - 1
        /\ \A i \in 1..(n - 1) : Front(stack)[i] = stack[i]
    BY <1>3, Popped
  <2>2. DOMAIN Front(stack) = 1..(n - 1)
    BY <2>1, LenProperties
  <2> QED
    BY <1>1, <2>1, <2>2
<1>5. \A x : IsSent(x)' <=> IsSent(x) \/ x = pid
  <2>1. /\ Append(sent, pid) \in Seq(Pids) /\ Len(Append(sent, pid)) = m + 1
        /\ \A i \in 1..m : Append(sent, pid)[i] = sent[i]
        /\ Append(sent, pid)[m + 1] = pid
    BY <1>3, AppendProperties
  <2>2. DOMAIN Append(sent, pid) = 1..(m + 1)
    BY <2>1, LenProperties
  <2>3. DOMAIN sent' = 1..(m + 1) /\ sent'[m + 1] = pid /\ \A i \in 1..m : sent'[i] = sent[i]
    BY <1>1, <2>1, <2>2
  <2>4. \A i \in 1..(m + 1) : i \in 1..m \/ i = m + 1
    BY <1>3
  <2>5. m + 1 \in 1..(m + 1) /\ \A i \in 1..m : i \in 1..(m + 1)
    BY <1>3
  <2> QED
    BY <1>3, <2>3, <2>4, <2>5 DEF IsSent
<1>6. \A i \in 1..(n - 1) :
          /\ i \in 1..n /\ ~(i = n) /\ (i > 1 => i - 1 \in 1..(n - 1))
          /\ i = n - 1 \/ (i < n - 1 /\ i + 1 \in 1..(n - 1))
          /\ i = n - 1 => i + 1 = n
  <2>1. \A k \in Nat : \A i \in 1..(k - 1) :
          /\ i \in 1..k /\ ~(i = k) /\ (i > 1 => i - 1 \in 1..(k - 1))
          /\ i = k - 1 \/ (i < k - 1 /\ i + 1 \in 1..(k - 1))
          /\ i = k - 1 => i + 1 = k
    OBVIOUS
  <2> QED
    BY <1>3, <2>1
<1> HIDE DEF m
<1>7. InTree(pid)
  BY <1>1, <1>3 DEF TreeOK, PathOK
<1>8. signalled' \subseteq tree'
  BY <1>1, <1>7 DEF TreeOK, InTree, Holder, Alive
<1>9. HitOK'
  BY <1>1, <1>2, <1>5 DEF TreeOK, HitOK, Holder
<1>10. ASSUME NEW i \in 1..n, NEW q \in Alive \ late,
              born[q] \in Alive, PidOf[born[q]] = stack[i].pid
       PROVE  \/ PidOf[q] \in stack[i].left
              \/ IsSent(PidOf[q])
              \/ i < n /\ PidOf[q] = stack[i + 1].pid
  BY <1>1, <1>3, <1>10 DEF TreeOK, CoveredOK
<1>11. OrphanOK'
  <2>1. ASSUME NEW q \in Alive \ late, born[q] \in signalled'
        PROVE  q \in signalled'
    <3>1. CASE born[q] \in signalled
      BY <1>1, <3>1 DEF TreeOK, OrphanOK
    <3>2. CASE born[q] \in Holder(pid)
      <4>1. born[q] \in Alive /\ PidOf[born[q]] = stack[n].pid
        BY <3>2 DEF Holder
      <4>2. n \in 1..n /\ ~(n < n)
        BY <1>3
      <4>3. IsSent(PidOf[q])
        BY <1>3, <1>10, <4>1, <4>2
      <4> QED
        BY <1>1, <4>3 DEF TreeOK, HitOK
    <3> QED
      BY <1>1, <2>1, <3>1, <3>2
  <2> QED
    BY <1>1, <1>2, <2>1 DEF OrphanOK
<1>12. CASE n = 1
  <2>1. PathOK' /\ CoveredOK'
    BY <1>1, <1>12 DEF PathOK, CoveredOK
  <2> QED
    BY <1>2, <1>8, <1>9, <1>11, <2>1 DEF TreeOK
<1>13. CASE n # 1
  <2>1. outcome' = "none" /\ pc' = "visit"
    BY <1>1, <1>13
  <2>2. PathOK'
    <3> SUFFICES ASSUME NEW i \in 1..(n - 1)
                 PROVE  /\ InTree(stack'[i].pid)
                        /\ i > 1 => ChildOf(stack'[i].pid, stack'[i - 1].pid)
                        /\ \A x \in stack'[i].left : InTree(x) /\ ChildOf(x, stack'[i].pid)
      BY <1>2, <1>4 DEF PathOK
    <3>1. /\ InTree(stack[i].pid)
          /\ i > 1 => ChildOf(stack[i].pid, stack[i - 1].pid)
          /\ \A x \in stack[i].left : InTree(x) /\ ChildOf(x, stack[i].pid)
      BY <1>1, <1>3, <1>6 DEF TreeOK, PathOK
    <3> QED
      BY <1>4, <1>6, <3>1
  <2>3. CoveredOK'
    <3>1. ASSUME NEW i \in 1..(n - 1), NEW q \in Alive \ late,
                 born[q] \in Alive, PidOf[born[q]] = stack'[i].pid
          PROVE  \/ PidOf[q] \in stack'[i].left
                 \/ IsSent(PidOf[q]) \/ PidOf[q] = pid
                 \/ i < n - 1 /\ PidOf[q] = stack'[i + 1].pid
      <4>1. stack'[i] = stack[i] /\ i \in 1..n
        BY <1>4, <1>6
      <4>2. \/ PidOf[q] \in stack[i].left
            \/ IsSent(PidOf[q])
            \/ i < n /\ PidOf[q] = stack[i + 1].pid
        BY <1>10, <3>1, <4>1
      <4>3. CASE i = n - 1
        <5>1. i + 1 = n
          BY <1>6, <4>3
        <5> QED
          BY <4>1, <4>2, <5>1
      <4>4. CASE i < n - 1 /\ i + 1 \in 1..(n - 1)
        BY <1>4, <4>1, <4>2, <4>4
      <4> QED
        BY <1>6, <4>3, <4>4
    <3> HIDE DEF n, pid
    <3>2. \A i \in DOMAIN stack' : i \in 1..(n - 1)
      BY <1>4
    <3> QED
      BY <1>1, <1>2, <1>4, <1>5, <3>1, <3>2 DEF CoveredOK
  <2> QED
    BY <1>2, <1>8, <1>9, <1>11, <2>2, <2>3 DEF TreeOK
<1> QED
  BY <1>12, <1>13

(* Every step keeps the second part of the invariant, given the first.     *)
LEMMA TreeStep == WalkInv /\ TreeInv /\ [Next]_vars => TreeInv'
<1> SUFFICES ASSUME WalkInv, TreeInv, [Next]_vars PROVE TreeInv'
  OBVIOUS
<1>1. PidOf' = PidOf
  BY DEF Next, Terminator, Returned, vars, host, Fork, Exit, CloseConnection, Cancel, Fail,
         CheckCommand, VerifyConnection, List, Visit, Visited, Signal
<1>2. NoneRecycled' => NoneRecycled
  BY <1>1 DEF NoneRecycled, Procs
<1> SUFFICES ASSUME NoneRecycled, TreeOK PROVE TreeOK'
  BY <1>2 DEF TreeInv
<1>3. CASE UNCHANGED vars
  <2>1. UNCHANGED <<PidOf, state, born, tree, late, pc, stack, sent, signalled, outcome>>
    BY <1>3 DEF vars
  <2>2. /\ Procs' = Procs /\ Alive' = Alive
        /\ ForestOK => ForestOK'
        /\ \A pid : InTree(pid)' <=> InTree(pid)
        /\ \A pid, parent : ChildOf(pid, parent)' <=> ChildOf(pid, parent)
    BY <2>1, ForestKept
  <2>3. PathOK'
    BY <2>1, <2>2 DEF TreeOK, PathOK
  <2>4. HitOK' /\ CoveredOK'
    BY <2>1, <2>2 DEF TreeOK, HitOK, CoveredOK, IsSent
  <2>5. signalled' \subseteq tree' /\ OrphanOK'
    BY <2>1, <2>2 DEF TreeOK, OrphanOK
  <2> QED
    BY <2>2, <2>3, <2>4, <2>5 DEF TreeOK
<1> DEFINE Forks == \E q, c \in Procs : Fork(q, c)
           Exits == \E q \in Procs : Exit(q)
           Looks == \/ CloseConnection \/ Cancel
                    \/ Fail \/ CheckCommand \/ VerifyConnection \/ Visited
           Visits == \E child \in Pids : Visit(child)
<1>4. Forks => TreeOK'
  BY TreeFork
<1>5. Exits => TreeOK'
  BY TreeExit
<1>6. Looks => TreeOK'
  BY TreeLooks
<1>7. Visits => TreeOK'
  BY TreeVisit
<1>8. List \/ Signal => TreeOK'
  BY TreeList, TreeSignal
<1>9. UNCHANGED vars \/ Forks \/ Exits \/ Looks \/ Visits \/ List \/ Signal
  BY DEF Next, Terminator, Returned
<1> HIDE DEF Forks, Exits, Looks, Visits
<1> QED
  BY <1>3, <1>4, <1>5, <1>6, <1>7, <1>8, <1>9

-----------------------------------------------------------------------------
(* The position of the walk determines what is marked and what has been    *)
(* signalled, whatever processes fork, exit and get the pids of others.    *)
THEOREM WalkInvariant == Spec => []WalkInv
  BY WalkInit, WalkStep, PTL DEF Spec

(* kill is never called twice with one pid, although the tree is read      *)
(* while it changes and pids come back: the visited map is enough.         *)
THEOREM NoPidIsSignalledTwice == Spec => []NoPidTwice
<1>1. WalkInv => NoPidTwice
  BY DEF WalkInv
<1> QED
  BY <1>1, WalkInvariant, PTL

(* The session is signalled after everything below it, by the call that    *)
(* succeeds: an error of any command leaves the session itself alone.      *)
THEOREM RootIsSignalledLast == Spec => []RootLast
<1>1. WalkInv => RootLast
  BY DEF WalkInv
<1> QED
  BY <1>1, WalkInvariant, PTL

(* The second validation is enough, provided the pid of the session is not *)
(* recycled between it and the signal: no other process that has its pid   *)
(* is signalled.                                                           *)
THEOREM RootSignalIsAimed == Spec => []RootSignalHitsSession
<1>1. WalkInv => RootSignalHitsSession
  BY DEF WalkInv
<1> QED
  BY <1>1, WalkInvariant, PTL

(* Without recycling the stack is a path in the tree of processes that     *)
(* descend from the session, however it grows and shrinks meanwhile.       *)
THEOREM TreeInvariant == Spec => []TreeInv
<1>1. Init => WalkInv /\ TreeInv
  BY WalkInit, TreeInit
<1>2. WalkInv /\ TreeInv /\ [Next]_vars => WalkInv' /\ TreeInv'
  BY WalkStep, TreeStep
<1> QED
  BY <1>1, <1>2, PTL DEF Spec

(* Only the session and its descendants are signalled, although the pids   *)
(* of children are not validated, as long as no pid is recycled.           *)
THEOREM OnlyDescendantsSignalled == Spec => []OnlyTreeSignalled
<1>1. TreeInv => OnlyTreeSignalled
  BY DEF TreeInv, TreeOK, OnlyTreeSignalled
<1> QED
  BY <1>1, TreeInvariant, PTL

(* The walk leaves no process that is older than it without its parent:    *)
(* what pgrep does not list any more has exited.                           *)
THEOREM NoOrphanIsLeft == Spec => []NoOrphanLeft
<1>1. TreeInv => NoOrphanLeft
  BY DEF TreeInv, TreeOK, OrphanOK, NoOrphanLeft
<1> QED
  BY <1>1, TreeInvariant, PTL
=============================================================================
