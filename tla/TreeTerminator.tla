--------------------------- MODULE TreeTerminator ---------------------------
(***************************************************************************)
(* TreeTerminator.Terminate and terminateTree of                           *)
(* internal/monitor/process.go: one call of the enforcer for the session   *)
(* with pid RootPid, against a host whose processes fork and exit between  *)
(* any two of its commands.                                                *)
(*                                                                         *)
(* A process is an incarnation of a pid: two processes may have the same   *)
(* pid at different times.  "born" is the process that forked it; the      *)
(* parent that pgrep -P sees is the same while that process lives, and     *)
(* launchd afterwards.  terminateTree is recursive: "stack" holds its      *)
(* activations, innermost last.  ps, pgrep, lsof and kill may fail, and    *)
(* the first three do once the context is cancelled.  main always gives    *)
(* the terminator a controller and a verifier.                             *)
(***************************************************************************)
EXTENDS Naturals, Sequences, SequencesExt

CONSTANTS
    PidMaps,       \* the hosts: functions from processes to pids
    SessionProcs,  \* processes that ps shows as an sshd session
    Root           \* the session that lsof reported

(* The parent of a process whose own parent has exited is not one of them. *)
launchd == "launchd"

ASSUME TreeConstants ==
    /\ Root \in SessionProcs
    /\ \A pids \in PidMaps :
          SessionProcs \subseteq DOMAIN pids /\ launchd \notin DOMAIN pids

VARIABLES
    PidOf,     \* process -> pid, for the processes that may ever exist
    state,     \* process -> "unborn", "alive" or "dead"
    born,      \* process -> the process that forked it, or launchd
    open,      \* the expected connection of Root is established
    tree,      \* the processes descended from Root
    late,      \* the processes forked since Terminate was called
    ctxDone,   \* the context is cancelled
    pc,        \* the next command of the terminator
    stack,     \* activations of terminateTree: [pid, left]
    visited,   \* pids entered
    sent,      \* pids that kill was called with, in order
    signalled, \* processes that got a SIGTERM
    outcome    \* "none", "ok" or "error"

vars == <<PidOf, state, born, open, tree, late, ctxDone, pc, stack, visited, sent,
          signalled, outcome>>
host == <<PidOf, state, born, open, tree, late>>
-----------------------------------------------------------------------------
Procs == DOMAIN PidOf
RootPid == PidOf[Root]
Pids == {PidOf[q] : q \in Procs}

Alive == {q \in Procs : state[q] = "alive"}
Holder(pid) == {q \in Alive : PidOf[q] = pid}

(* Mutant: pgrep is not told the parent. *)
ChildrenOfAnyone(pid) == {PidOf[q] : q \in Alive}

(* pgrep -P: the pids of the living processes whose parent has the pid. *)
Children(pid) == {PidOf[q] : q \in {r \in Alive : born[r] \in Holder(pid)}}

(* ps shows an sshd session: isSSHSessionCommand. *)
IsSession(pid) == Holder(pid) \cap SessionProcs # {}

(* LsofConnectionVerifier.Verify: the pid has the expected connection. *)
HasConnection(pid) == open /\ Root \in Holder(pid)

(* Any forest over the processes alive, with distinct pids.  Root may have *)
(* exited since lsof reported it.                                          *)
Init ==
    /\ PidOf \in PidMaps
    /\ state \in [Procs -> {"unborn", "alive", "dead"}]
    /\ state[Root] # "unborn" /\ \A q \in Procs \ {Root} : state[q] # "dead"
    /\ \A q, r \in Alive : PidOf[q] = PidOf[r] => q = r
    /\ born \in [Procs -> Alive \cup {launchd}]
    /\ born[Root] = launchd
    /\ \A q \in Procs \ Alive : born[q] = launchd
    /\ tree \in SUBSET Alive
    /\ \A q \in Alive : q \in tree <=> q = Root \/ born[q] \in tree
    /\ \A q \in Alive : q \in tree \/ born[q] = launchd
    /\ \A S \in SUBSET (tree \ {Root}) : (\A q \in S : born[q] \in S) => S = {}
    /\ open \in BOOLEAN
    /\ late = {}
    /\ ctxDone = FALSE
    /\ pc = "command"
    /\ stack = << >>
    /\ visited = {}
    /\ sent = << >>
    /\ signalled = {}
    /\ outcome = "none"
-----------------------------------------------------------------------------
(* The host, until Terminate has returned.  A pid in use is not handed     *)
(* out, and the root's pid is not recycled between its last verification   *)
(* and the signal.                                                         *)
Fork(q, c) ==
    /\ outcome = "none"
    /\ q \in Alive
    /\ state[c] = "unborn"
    /\ Holder(PidOf[c]) = {}
    /\ ~(pc = "signal" /\ Len(stack) = 1 /\ PidOf[c] = RootPid)
    /\ state' = [state EXCEPT ![c] = "alive"]
    /\ born' = [born EXCEPT ![c] = q]
    /\ tree' = IF q \in tree THEN tree \cup {c} ELSE tree
    /\ late' = late \cup {c}
    /\ UNCHANGED <<PidOf, open, ctxDone, pc, stack, visited, sent, signalled, outcome>>

Exit(q) ==
    /\ outcome = "none"
    /\ q \in Alive
    /\ state' = [state EXCEPT ![q] = "dead"]
    /\ UNCHANGED <<PidOf, born, open, tree, late, ctxDone, pc, stack, visited, sent,
                   signalled, outcome>>

CloseConnection ==
    /\ outcome = "none"
    /\ open
    /\ open' = FALSE
    /\ UNCHANGED <<PidOf, state, born, tree, late, ctxDone, pc, stack, visited, sent,
                   signalled, outcome>>

Cancel ==
    /\ outcome = "none"
    /\ ~ctxDone
    /\ ctxDone' = TRUE
    /\ UNCHANGED <<host, pc, stack, visited, sent, signalled, outcome>>
-----------------------------------------------------------------------------
(* Mutant: a command that fails is tried again and again. *)
FailForever ==
    /\ outcome = "none"
    /\ pc # "visit"
    /\ UNCHANGED vars

(* An error of a command, or a refusal, ends every activation. *)
Fail ==
    /\ outcome = "none"
    /\ pc # "visit"
    /\ outcome' = "error"
    /\ stack' = << >>
    /\ UNCHANGED <<host, ctxDone, pc, visited, sent, signalled>>

(* Command and isSSHSessionCommand, before the walk and again after it. *)
CheckCommand ==
    /\ outcome = "none"
    /\ pc \in {"command", "recheck command"}
    /\ ~ctxDone
    /\ IsSession(RootPid)
    /\ pc' = IF pc = "command" THEN "verify" ELSE "recheck verify"
    /\ UNCHANGED <<host, ctxDone, stack, visited, sent, signalled, outcome>>

(* verifyConnection; the first time terminateTree is entered for the root. *)
VerifyConnection ==
    /\ outcome = "none"
    /\ pc \in {"verify", "recheck verify"}
    /\ ~ctxDone
    /\ HasConnection(RootPid)
    /\ IF pc = "verify"
       THEN pc' = "list" /\ stack' = <<[pid |-> RootPid, left |-> {}]>>
       ELSE pc' = "signal" /\ UNCHANGED stack
    /\ UNCHANGED <<host, ctxDone, visited, sent, signalled, outcome>>

(* Mutant: the pid is not marked. *)
ListUnmarked ==
    /\ outcome = "none"
    /\ pc = "list"
    /\ ~ctxDone
    /\ stack' = Append(Front(stack), [Last(stack) EXCEPT !.left = Children(Last(stack).pid)])
    /\ pc' = "visit"
    /\ UNCHANGED <<host, ctxDone, visited, sent, signalled, outcome>>

(* The innermost activation marks its pid and lists the children. *)
List ==
    /\ outcome = "none"
    /\ pc = "list"
    /\ ~ctxDone
    /\ visited' = visited \cup {Last(stack).pid}
    /\ stack' = Append(Front(stack), [Last(stack) EXCEPT !.left = Children(Last(stack).pid)])
    /\ pc' = "visit"
    /\ UNCHANGED <<host, ctxDone, sent, signalled, outcome>>

(* Mutant: every child is entered, seen or not. *)
VisitAgain(child) ==
    /\ outcome = "none"
    /\ pc = "visit"
    /\ child \in Last(stack).left
    /\ stack' = Append(Append(Front(stack), [Last(stack) EXCEPT !.left = @ \ {child}]),
                       [pid |-> child, left |-> {}])
    /\ pc' = "list"
    /\ UNCHANGED <<host, ctxDone, visited, sent, signalled, outcome>>

(* The loop over the children: a pid seen before is passed over. *)
Visit(child) ==
    /\ outcome = "none"
    /\ pc = "visit"
    /\ child \in Last(stack).left
    /\ LET rest == Append(Front(stack), [Last(stack) EXCEPT !.left = @ \ {child}])
       IN  IF child \in visited
           THEN pc' = "visit" /\ stack' = rest
           ELSE pc' = "list" /\ stack' = Append(rest, [pid |-> child, left |-> {}])
    /\ UNCHANGED <<host, ctxDone, visited, sent, signalled, outcome>>

(* Mutant: the loop over the children may end before the last. *)
VisitedEarly ==
    /\ outcome = "none"
    /\ pc = "visit"
    /\ pc' = IF Len(stack) = 1 THEN "recheck command" ELSE "signal"
    /\ UNCHANGED <<host, ctxDone, stack, visited, sent, signalled, outcome>>

(* Mutant: the root is not validated again. *)
VisitedTrusting ==
    /\ outcome = "none"
    /\ pc = "visit"
    /\ Last(stack).left = {}
    /\ pc' = "signal"
    /\ UNCHANGED <<host, ctxDone, stack, visited, sent, signalled, outcome>>

(* After the children: only the root is validated again. *)
Visited ==
    /\ outcome = "none"
    /\ pc = "visit"
    /\ Last(stack).left = {}
    /\ pc' = IF Len(stack) = 1 THEN "recheck command" ELSE "signal"
    /\ UNCHANGED <<host, ctxDone, stack, visited, sent, signalled, outcome>>

(* kill(pid, SIGTERM); ESRCH is not an error. *)
Signal ==
    /\ outcome = "none"
    /\ pc = "signal"
    /\ sent' = Append(sent, Last(stack).pid)
    /\ signalled' = signalled \cup Holder(Last(stack).pid)
    /\ stack' = Front(stack)
    /\ IF Len(stack) = 1
       THEN outcome' = "ok" /\ UNCHANGED pc
       ELSE pc' = "visit" /\ UNCHANGED outcome
    /\ UNCHANGED <<host, ctxDone, visited>>

Returned == outcome # "none" /\ UNCHANGED vars

Terminator ==
    \/ Fail
    \/ CheckCommand
    \/ VerifyConnection
    \/ List
    \/ \E child \in Pids : Visit(child)
    \/ Visited
    \/ Signal

Next ==
    \/ \E q, c \in Procs : Fork(q, c)
    \/ \E q \in Procs : Exit(q)
    \/ CloseConnection
    \/ Cancel
    \/ Terminator
    \/ Returned

Spec == Init /\ [][Next]_vars

(* Terminate is a running call: each of its commands ends. *)
FairSpec == Spec /\ WF_vars(Terminator)
-----------------------------------------------------------------------------
(* Type correctness of the walk. *)
TypeOK ==
    /\ PidOf \in PidMaps
    /\ state \in [Procs -> {"unborn", "alive", "dead"}]
    /\ born \in [Procs -> Procs \cup {launchd}]
    /\ open \in BOOLEAN
    /\ tree \subseteq Procs
    /\ late \subseteq Procs
    /\ ctxDone \in BOOLEAN
    /\ pc \in {"command", "verify", "list", "visit", "recheck command",
               "recheck verify", "signal"}
    /\ stack \in Seq([pid : Pids, left : SUBSET Pids])
    /\ visited \subseteq Pids
    /\ sent \in Seq(Pids)
    /\ signalled \subseteq Procs
    /\ outcome \in {"none", "ok", "error"}

(* The visited set keeps the walk from calling kill twice with one pid,    *)
(* although processes move in the tree and pids come back while it runs.   *)
NoPidTwice == IsInjective(sent)

(* The root is signalled last and only by a call that succeeds: after an   *)
(* error or a refusal the session itself was not signalled, whatever was   *)
(* signalled below it.                                                     *)
RootLast ==
    \A i \in DOMAIN sent : sent[i] = RootPid => i = Len(sent) /\ outcome = "ok"

(* No SIGTERM meant for the session hits another process that got its pid, *)
(* not even one that turns up as a child during the walk.                  *)
RootSignalHitsSession == \A q \in signalled : PidOf[q] = RootPid => q = Root

(* Every process has a pid of its own. *)
NoneRecycled == \A q, r \in Procs : PidOf[q] = PidOf[r] => q = r

(* On a host that recycles no pid, the walk signals the session and        *)
(* processes descended from it, and nothing else.                          *)
OnlyTreeSignalled == NoneRecycled => signalled \subseteq tree

(* On a host that recycles no pid, children go before their parent: a      *)
(* process that is alive and not signalled although its parent was         *)
(* signalled was forked after the walk began.                              *)
NoOrphanLeft ==
    NoneRecycled => \A q \in Alive \ late : born[q] \in signalled => q \in signalled

(* Terminate returns, however the tree changes under it. *)
AlwaysReturns == <>(outcome # "none")
=============================================================================
