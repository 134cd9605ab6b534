----------------------------- MODULE ScanResult -----------------------------
(***************************************************************************)
(* What a TCP scan promises to Probe (internal/monitor/probe.go): scanTCP  *)
(* returns once, either the open ports of every target or, only if the     *)
(* context was cancelled, an error.  It never returns a partial inventory  *)
(* as a success.                                                           *)
(***************************************************************************)
CONSTANTS Hosts, Ports

VARIABLES
    targets,  \* the addresses to scan
    answers,  \* the <<host, port>> pairs that accept a connection in time
    ctxDone,  \* the context is cancelled
    outcome,  \* "none", "ok" or "error"
    found     \* the returned map, target -> open ports; empty unless "ok"

vars == <<targets, answers, ctxDone, outcome, found>>

Row(t) == {p \in Ports : <<t, p>> \in answers}
Inventory == [t \in targets |-> Row(t)]
Nothing == [t \in targets |-> {}]

Init ==
    /\ targets \in SUBSET Hosts
    /\ answers \in SUBSET (targets \X Ports)
    /\ ctxDone = FALSE
    /\ outcome = "none"
    /\ found = Nothing

Cancel ==
    /\ ctxDone' = TRUE
    /\ UNCHANGED <<targets, answers, outcome, found>>

Succeed ==
    /\ outcome = "none"
    /\ outcome' = "ok"
    /\ found' = Inventory
    /\ UNCHANGED <<targets, answers, ctxDone>>

Fail ==
    /\ outcome = "none"
    /\ ctxDone
    /\ outcome' = "error"
    /\ UNCHANGED <<targets, answers, ctxDone, found>>

Next == Cancel \/ Succeed \/ Fail

Spec == Init /\ [][Next]_vars
FairSpec == Spec /\ WF_vars(Succeed \/ Fail)
=============================================================================
