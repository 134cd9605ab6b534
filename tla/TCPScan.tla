------------------------------ MODULE TCPScan -------------------------------
(***************************************************************************)
(* SystemNetworkProber.scanTCP and probeAddress of                         *)
(* internal/monitor/probe.go: a producer goroutine hands targets to a pool *)
(* of workers over an unbuffered channel, the workers probe the configured *)
(* ports and send what they found over a buffered channel, a closer waits  *)
(* for the workers and closes it, and the caller collects.  The context    *)
(* may be cancelled at any moment.                                         *)
(*                                                                         *)
(* A send and a receive on an unbuffered channel are one step.  The slice  *)
(* of targets (without duplicates, see expandProbePrefixes) and the list   *)
(* of ports are sets: their order only orders the work.  A key missing     *)
(* from the openPorts map is a target with no open port.                   *)
(***************************************************************************)
EXTENDS Integers, FiniteSets

CONSTANTS
    Hosts,          \* the addresses that may be targets
    Ports,          \* settings.TCPPorts
    Concurrencies   \* the values of settings.Concurrency

ASSUME ConstantsOK == IsFiniteSet(Hosts) /\ Concurrencies \subseteq Int

VARIABLES
    targets,        \* the targets argument
    concurrency,    \* settings.Concurrency
    answers,        \* <<host, port>> pairs that accept a connection in time
    ctxDone,        \* ctx is cancelled
    unsent,         \* targets the producer has not handed out
    jobsClosed,     \* the producer has returned and closed jobs
    wpc,            \* worker -> "receive", "probe", "send", "done", "exited"
    wjob,           \* worker -> its target
    wleft,          \* worker -> ports not dialled yet
    wfound,         \* worker -> ports that answered
    results,        \* buffer of the results channel
    resultsClosed,  \* the closer has closed results
    openPorts,      \* the map under construction
    outcome         \* "none" until scanTCP returns "ok" or "error"

vars == <<targets, concurrency, answers, ctxDone, unsent, jobsClosed, wpc,
          wjob, wleft, wfound, results, resultsClosed, openPorts, outcome>>
input == <<targets, concurrency, answers>>
-----------------------------------------------------------------------------
NoJob == "no job"

(* Mutant: a concurrency below one is not raised to one. *)
WorkerCountUnraised ==
    IF concurrency > Cardinality(targets) THEN Cardinality(targets) ELSE concurrency

(* At least one worker, and no more than there are targets. *)
WorkerCount ==
    LET atLeastOne == IF concurrency < 1 THEN 1 ELSE concurrency
    IN  IF atLeastOne > Cardinality(targets) THEN Cardinality(targets) ELSE atLeastOne

Workers == 1..WorkerCount

Row(t) == {p \in Ports : <<t, p>> \in answers}

(* With no targets scanTCP returns the empty map before it starts anything. *)
Init ==
    /\ targets \in SUBSET Hosts
    /\ concurrency \in Concurrencies
    /\ answers \in SUBSET (targets \X Ports)
    /\ ctxDone = FALSE
    /\ unsent = targets
    /\ jobsClosed = FALSE
    /\ wpc = [w \in Workers |-> "receive"]
    /\ wjob = [w \in Workers |-> NoJob]
    /\ wleft = [w \in Workers |-> {}]
    /\ wfound = [w \in Workers |-> {}]
    /\ results = {}
    /\ resultsClosed = FALSE
    /\ openPorts = [t \in targets |-> {}]
    /\ outcome = "none"

Cancel ==
    /\ ~ctxDone
    /\ ctxDone' = TRUE
    /\ UNCHANGED <<input, unsent, jobsClosed, wpc, wjob, wleft, wfound,
                   results, resultsClosed, openPorts, outcome>>

ReturnEmpty ==
    /\ targets = {}
    /\ outcome = "none"
    /\ outcome' = "ok"
    /\ UNCHANGED <<input, ctxDone, unsent, jobsClosed, wpc, wjob, wleft,
                   wfound, results, resultsClosed, openPorts>>
-----------------------------------------------------------------------------
(* The producer: jobs <- target meets a worker's receive. *)
Hand(w, t) ==
    /\ t \in unsent
    /\ ~jobsClosed
    /\ wpc[w] = "receive"
    /\ unsent' = unsent \ {t}
    /\ wpc' = [wpc EXCEPT ![w] = "probe"]
    /\ wjob' = [wjob EXCEPT ![w] = t]
    /\ wleft' = [wleft EXCEPT ![w] = Ports]
    /\ wfound' = [wfound EXCEPT ![w] = {}]
    /\ UNCHANGED <<input, ctxDone, jobsClosed, results, resultsClosed,
                   openPorts, outcome>>

(* Mutant: the producer does not watch ctx.Done. *)
CloseJobsAtEnd ==
    /\ targets # {}
    /\ ~jobsClosed
    /\ unsent = {}
    /\ jobsClosed' = TRUE
    /\ UNCHANGED <<input, ctxDone, unsent, wpc, wjob, wleft, wfound, results,
                   resultsClosed, openPorts, outcome>>

(* The producer returns at the end of the targets or on ctx.Done; the      *)
(* deferred close(jobs) runs.                                              *)
CloseJobs ==
    /\ targets # {}
    /\ ~jobsClosed
    /\ unsent = {} \/ ctxDone
    /\ jobsClosed' = TRUE
    /\ UNCHANGED <<input, ctxDone, unsent, wpc, wjob, wleft, wfound, results,
                   resultsClosed, openPorts, outcome>>
-----------------------------------------------------------------------------
(* One iteration of probeAddress.  A dial that the cancellation interrupts *)
(* finds nothing, like one that is never made.                             *)
Dial(w, p) ==
    /\ wpc[w] = "probe"
    /\ p \in wleft[w]
    /\ ~ctxDone
    /\ wleft' = [wleft EXCEPT ![w] = @ \ {p}]
    /\ wfound' = [wfound EXCEPT
                    ![w] = @ \cup (IF <<wjob[w], p>> \in answers THEN {p} ELSE {})]
    /\ UNCHANGED <<input, ctxDone, unsent, jobsClosed, wpc, wjob, results,
                   resultsClosed, openPorts, outcome>>

(* probeAddress returns after the last port, or early with what it has. *)
Probed(w) ==
    /\ wpc[w] = "probe"
    /\ wleft[w] = {} \/ ctxDone
    /\ wpc' = [wpc EXCEPT ![w] = "send"]
    /\ UNCHANGED <<input, ctxDone, unsent, jobsClosed, wjob, wleft, wfound,
                   results, resultsClosed, openPorts, outcome>>

(* The select of a worker: the result goes into the buffer if there is     *)
(* room (a receive from the collector makes room), or ctx.Done.            *)
SendResult(w) ==
    /\ wpc[w] = "send"
    /\ Cardinality(results) < WorkerCount
    /\ results' = results \cup {[address |-> wjob[w], ports |-> wfound[w]]}
    /\ wpc' = [wpc EXCEPT ![w] = "receive"]
    /\ UNCHANGED <<input, ctxDone, unsent, jobsClosed, wjob, wleft, wfound,
                   resultsClosed, openPorts, outcome>>

GiveUp(w) ==
    /\ wpc[w] = "send"
    /\ ctxDone
    /\ wpc' = [wpc EXCEPT ![w] = "done"]
    /\ UNCHANGED <<input, ctxDone, unsent, jobsClosed, wjob, wleft, wfound,
                   results, resultsClosed, openPorts, outcome>>

(* Mutant: a worker takes the zero value of the closed channel for a job. *)
TakeZeroValue(w) ==
    /\ wpc[w] = "receive"
    /\ jobsClosed
    /\ wpc' = [wpc EXCEPT ![w] = "probe"]
    /\ wjob' = [wjob EXCEPT ![w] = NoJob]
    /\ UNCHANGED <<input, ctxDone, unsent, jobsClosed, wleft, wfound, results,
                   resultsClosed, openPorts, outcome>>

(* range jobs ends when the channel is closed. *)
NoMoreJobs(w) ==
    /\ wpc[w] = "receive"
    /\ jobsClosed
    /\ wpc' = [wpc EXCEPT ![w] = "done"]
    /\ UNCHANGED <<input, ctxDone, unsent, jobsClosed, wjob, wleft, wfound,
                   results, resultsClosed, openPorts, outcome>>

(* The deferred send on workersDone meets the closer's receive. *)
WorkerDone(w) ==
    /\ wpc[w] = "done"
    /\ wpc' = [wpc EXCEPT ![w] = "exited"]
    /\ UNCHANGED <<input, ctxDone, unsent, jobsClosed, wjob, wleft, wfound,
                   results, resultsClosed, openPorts, outcome>>

(* Mutant: the closer waits for one worker only. *)
CloseResultsEarly ==
    /\ targets # {}
    /\ ~resultsClosed
    /\ \E w \in Workers : wpc[w] = "exited"
    /\ resultsClosed' = TRUE
    /\ UNCHANGED <<input, ctxDone, unsent, jobsClosed, wpc, wjob, wleft,
                   wfound, results, openPorts, outcome>>

(* The closer, after WorkerCount receives. *)
CloseResults ==
    /\ targets # {}
    /\ ~resultsClosed
    /\ \A w \in Workers : wpc[w] = "exited"
    /\ resultsClosed' = TRUE
    /\ UNCHANGED <<input, ctxDone, unsent, jobsClosed, wpc, wjob, wleft,
                   wfound, results, openPorts, outcome>>
-----------------------------------------------------------------------------
(* The collector: for result := range results. *)
Collect(r) ==
    /\ outcome = "none"
    /\ r \in results
    /\ results' = results \ {r}
    /\ openPorts' = IF r.ports # {}
                    THEN [openPorts EXCEPT ![r.address] = r.ports] ELSE openPorts
    /\ UNCHANGED <<input, ctxDone, unsent, jobsClosed, wpc, wjob, wleft,
                   wfound, resultsClosed, outcome>>

(* Mutant: the collector does not ask ctx.Err in the end. *)
ReturnUnchecked ==
    /\ outcome = "none"
    /\ resultsClosed
    /\ results = {}
    /\ outcome' = "ok"
    /\ UNCHANGED <<input, ctxDone, unsent, jobsClosed, wpc, wjob, wleft,
                   wfound, results, resultsClosed, openPorts>>

(* Mutant: the collector leaves as soon as the context is cancelled. *)
ReturnOnCancel ==
    /\ outcome = "none"
    /\ (resultsClosed /\ results = {}) \/ ctxDone
    /\ outcome' = IF ctxDone THEN "error" ELSE "ok"
    /\ UNCHANGED <<input, ctxDone, unsent, jobsClosed, wpc, wjob, wleft,
                   wfound, results, resultsClosed, openPorts>>

(* The loop ends on a closed and empty channel; ctx.Err decides. *)
Return ==
    /\ outcome = "none"
    /\ resultsClosed
    /\ results = {}
    /\ outcome' = IF ctxDone THEN "error" ELSE "ok"
    /\ UNCHANGED <<input, ctxDone, unsent, jobsClosed, wpc, wjob, wleft,
                   wfound, results, resultsClosed, openPorts>>

(* The goroutines that are left when scanTCP has returned. *)
Finished ==
    /\ outcome # "none"
    /\ targets # {} => jobsClosed
    /\ UNCHANGED vars

WorkerStep(w) ==
    \/ \E p \in Ports : Dial(w, p)
    \/ Probed(w)
    \/ SendResult(w)
    \/ GiveUp(w)
    \/ NoMoreJobs(w)
    \/ WorkerDone(w)

HandSome == \E w \in Workers, t \in targets : Hand(w, t)
CollectSome == \E r \in results : Collect(r)

Next ==
    \/ Cancel
    \/ ReturnEmpty
    \/ HandSome
    \/ CloseJobs
    \/ \E w \in Workers : WorkerStep(w)
    \/ CloseResults
    \/ CollectSome
    \/ Return
    \/ Finished

(* Goroutines are scheduled, and every dial ends: it has a timeout. *)
Fairness ==
    /\ WF_vars(ReturnEmpty)
    /\ WF_vars(HandSome)
    /\ WF_vars(CloseJobs)
    /\ \A w \in 1..Cardinality(Hosts) : WF_vars(w \in Workers /\ WorkerStep(w))
    /\ WF_vars(CloseResults)
    /\ WF_vars(CollectSome)
    /\ WF_vars(Return)

Spec == Init /\ [][Next]_vars
FairSpec == Spec /\ Fairness
-----------------------------------------------------------------------------
Results == [address : targets, ports : SUBSET Ports]

(* Type correctness of the scan. *)
TypeOK ==
    /\ targets \in SUBSET Hosts
    /\ concurrency \in Int
    /\ answers \subseteq targets \X Ports
    /\ ctxDone \in BOOLEAN
    /\ unsent \subseteq targets
    /\ jobsClosed \in BOOLEAN
    /\ wpc \in [Workers -> {"receive", "probe", "send", "done", "exited"}]
    /\ wjob \in [Workers -> targets \cup {NoJob}]
    /\ wleft \in [Workers -> SUBSET Ports]
    /\ wfound \in [Workers -> SUBSET Ports]
    /\ results \subseteq Results
    /\ resultsClosed \in BOOLEAN
    /\ openPorts \in [targets -> SUBSET Ports]
    /\ outcome \in {"none", "ok", "error"}

(* scanTCP reports success only with the complete inventory: cancellation  *)
(* cuts probes short and drops results, but never shows up as a host with  *)
(* fewer open ports.                                                       *)
CompleteOnSuccess ==
    outcome = "ok" => openPorts = [t \in targets |-> Row(t)]

(* No worker sends on the results channel once it is closed (a Go panic):  *)
(* the closer has counted every worker out first.                          *)
NoSendOnClosed ==
    \A w \in Workers : wpc[w] \in {"receive", "probe", "send"} => ~resultsClosed

(* An error comes from cancellation only, and when scanTCP returns no      *)
(* worker of it is left to touch the network.                              *)
ReturnIsQuiet ==
    outcome # "none" =>
        /\ outcome = "error" => ctxDone
        /\ targets # {} => \A w \in Workers : wpc[w] = "exited"

(* scanTCP returns and leaves no goroutine behind, the producer included,  *)
(* whenever the context is cancelled and however full the channels are.    *)
AllGoroutinesEnd ==
    <>[](/\ outcome # "none"
         /\ targets # {} => jobsClosed /\ resultsClosed
         /\ targets # {} => \A w \in Workers : wpc[w] = "exited")

(* scanTCP implements ScanResult: all or nothing, once, and eventually. *)
Result == INSTANCE ScanResult WITH
    found <- IF outcome = "ok" THEN openPorts ELSE [t \in targets |-> {}]
ImplementsScanResult == Result!FairSpec
=============================================================================
