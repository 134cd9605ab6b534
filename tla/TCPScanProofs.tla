--------------------------- MODULE TCPScanProofs ----------------------------
(***************************************************************************)
(* Proofs about scanTCP for every set of targets and ports and every       *)
(* concurrency: a successful scan is complete, no worker sends on a closed *)
(* channel, and the goroutines together implement ScanResult.              *)
(*                                                                         *)
(* The argument is conservation of targets: until the context is cancelled *)
(* a target is unsent, held by a worker, in the buffer, or recorded with   *)
(* exactly the ports that answered.                                        *)
(***************************************************************************)
EXTENDS TCPScan, FiniteSetTheorems, TLAPS

(* What the goroutines know of each other. *)
HandshakeOK ==
    /\ resultsClosed => targets # {} /\ \A w \in Workers : wpc[w] = "exited"
    /\ \A w \in Workers : wpc[w] \in {"probe", "send"} => wjob[w] \in targets
    /\ outcome # "none" /\ targets # {} => resultsClosed /\ results = {}
    /\ outcome = "error" => ctxDone

(* Without cancellation the producer stops only when everything is handed  *)
(* out, and a worker only when the producer has stopped.                   *)
OrderlyOK ==
    ~ctxDone =>
        /\ jobsClosed => unsent = {}
        /\ \A w \in Workers : wpc[w] \in {"done", "exited"} => jobsClosed

(* Without cancellation what workers hold and send is exact, and what is   *)
(* recorded is true.                                                       *)
ExactOK ==
    ~ctxDone =>
        /\ \A w \in Workers :
              /\ wpc[w] = "probe" => wfound[w] = Row(wjob[w]) \ wleft[w]
              /\ wpc[w] = "send" => wfound[w] = Row(wjob[w])
        /\ \A r \in results : r.ports = Row(r.address)
        /\ \A t \in targets : openPorts[t] \subseteq Row(t)

Held(t) == \E w \in Workers : wpc[w] \in {"probe", "send"} /\ wjob[w] = t
Buffered(t) == \E r \in results : r.address = t

(* Without cancellation no target is lost. *)
Conserved ==
    ~ctxDone => \A t \in targets :
        t \in unsent \/ Held(t) \/ Buffered(t) \/ openPorts[t] = Row(t)

(* The inductive invariant. *)
IInv ==
    /\ TypeOK
    /\ HandshakeOK
    /\ OrderlyOK
    /\ ExactOK
    /\ Conserved
    /\ CompleteOnSuccess
-----------------------------------------------------------------------------
(* Clamping settings.Concurrency leaves at least one worker. *)
LEMMA SomeWorker ==
    ASSUME TypeOK, targets # {} PROVE 1 \in Workers
  <1>1. IsFiniteSet(targets)
    BY ConstantsOK, FS_Subset DEF TypeOK
  <1>2. Cardinality(targets) \in Nat /\ Cardinality(targets) # 0
    BY <1>1, FS_CardinalityType, FS_EmptySet
  <1>3. QED
    BY <1>2 DEF TypeOK, Workers, WorkerCount

(* The pool is fixed once the arguments are. *)
LEMMA SameWorkers ==
    ASSUME UNCHANGED input
    PROVE  /\ Workers' = Workers
           /\ \A t : Row(t)' = Row(t)
           /\ Results' = Results
           /\ targets' = targets
  BY DEF input, Workers, WorkerCount, Row, Results

(* No step changes the arguments. *)
LEMMA InputFixed == [Next]_vars => UNCHANGED input
  BY DEF Next, vars, input, Cancel, ReturnEmpty, HandSome, Hand, CloseJobs, WorkerStep,
     Dial, Probed, SendResult, GiveUp, NoMoreJobs, WorkerDone, CloseResults,
     CollectSome, Collect, Return, Finished

(* Every step keeps the state type correct. *)
LEMMA TypeStep == TypeOK /\ HandshakeOK /\ [Next]_vars => TypeOK'
  <1> SUFFICES ASSUME TypeOK, HandshakeOK, [Next]_vars PROVE TypeOK'
    OBVIOUS
  <1>0. UNCHANGED input /\ Workers' = Workers /\ Results' = Results
    BY InputFixed, SameWorkers
  <1> USE <1>0 DEF TypeOK, input
  <1>1. CASE Cancel
    <2>1. (ctxDone \in BOOLEAN)'
      BY <1>1, Zenon DEF Cancel
    <2>2. QED
      BY <1>1, <2>1 DEF Cancel
  <1>2. CASE ReturnEmpty
    BY <1>2 DEF ReturnEmpty
  <1>3. ASSUME NEW w \in Workers, NEW t \in targets, Hand(w, t) PROVE TypeOK'
    BY <1>3 DEF Hand
  <1>4. CASE CloseJobs
    <2>1. (jobsClosed \in BOOLEAN)'
      BY <1>4, Zenon DEF CloseJobs
    <2>2. QED
      BY <1>4, <2>1 DEF CloseJobs
  <1>5. ASSUME NEW w \in Workers, NEW p \in Ports, Dial(w, p) PROVE TypeOK'
    BY <1>5 DEF Dial
  <1>6. ASSUME NEW w \in Workers, Probed(w) \/ GiveUp(w) \/ NoMoreJobs(w) \/ WorkerDone(w)
        PROVE  TypeOK'
    BY <1>6 DEF Probed, GiveUp, NoMoreJobs, WorkerDone
  <1>7. ASSUME NEW w \in Workers, SendResult(w) PROVE TypeOK'
    <2>1. [address |-> wjob[w], ports |-> wfound[w]] \in Results
      BY <1>7 DEF SendResult, HandshakeOK, Results
    <2>2. QED
      BY <1>7, <2>1 DEF SendResult
  <1>8. CASE CloseResults
    <2>1. (resultsClosed \in BOOLEAN)'
      BY <1>8, Zenon DEF CloseResults
    <2>2. QED
      BY <1>8, <2>1 DEF CloseResults
  <1>9. ASSUME NEW r \in results, Collect(r) PROVE TypeOK'
    BY <1>9 DEF Collect, Results
  <1>10. CASE Return \/ Finished \/ UNCHANGED vars
    BY <1>10 DEF Return, Finished, vars
  <1>11. QED
    BY <1>1, <1>2, <1>3, <1>4, <1>5, <1>6, <1>7, <1>8, <1>9, <1>10
    DEF Next, HandSome, WorkerStep, CollectSome

(* The first state satisfies the inductive invariant. *)
LEMMA InitIInv == Init => IInv
  <1> SUFFICES ASSUME Init PROVE IInv
    OBVIOUS
  <1>1. (ctxDone \in BOOLEAN) /\ (jobsClosed \in BOOLEAN) /\ (resultsClosed \in BOOLEAN)
    BY Zenon DEF Init
  <1>2. concurrency \in Int
    BY ConstantsOK DEF Init
  <1>3. TypeOK
    BY <1>1, <1>2 DEF Init, TypeOK
  <1>4. QED
    BY <1>3 DEF Init, IInv, HandshakeOK, OrderlyOK, ExactOK, Conserved, CompleteOnSuccess

(* Every step of every goroutine preserves it. *)
LEMMA NextIInv == IInv /\ [Next]_vars => IInv'
  <1> SUFFICES ASSUME IInv, [Next]_vars PROVE IInv'
    OBVIOUS
  <1>0. TypeOK'
    BY TypeStep DEF IInv
  <1>a. TypeOK /\ HandshakeOK /\ OrderlyOK /\ ExactOK /\ Conserved /\ CompleteOnSuccess
    BY DEF IInv
  <1>b. Workers' = Workers /\ (\A t : Row(t)' = Row(t)) /\ targets' = targets
    BY InputFixed, SameWorkers
  <1> USE <1>b
  <1>c. ASSUME UNCHANGED <<openPorts, outcome>> PROVE CompleteOnSuccess'
    BY <1>a, <1>c DEF CompleteOnSuccess
  <1>1. CASE Cancel
    <2>1. ctxDone' /\ HandshakeOK'
      BY <1>1, <1>a DEF Cancel, HandshakeOK
    <2>2. OrderlyOK' /\ ExactOK' /\ Conserved'
      BY <2>1 DEF OrderlyOK, ExactOK, Conserved
    <2>3. QED
      BY <1>0, <1>1, <1>c, <2>1, <2>2 DEF Cancel, IInv
  <1>2. CASE ReturnEmpty
    <2>1. HandshakeOK' /\ OrderlyOK' /\ ExactOK' /\ Conserved'
      BY <1>2, <1>a DEF ReturnEmpty, HandshakeOK, OrderlyOK, ExactOK, Conserved, Held, Buffered
    <2>2. CompleteOnSuccess'
      BY <1>2, <1>a DEF ReturnEmpty, CompleteOnSuccess, TypeOK
    <2>3. QED
      BY <1>0, <2>1, <2>2 DEF IInv
  <1>3. ASSUME NEW w \in Workers, NEW t \in targets, Hand(w, t) PROVE IInv'
    <2>1. /\ wpc'[w] = "probe" /\ wjob'[w] = t /\ wleft'[w] = Ports /\ wfound'[w] = {}
          /\ \A v \in Workers : v # w => /\ wpc'[v] = wpc[v] /\ wjob'[v] = wjob[v]
                                         /\ wleft'[v] = wleft[v] /\ wfound'[v] = wfound[v]
      BY <1>3, <1>a DEF Hand, TypeOK
    <2>2. HandshakeOK' /\ OrderlyOK'
      BY <1>3, <1>a, <2>1 DEF Hand, HandshakeOK, OrderlyOK
    <2>3. Row(t) \ Ports = {}
      BY DEF Row
    <2>4. ExactOK'
      BY <1>3, <1>a, <2>1, <2>3 DEF Hand, ExactOK
    <2>5. Conserved'
      BY <1>3, <1>a, <2>1 DEF Hand, Conserved, Held, Buffered
    <2>6. QED
      BY <1>0, <1>3, <1>c, <2>2, <2>4, <2>5 DEF Hand, IInv
  <1>4. CASE CloseJobs
    <2>1. HandshakeOK' /\ OrderlyOK' /\ ExactOK' /\ Conserved'
      BY <1>4, <1>a DEF CloseJobs, HandshakeOK, OrderlyOK, ExactOK, Conserved, Held, Buffered
    <2>2. QED
      BY <1>0, <1>4, <1>c, <2>1 DEF CloseJobs, IInv
  <1>5. ASSUME NEW w \in Workers, NEW p \in Ports, Dial(w, p) PROVE IInv'
    <2>1. /\ wleft'[w] = wleft[w] \ {p}
          /\ wfound'[w] = wfound[w] \cup (IF p \in Row(wjob[w]) THEN {p} ELSE {})
          /\ \A v \in Workers : v # w => wleft'[v] = wleft[v] /\ wfound'[v] = wfound[v]
      BY <1>5, <1>a DEF Dial, TypeOK, Row
    <2>2. HandshakeOK' /\ OrderlyOK'
      BY <1>5, <1>a DEF Dial, HandshakeOK, OrderlyOK
    <2>3. wfound[w] = Row(wjob[w]) \ wleft[w] /\ p \in wleft[w]
      BY <1>5, <1>a DEF Dial, ExactOK
    <2>4. wfound'[w] = Row(wjob[w]) \ wleft'[w]
      BY <2>1, <2>3
    <2>5. ExactOK'
      BY <1>5, <1>a, <2>1, <2>4 DEF Dial, ExactOK
    <2>6. Conserved'
      BY <1>5, <1>a DEF Dial, Conserved, Held, Buffered
    <2>7. QED
      BY <1>0, <1>5, <1>c, <2>2, <2>5, <2>6 DEF Dial, IInv
  <1>6. ASSUME NEW w \in Workers, Probed(w) PROVE IInv'
    <2>1. wpc'[w] = "send" /\ wpc[w] = "probe" /\ \A v \in Workers : v # w => wpc'[v] = wpc[v]
      BY <1>6, <1>a DEF Probed, TypeOK
    <2>2. HandshakeOK' /\ OrderlyOK' /\ Conserved'
      BY <1>6, <1>a, <2>1 DEF Probed, HandshakeOK, OrderlyOK, Conserved, Held, Buffered
    <2>3. ~ctxDone => wfound[w] = Row(wjob[w]) \ wleft[w] /\ wleft[w] = {}
      BY <1>6, <1>a, <2>1 DEF Probed, ExactOK
    <2>4. ~ctxDone => wfound[w] = Row(wjob[w])
      BY <2>3
    <2>5. ExactOK'
      BY <1>6, <1>a, <2>1, <2>4 DEF Probed, ExactOK
    <2>6. QED
      BY <1>0, <1>6, <1>c, <2>2, <2>5 DEF Probed, IInv
  <1>7. ASSUME NEW w \in Workers, SendResult(w) PROVE IInv'
    <2>1. /\ wpc'[w] = "receive" /\ wpc[w] = "send"
          /\ \A v \in Workers : v # w => wpc'[v] = wpc[v]
      BY <1>7, <1>a DEF SendResult, TypeOK
    <2> DEFINE sent == [address |-> wjob[w], ports |-> wfound[w]]
    <2>2. results' = results \cup {sent} /\ sent.address = wjob[w] /\ sent.ports = wfound[w]
      BY <1>7 DEF SendResult
    <2> HIDE DEF sent
    <2>3. ~resultsClosed
      BY <1>a, <2>1 DEF HandshakeOK
    <2>4. HandshakeOK' /\ OrderlyOK'
      BY <1>7, <1>a, <2>1, <2>3 DEF SendResult, HandshakeOK, OrderlyOK
    <2>5. ExactOK'
      BY <1>7, <1>a, <2>1, <2>2 DEF SendResult, ExactOK
    <2>6. Conserved'
      BY <1>7, <1>a, <2>1, <2>2 DEF SendResult, Conserved, Held, Buffered
    <2>7. QED
      BY <1>0, <1>7, <1>c, <2>4, <2>5, <2>6 DEF SendResult, IInv
  <1>8. ASSUME NEW w \in Workers, GiveUp(w) \/ NoMoreJobs(w) \/ WorkerDone(w) PROVE IInv'
    <2>1. /\ wpc'[w] \in {"done", "exited"}
          /\ \A v \in Workers : v # w => wpc'[v] = wpc[v]
          /\ UNCHANGED <<ctxDone, unsent, jobsClosed, wjob, wleft, wfound, results,
                         resultsClosed, openPorts, outcome>>
          /\ wpc[w] = "done" => wpc'[w] = "exited"
          /\ wpc[w] # "exited"
      BY <1>8, <1>a DEF GiveUp, NoMoreJobs, WorkerDone, TypeOK
    <2>2. ~ctxDone => jobsClosed /\ wpc[w] \notin {"probe", "send"}
      BY <1>8, <1>a DEF GiveUp, NoMoreJobs, WorkerDone, OrderlyOK
    <2>3. HandshakeOK' /\ OrderlyOK' /\ ExactOK'
      BY <1>a, <2>1, <2>2 DEF HandshakeOK, OrderlyOK, ExactOK
    <2>4. Conserved'
      BY <1>a, <2>1, <2>2 DEF Conserved, Held, Buffered
    <2>5. QED
      BY <1>0, <1>c, <2>1, <2>3, <2>4 DEF IInv
  <1>9. CASE CloseResults
    <2>1. HandshakeOK' /\ OrderlyOK' /\ ExactOK' /\ Conserved'
      BY <1>9, <1>a DEF CloseResults, HandshakeOK, OrderlyOK, ExactOK, Conserved, Held, Buffered
    <2>2. QED
      BY <1>0, <1>9, <1>c, <2>1 DEF CloseResults, IInv
  <1>10. ASSUME NEW r \in results, Collect(r) PROVE IInv'
    <2>1. HandshakeOK' /\ OrderlyOK' /\ ExactOK'
      BY <1>10, <1>a DEF Collect, HandshakeOK, OrderlyOK, ExactOK, TypeOK, Results
    <2>2. CompleteOnSuccess'
      BY <1>10 DEF Collect, CompleteOnSuccess
    <2>3. Conserved'
      <3> SUFFICES ASSUME ~ctxDone', NEW t \in targets
                   PROVE  (t \in unsent \/ Held(t) \/ Buffered(t) \/ openPorts[t] = Row(t))'
        BY DEF Conserved
      <3>1. ~ctxDone /\ Held(t)' = Held(t) /\ unsent' = unsent
        BY <1>10 DEF Collect, Held
      <3>2. r.address \in targets /\ r.ports = Row(r.address)
        BY <1>10, <1>a, <3>1 DEF ExactOK, TypeOK, Results
      <3>3. CASE t = r.address
        <4>1. CASE r.ports # {}
          BY <1>10, <1>a, <3>2, <3>3, <4>1 DEF Collect, TypeOK
        <4>2. CASE r.ports = {}
          <5>1. openPorts'[t] = openPorts[t] /\ Row(t) = {}
            BY <1>10, <3>2, <3>3, <4>2 DEF Collect
          <5>2. openPorts[t] \subseteq Row(t)
            BY <1>a, <3>1 DEF ExactOK
          <5>3. QED
            BY <5>1, <5>2
        <4>3. QED
          BY <4>1, <4>2
      <3>4. CASE t # r.address
        BY <1>10, <1>a, <3>1, <3>2, <3>4 DEF Collect, Conserved, Buffered, TypeOK
      <3>5. QED
        BY <3>3, <3>4
    <2>4. QED
      BY <1>0, <2>1, <2>2, <2>3 DEF IInv
  <1>11. CASE Return
    <2>1. HandshakeOK' /\ OrderlyOK' /\ ExactOK' /\ Conserved'
      BY <1>11, <1>a DEF Return, HandshakeOK, OrderlyOK, ExactOK, Conserved, Held, Buffered
    <2>2. CompleteOnSuccess'
      <3> SUFFICES ASSUME ~ctxDone
                   PROVE  openPorts = [t \in targets |-> Row(t)]
        BY <1>11 DEF Return, CompleteOnSuccess
      <3>1. targets # {} /\ results = {} /\ \A w \in Workers : wpc[w] = "exited"
        BY <1>11, <1>a DEF Return, HandshakeOK
      <3>2. unsent = {}
        BY <1>a, <3>1, SomeWorker DEF OrderlyOK
      <3>3. \A t \in targets : openPorts[t] = Row(t)
        BY <1>a, <3>1, <3>2 DEF Conserved, Held, Buffered
      <3>4. QED
        BY <1>a, <3>3 DEF TypeOK
    <2>3. QED
      BY <1>0, <2>1, <2>2 DEF IInv
  <1>12. CASE Finished \/ UNCHANGED vars
    BY <1>12, <1>a, <1>0, <1>c DEF Finished, vars, IInv, HandshakeOK, OrderlyOK, ExactOK,
       Conserved, Held, Buffered
  <1>13. QED
    BY <1>1, <1>2, <1>3, <1>4, <1>5, <1>6, <1>7, <1>8, <1>9, <1>10, <1>11, <1>12
    DEF Next, HandSome, WorkerStep, CollectSome

(* The inductive invariant holds in every reachable state. *)
THEOREM Invariance == Spec => []IInv
  BY InitIInv, NextIInv, PTL DEF Spec

(* The state of the scan is type correct. *)
THEOREM TypeCorrect == Spec => []TypeOK
  <1>1. IInv => TypeOK
    BY DEF IInv
  <1>2. QED
    BY Invariance, <1>1, PTL

(* Whatever the concurrency, and wherever the context is cancelled, a scan *)
(* that reports success found every port that answered, and no other.      *)
THEOREM Complete == Spec => []CompleteOnSuccess
  <1>1. IInv => CompleteOnSuccess
    BY DEF IInv
  <1>2. QED
    BY Invariance, <1>1, PTL

(* No worker ever sends on the closed results channel. *)
THEOREM NoPanic == Spec => []NoSendOnClosed
  <1>1. IInv => NoSendOnClosed
    BY DEF IInv, HandshakeOK, NoSendOnClosed
  <1>2. QED
    BY Invariance, <1>1, PTL

(* scanTCP returns an error only when cancelled, and leaves no worker.     *)
THEOREM Quiet == Spec => []ReturnIsQuiet
  <1>1. IInv => ReturnIsQuiet
    BY DEF IInv, HandshakeOK, ReturnIsQuiet
  <1>2. QED
    BY Invariance, <1>1, PTL

(* The goroutines of scanTCP implement the all-or-nothing ScanResult: the  *)
(* initial states agree, and every step of a goroutine is a step of        *)
(* ScanResult or leaves its variables alone.                               *)
THEOREM Refinement == Spec => Result!Spec
  <1>1. Init => Result!Init
    BY DEF Init, Result!Init, Result!Nothing
  <1>2. IInv /\ IInv' /\ [Next]_vars => [Result!Next]_(Result!vars)
    <2> SUFFICES ASSUME IInv, IInv', [Next]_vars
                 PROVE  Result!Next \/ UNCHANGED Result!vars
      OBVIOUS
    <2>0. UNCHANGED <<targets, concurrency, answers>>
      BY InputFixed DEF input
    <2>a. \A t : Result!Row(t) = Row(t)
      BY DEF Result!Row, Row
    <2>1. CASE Cancel
      BY <2>0, <2>1 DEF Cancel, Result!Next, Result!Cancel
    <2>2. CASE ReturnEmpty \/ Return
      <3>1. outcome = "none" /\ UNCHANGED <<ctxDone, openPorts>> /\ outcome' \in {"ok", "error"}
        BY <2>2 DEF ReturnEmpty, Return
      <3>2. CASE outcome' = "ok"
        <4>1. openPorts' = Result!Inventory
          BY <2>0, <2>a, <3>1, <3>2 DEF IInv, CompleteOnSuccess, Result!Inventory, Row
        <4>2. QED
          BY <2>0, <3>1, <3>2, <4>1 DEF Result!Next, Result!Succeed
      <3>3. CASE outcome' = "error"
        <4>1. ctxDone
          BY <2>2, <3>3 DEF ReturnEmpty, Return
        <4>2. QED
          BY <2>0, <3>1, <3>3, <4>1 DEF Result!Next, Result!Fail
      <3>4. QED
        BY <3>1, <3>2, <3>3
    <2>3. CASE CollectSome
      BY <2>0, <2>3 DEF CollectSome, Collect, Result!vars
    <2>4. CASE \/ HandSome \/ CloseJobs \/ CloseResults \/ Finished \/ UNCHANGED vars
               \/ \E w \in Workers : WorkerStep(w)
      <3>1. UNCHANGED <<ctxDone, openPorts, outcome>>
        BY <2>4 DEF HandSome, Hand, CloseJobs, CloseResults, Finished, vars, WorkerStep,
           Dial, Probed, SendResult, GiveUp, NoMoreJobs, WorkerDone
      <3>2. QED
        BY <2>0, <3>1 DEF Result!vars
    <2>5. QED
      BY <2>1, <2>2, <2>3, <2>4 DEF Next
  <1>3. QED
    BY <1>1, <1>2, Invariance, PTL DEF Spec, Result!Spec
=============================================================================
