---------------------------- MODULE WorkerProofs ----------------------------
(***************************************************************************)
(* The safety of a background process, for every entrypoint and every      *)
(* number of items in a batch.                                             *)
(*                                                                         *)
(* None of the properties is inductive by itself.  That the loop ends only *)
(* on request needs that its stop event and its cancellation have no other *)
(* cause than the signal; that the resources outlive the task, and even    *)
(* the types, need that there is no task before main() waits for it, and   *)
(* never one for redrive.                                                  *)
(***************************************************************************)
EXTENDS Worker, TLAPS

\* Where the task, the stop event and the cancellation can come from.
CausesInv ==
    /\ stop => shutdown
    /\ cancelled => shutdown
    /\ main = "drain" => shutdown
    /\ main \in {"boot", "connect"} => task = "none"
    /\ kind = "redrive" => main \in {"boot", "close", "exited"} /\ task = "none"
    /\ cancelled => kind # "redrive" /\ main \in {"drain", "close", "exited"}

WorkerInv ==
    /\ TypeOK
    /\ CausesInv
    /\ ResourcesOutliveTask
    /\ LoopOutlivesErrors

\* An empty batch has no item in hand.
LEMMA NoBatchType ==
    /\ NoBatch \in [Item -> {"none", "waiting", "begun", "recorded", "left"}]
    /\ \A i \in Item : NoBatch[i] \notin {"waiting", "begun"}
  BY DEF NoBatch

\* A process starts with no task, no request and no batch.
LEMMA WorkerInit == Init => WorkerInv
  BY NoBatchType DEF Init, WorkerInv, TypeOK, CausesInv, ResourcesOutliveTask,
     LoopOutlivesErrors

\* Every step keeps the types; an item is only in hand during a batch.
LEMMA WorkerTypeStep ==
    ASSUME TypeOK, CausesInv, [Next]_vars
    PROVE  TypeOK'
<1>1. CASE MainStep
  <2>1. CASE Boot \/ Connect
    BY <2>1 DEF TypeOK, CausesInv, Boot, Connect
  <2>2. CASE StartFails \/ Drained \/ Close
    BY <2>2 DEF TypeOK, StartFails, Drained, Close
  <2>3. CASE Wake
    BY <2>3 DEF TypeOK, Wake
  <2> QED
    BY <1>1, <2>1, <2>2, <2>3 DEF MainStep
<1>2. CASE DrainTimeout \/ Signal
  BY <1>2 DEF TypeOK, DrainTimeout, Signal
<1>3. CASE StartLoop \/ Poll \/ IdleEnds \/ ClaimFails
  BY <1>3 DEF TypeOK, StartLoop, Poll, IdleEnds, ClaimFails, Pause
<1>4. CASE BatchReturns
  BY <1>4, NoBatchType DEF TypeOK, BatchReturns
<1>5. CASE TaskCancelled
  BY <1>5 DEF TypeOK, TaskCancelled
<1>6. CASE Claim
  BY <1>6 DEF TypeOK, Claim, Pause
<1>7. ASSUME NEW i \in Item, BeginItem(i) \/ FinishItem(i)
      PROVE  TypeOK'
  <2>1. task = "batch" /\ UNCHANGED <<kind, main, task, stop, shutdown, cancelled>>
    BY <1>7 DEF TypeOK, BeginItem, FinishItem
  <2>2. item' \in [Item -> {"none", "waiting", "begun", "recorded", "left"}]
    BY <1>7 DEF TypeOK, BeginItem, FinishItem
  <2> QED
    BY <2>1, <2>2 DEF TypeOK
<1>8. CASE UNCHANGED vars
  BY <1>8 DEF TypeOK, vars
<1> QED
  BY <1>1, <1>2, <1>3, <1>4, <1>5, <1>6, <1>7, <1>8 DEF Next, RunStep, Answer, Exited

\* Only the signal handler asks for the end, and only main() makes a task.
LEMMA CausesStep ==
    ASSUME TypeOK, CausesInv, [Next]_vars
    PROVE  CausesInv'
<1>1. CASE MainStep
  BY <1>1 DEF TypeOK, CausesInv, MainStep, Boot, Connect, StartFails, Wake, Drained, Close
<1>2. CASE DrainTimeout \/ Signal
  BY <1>2 DEF TypeOK, CausesInv, DrainTimeout, Signal
<1>3. CASE RunStep \/ Answer
  <2>1. UNCHANGED <<kind, main, shutdown, cancelled>> /\ (stop' => stop)
    BY <1>3 DEF TypeOK, RunStep, Answer, StartLoop, Poll, BatchReturns, IdleEnds, TaskCancelled,
       BeginItem, Claim, ClaimFails, FinishItem
  <2>2. task = "none" => UNCHANGED task \/ cancelled
    BY <1>3 DEF RunStep, Answer, StartLoop, Poll, BatchReturns, IdleEnds, TaskCancelled,
       BeginItem, Claim, ClaimFails, FinishItem
  <2> QED
    BY <2>1, <2>2 DEF CausesInv
<1>4. CASE UNCHANGED vars
  BY <1>4 DEF CausesInv, vars
<1> QED
  BY <1>1, <1>2, <1>3, <1>4 DEF Next, Exited

\* The resources are released after the task, which itself never ends unasked.
LEMMA TaskStep ==
    ASSUME TypeOK, CausesInv, ResourcesOutliveTask, LoopOutlivesErrors, [Next]_vars
    PROVE  ResourcesOutliveTask' /\ LoopOutlivesErrors'
<1> USE DEF TypeOK, CausesInv, ResourcesOutliveTask, LoopOutlivesErrors
<1>1. CASE MainStep
  BY <1>1 DEF MainStep, Boot, Connect, StartFails, Wake, Drained, Close
<1>2. CASE DrainTimeout \/ Signal
  BY <1>2 DEF DrainTimeout, Signal
<1>3. CASE StartLoop \/ Poll \/ BatchReturns \/ IdleEnds
  BY <1>3 DEF StartLoop, Poll, BatchReturns, IdleEnds
<1>4. CASE TaskCancelled
  BY <1>4 DEF TaskCancelled
<1>5. CASE Claim \/ ClaimFails
  BY <1>5 DEF Claim, ClaimFails, Pause
<1>6. ASSUME NEW i \in Item, BeginItem(i) \/ FinishItem(i)
      PROVE  UNCHANGED <<main, task, shutdown>>
  BY <1>6 DEF BeginItem, FinishItem
<1>7. CASE UNCHANGED vars
  BY <1>7 DEF vars
<1> QED
  BY <1>1, <1>2, <1>3, <1>4, <1>5, <1>6, <1>7 DEF Next, RunStep, Answer, Exited

\* WorkerInv holds in every reachable state.
THEOREM WorkerSafety == Spec => []WorkerInv
<1>1. WorkerInv /\ [Next]_vars => WorkerInv'
  BY WorkerTypeStep, CausesStep, TaskStep DEF WorkerInv
<1> QED
  BY <1>1, WorkerInit, PTL DEF Spec

\* The state of a process and of the batch in its hands is well formed: an item
\* is waiting or begun only while the loop is inside a batch.
THEOREM WorkerTypes == Spec => []TypeOK
  BY WorkerSafety, PTL DEF WorkerInv

\* container.close() and broker.close() come after the end of the task, whenever
\* the signal, the drain timeout or a failure at startup arrives.
THEOREM ResourcesAlwaysOutliveTask == Spec => []ResourcesOutliveTask
  BY WorkerSafety, PTL DEF WorkerInv

\* run() only returns on request: whatever run_once() raises, the loop goes on.
THEOREM LoopAlwaysOutlivesErrors == Spec => []LoopOutlivesErrors
  BY WorkerSafety, PTL DEF WorkerInv

\* From the step after a signal that a started loop has not forgotten, no batch
\* is claimed and the relay begins no message.
THEOREM StopIsAlwaysObeyed == Spec => StopIsObeyed
<1>1. ASSUME TypeOK, Next, stop, task # "created"
      PROVE  /\ task' = "claim" => task = "claim"
             /\ kind = "relay" => \A i \in Item : item'[i] = "begun" => item[i] = "begun"
  <2>1. task' = "claim" => task = "claim"
    BY <1>1 DEF Next, MainStep, Boot, Connect, StartFails, Wake, Drained, Close, DrainTimeout,
       Signal, RunStep, Answer, StartLoop, Poll, BatchReturns, IdleEnds, TaskCancelled, BeginItem,
       Claim, ClaimFails, FinishItem, Exited, Pause, vars
  <2>2. ASSUME kind = "relay", NEW i \in Item, item'[i] = "begun"
        PROVE  item[i] = "begun"
    <3>1. CASE UNCHANGED item
      BY <2>2, <3>1
    <3>2. ASSUME NEW j \in Item, BeginItem(j)
          PROVE  item[i] = "begun"
      BY <1>1, <2>2, <3>2 DEF TypeOK, BeginItem
    <3>3. ASSUME NEW j \in Item, FinishItem(j)
          PROVE  item[i] = "begun"
      BY <1>1, <2>2, <3>3 DEF TypeOK, FinishItem
    <3>4. CASE Claim \/ BatchReturns \/ TaskCancelled
      BY <1>1, <2>2, <3>4 DEF TypeOK, Claim, BatchReturns, TaskCancelled, NoBatch
    <3> QED
      BY <1>1, <3>1, <3>2, <3>3, <3>4 DEF Next, MainStep, Boot, Connect, StartFails, Wake,
         Drained, Close, DrainTimeout, Signal, RunStep, Answer, StartLoop, Poll, IdleEnds,
         ClaimFails, Exited, vars
  <2> QED
    BY <2>1, <2>2
<1>2. TypeOK /\ [Next]_vars =>
        [stop /\ stop' /\ task # "created" =>
           /\ task' = "claim" => task = "claim"
           /\ kind = "relay" => \A i \in Item : item'[i] = "begun" => item[i] = "begun"]_vars
  BY <1>1
<1> QED
  BY <1>2, WorkerTypes, PTL DEF Spec, StopIsObeyed
=============================================================================
