------------------------------- MODULE Worker -------------------------------
(***************************************************************************)
(* The life of a background process: the entrypoints of the outbox relay   *)
(* and of the registration reconciler, the loop of the service each of     *)
(* them runs as an asyncio task, and the signal handler that stops both.   *)
(*                                                                         *)
(* Steps are what runs between two awaits.  A signal handler runs between  *)
(* any two of them.  What a batch does to the database is the subject of   *)
(* modules Outbox and Registration; here a claimed item is only begun,     *)
(* recorded, or left to its lease.  For the reconciler an item is an       *)
(* operation, for the relay the next message of a key's stream.            *)
(***************************************************************************)
EXTENDS Naturals, FiniteSets

CONSTANTS
    Kind,       \* which entrypoints to consider
    Item        \* bound: the operations or key streams a batch can hold

ASSUME WorkerAssumption == Kind \subseteq {"relay", "reconciler", "redrive"}

VARIABLES
    kind,       \* the entrypoint of this process
    main,       \* where main() is
    task,       \* where the task of run() is
    stop,       \* _stop_event of the service
    shutdown,   \* shutdown_event of main()
    cancelled,  \* whether main() has cancelled the task
    item        \* the items of the batch in hand

vars == <<kind, main, task, stop, shutdown, cancelled, item>>

NoBatch == [i \in Item |-> "none"]

TypeOK ==
    /\ kind \in Kind
    /\ main \in {"boot", "connect", "wait", "drain", "close", "exited"}
    /\ task \in {"none", "created", "poll", "claim", "batch", "idle", "done"}
    /\ {stop, shutdown, cancelled} \subseteq BOOLEAN
    /\ item \in [Item -> {"none", "waiting", "begun", "recorded", "left"}]
    /\ task # "batch" => \A i \in Item : item[i] \notin {"waiting", "begun"}

Init ==
    /\ kind \in Kind
    /\ main = "boot"
    /\ task = "none"
    /\ stop = FALSE
    /\ shutdown = FALSE
    /\ cancelled = FALSE
    /\ item = NoBatch

-----------------------------------------------------------------------------
(* main()                                                                  *)

\* The container resolves what the process needs; handlers are installed at
\* once.  The relay connects to Kafka before it creates its task.
Boot ==
    /\ main = "boot"
    /\ \/ kind = "relay" /\ main' = "connect" /\ UNCHANGED task
       \/ kind = "reconciler" /\ main' = "wait" /\ task' = "created"
       \/ kind = "redrive" /\ main' = "close" /\ UNCHANGED task
    /\ UNCHANGED <<kind, stop, shutdown, cancelled, item>>

Connect ==
    /\ main = "connect"
    /\ main' = "wait"
    /\ task' = "created"
    /\ UNCHANGED <<kind, stop, shutdown, cancelled, item>>

\* The container or the broker raised.
StartFails ==
    /\ main \in {"boot", "connect"}
    /\ main' = "close"
    /\ UNCHANGED <<kind, task, stop, shutdown, cancelled, item>>

\* The relay waits for the signal only, the reconciler for its task as well.
Wake ==
    /\ main = "wait"
    /\ \/ shutdown /\ main' = IF kind = "reconciler" /\ task = "done" THEN "close" ELSE "drain"
       \/ kind = "reconciler" /\ task = "done" /\ main' = "close"
    /\ UNCHANGED <<kind, task, stop, shutdown, cancelled, item>>

Drained ==
    /\ main = "drain"
    /\ task = "done"
    /\ main' = "close"
    /\ UNCHANGED <<kind, task, stop, shutdown, cancelled, item>>

\* Faulty variants: the cancelled task is not waited for; there is no timeout.
DrainTimeoutHasty ==
    /\ main = "drain"
    /\ ~cancelled
    /\ task # "done"
    /\ cancelled' = TRUE
    /\ main' = "close"
    /\ UNCHANGED <<kind, task, stop, shutdown, item>>


\* wait_for cancels the task and goes on waiting for it.
DrainTimeout ==
    /\ main = "drain"
    /\ ~cancelled
    /\ task # "done"
    /\ cancelled' = TRUE
    /\ UNCHANGED <<kind, main, task, stop, shutdown, item>>

\* container.close(), after the broker has been left
Close ==
    /\ main = "close"
    /\ main' = "exited"
    /\ UNCHANGED <<kind, task, stop, shutdown, cancelled, item>>

\* _handle_signal.  Before it is installed a signal ends the process.
Signal ==
    /\ main # "exited"
    /\ IF main = "boot" \/ kind = "redrive"
       THEN main' = "exited" /\ UNCHANGED <<stop, shutdown>>
       ELSE stop' = TRUE /\ shutdown' = TRUE /\ UNCHANGED main
    /\ UNCHANGED <<kind, task, cancelled, item>>

-----------------------------------------------------------------------------
(* run(), run_once()                                                       *)

\* Whatever was asked for before is forgotten.
StartLoop ==
    /\ task = "created"
    /\ ~cancelled
    /\ task' = "poll"
    /\ stop' = FALSE
    /\ UNCHANGED <<kind, main, shutdown, cancelled, item>>

Poll ==
    /\ task = "poll"
    /\ ~cancelled
    /\ task' = IF stop THEN "done" ELSE "claim"
    /\ UNCHANGED <<kind, main, stop, shutdown, cancelled, item>>

\* where run() goes on after an iteration that found nothing or raised
Pause == IF stop THEN "poll" ELSE "idle"

Claim ==
    /\ task = "claim"
    /\ ~cancelled
    /\ \E B \in SUBSET Item :
         /\ task' = IF B = {} THEN Pause ELSE "batch"
         /\ item' = [i \in Item |-> IF i \in B THEN "waiting" ELSE "none"]
    /\ UNCHANGED <<kind, main, stop, shutdown, cancelled>>

\* Faulty variant: the exception ends the loop.
ClaimFailsForGood ==
    /\ task = "claim"
    /\ ~cancelled
    /\ task' = "done"
    /\ UNCHANGED <<kind, main, stop, shutdown, cancelled, item>>

\* iteration_failed is logged and the loop goes on.
ClaimFails ==
    /\ task = "claim"
    /\ ~cancelled
    /\ task' = Pause
    /\ UNCHANGED <<kind, main, stop, shutdown, cancelled, item>>

\* Faulty variant: the stream of a key does not look at the stop event.
BeginItemAnyway(i) ==
    /\ item[i] = "waiting"
    /\ ~cancelled
    /\ item' = [item EXCEPT ![i] = "begun"]
    /\ UNCHANGED <<kind, main, task, stop, shutdown, cancelled>>

\* The relay looks at the stop event before each message, the reconciler
\* resumes all it has claimed.
BeginItem(i) ==
    /\ item[i] = "waiting"
    /\ ~cancelled
    /\ item' = [item EXCEPT ![i] = IF kind = "relay" /\ stop THEN "left" ELSE "begun"]
    /\ UNCHANGED <<kind, main, task, stop, shutdown, cancelled>>

\* Its outcome is recorded, or recording it raised, which is swallowed.  The
\* stream of a key then turns to the next message.
FinishItem(i) ==
    /\ item[i] = "begun"
    /\ ~cancelled
    /\ \E s \in {"recorded", "left", "waiting"} :
         /\ s = "waiting" => kind = "relay"
         /\ item' = [item EXCEPT ![i] = s]
    /\ UNCHANGED <<kind, main, task, stop, shutdown, cancelled>>

BatchReturns ==
    /\ task = "batch"
    /\ ~cancelled
    /\ \A i \in Item : item[i] \notin {"waiting", "begun"}
    /\ task' = "poll"
    /\ item' = NoBatch
    /\ UNCHANGED <<kind, main, stop, shutdown, cancelled>>

\* The poll interval is over, or the stop event woke the loop.
IdleEnds ==
    /\ task = "idle"
    /\ ~cancelled
    /\ task' = "poll"
    /\ UNCHANGED <<kind, main, stop, shutdown, cancelled, item>>

\* Faulty variant: gather leaves its children running.
TaskCancelledAlone ==
    /\ cancelled
    /\ task # "done"
    /\ task' = "done"
    /\ UNCHANGED <<kind, main, stop, shutdown, cancelled, item>>

\* CancelledError reaches the task, and what it had begun is left.
TaskCancelled ==
    /\ cancelled
    /\ task # "done"
    /\ task' = "done"
    /\ item' = [i \in Item |-> IF item[i] \in {"waiting", "begun"} THEN "left" ELSE item[i]]
    /\ UNCHANGED <<kind, main, stop, shutdown, cancelled>>

MainStep == Boot \/ Connect \/ StartFails \/ Wake \/ Drained \/ Close

RunStep ==
    \/ StartLoop \/ Poll \/ BatchReturns \/ IdleEnds \/ TaskCancelled
    \/ \E i \in Item : BeginItem(i)

\* PostgreSQL, Kafka or the profile service answers.
Answer == Claim \/ ClaimFails \/ \E i \in Item : FinishItem(i)

Exited == main = "exited" /\ UNCHANGED vars

Next ==
    \/ MainStep \/ DrainTimeout \/ Signal \/ RunStep \/ Answer
    \/ Exited

Spec == Init /\ [][Next]_vars

\* The event loop runs what is ready, connecting to Kafka ends in one way or the
\* other, and the timer of wait_for fires.  (The handler is set by signal.signal
\* and does not itself wake a sleeping loop; the next timer does.)  What the task
\* waits for, PostgreSQL, Kafka or the profile service, may never come: there is
\* no fairness on Answer.
FairSpec ==
    /\ Spec
    /\ WF_vars(MainStep)
    /\ WF_vars(RunStep)
    /\ WF_vars(DrainTimeout)
-----------------------------------------------------------------------------
(* Properties                                                              *)

\* The broker and the container, with its database engine and HTTP client, are
\* released only once the task that uses them has ended, also when it had to be
\* cancelled.
ResourcesOutliveTask == main \in {"close", "exited"} => task \in {"none", "done"}

\* The relay's main() waits for nothing but the signal and would not notice the
\* end of its task: no failing iteration ends the loop, only a request does.
LoopOutlivesErrors == task = "done" => shutdown

\* A loop that has started obeys a signal at once: it claims no further batch,
\* and the relay begins none of the messages it still has in hand.
StopIsObeyed ==
    [][stop /\ stop' /\ task # "created" =>
          /\ task' = "claim" => task = "claim"
          /\ kind = "relay" => \A i \in Item : item'[i] = "begun" => item[i] = "begun"]_vars


\* _handle_signal: the signal tells the relay to stop polling the database.
SignalEndsPolling == [][shutdown /\ task' = "claim" => task = "claim"]_vars
=============================================================================
