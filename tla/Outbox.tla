------------------------------- MODULE Outbox -------------------------------
(***************************************************************************)
(* The transactional outbox: table outbox, its repository, and the relay   *)
(* processes (OutboxRelayService) that claim messages under a lease,       *)
(* publish them to Kafka and record the outcome.                           *)
(*                                                                         *)
(* A repository call is one transaction and one step, except the redrive   *)
(* by an operator, which first looks at the other rows of the key;         *)
(* publishing and recording the outcome are separate steps, with other     *)
(* relays in between.                                                      *)
(* Unlike registration, the outcome is fenced by the claim token alone.    *)
(* A relay's token is fresh for every batch; as a relay finishes a batch   *)
(* before it claims the next, the relay itself stands for the token.       *)
(***************************************************************************)
EXTENDS Naturals, FiniteSets

CONSTANTS
    Message,        \* message ids, in the order (created_at, id)
    KeyOf,          \* the partition key of each message
    Relay,          \* relay processes
    None,
    MaxAttempts,    \* OUTBOX_MAX_ATTEMPTS
    Lease,          \* OUTBOX_CLAIM_LEASE_SECONDS, in ticks
    RetryDelay,     \* the delays the retry policy and its jitter can produce
    BatchSize,      \* OUTBOX_BATCH_SIZE
    MaxTime,        \* bound: the clock stops here
    MaxStall,       \* bound: how old a clock reading can be when it is used
    MaxRedrives,    \* bound: operator redrives per message
    FaultHorizon    \* bound: crashes and failures happen before this time only

ASSUME OutboxAssumption ==
    /\ Message \subseteq Nat
    /\ DOMAIN KeyOf = Message
    /\ None \notin Relay
    /\ MaxAttempts \in Nat \ {0}
    /\ Lease \in Nat \ {0}
    /\ RetryDelay \subseteq Nat \ {0}
    /\ BatchSize \in Nat \ {0}
    /\ {MaxTime, MaxStall, MaxRedrives, FaultHorizon} \subseteq Nat

VARIABLES
    rows,       \* table outbox
    delivered,  \* messages appended to their topic, once or more
    redriving,  \* messages an operator's statement has found fit to redrive
    attempt,    \* messages each relay has in hand
    now

vars == <<rows, delivered, redriving, attempt, now>>

OutboxStatus == {"ABSENT", "PENDING", "CLAIMED", "SUCCESS", "QUARANTINED", "DELETED"}

\* ahead is history that no step reads: the later messages of the key which
\* were in the table before the message, or claimed when it came back from
\* quarantine, so that it cannot precede them.
OutboxMessage ==
    [status : OutboxStatus, attempts : Nat, available : Nat,
     token : Relay \cup {None}, expires : Nat, redrives : Nat,
     ahead : SUBSET Message]

\* A claimed message in the hands of a relay, with the attempts it had then.
Attempt == [pc : {"none", "publish", "finalize", "retry", "quarantine"}, attempts : Nat]

NoMessage ==
    [status |-> "ABSENT", attempts |-> 0, available |-> 0, token |-> None,
     expires |-> 0, redrives |-> 0, ahead |-> {}]

NoAttempt == [pc |-> "none", attempts |-> 0]

TypeOK ==
    /\ rows \in [Message -> OutboxMessage]
    /\ delivered \subseteq Message
    /\ redriving \subseteq Message
    /\ attempt \in [Relay -> [Message -> Attempt]]
    /\ now \in Nat

Init ==
    /\ rows = [m \in Message |-> NoMessage]
    /\ delivered = {}
    /\ redriving = {}
    /\ attempt = [r \in Relay |-> [m \in Message |-> NoAttempt]]
    /\ now = 0

-----------------------------------------------------------------------------
(* OutboxRepository                                                        *)

ClockReading == {t \in 0..now : now <= t + MaxStall}

\* bound: what is put off beyond the end of the clock is due when it stops
Capped(t) == IF t > MaxTime THEN MaxTime ELSE t

CanFail == now < FaultHorizon

SameKey(m) == {l \in Message : KeyOf[l] = KeyOf[m]}

Earlier(m) == {l \in SameKey(m) : l < m}

Later(m) == {l \in SameKey(m) : l > m}

Unfinished(m) == rows[m].status \in {"PENDING", "CLAIMED"}

Terminal(m) == rows[m].status \in {"SUCCESS", "QUARANTINED"}

Exists(m) == rows[m].status \notin {"ABSENT", "DELETED"}

\* Faulty variant: an expired claim is never recovered.
ClaimableOnlyPending(m, at) ==
    /\ rows[m].status = "PENDING" /\ rows[m].available <= at
    /\ \A l \in Earlier(m) : ~Unfinished(l)

\* Faulty variant: the earlier messages of the key are not looked at.
ClaimableInAnyOrder(m, at) ==
    \/ rows[m].status = "PENDING" /\ rows[m].available <= at
    \/ rows[m].status = "CLAIMED" /\ rows[m].expires <= at

\* the WHERE clause of claim_batch
Claimable(m, at) ==
    /\ \/ rows[m].status = "PENDING" /\ rows[m].available <= at
       \/ rows[m].status = "CLAIMED" /\ rows[m].expires <= at
    /\ \A l \in Earlier(m) : ~Unfinished(l)

\* what claim_batch writes
Claimed(m, r, at) ==
    [rows[m] EXCEPT !.status = "CLAIMED", !.token = r, !.expires = at + Lease]

\* Faulty variant: whoever asks owns the message.
OwnedByAnyone(m, r) == Exists(m)

\* the WHERE clause of finalize_published, schedule_retry and quarantine
Owned(m, r) == rows[m].status = "CLAIMED" /\ rows[m].token = r

\* Faulty variant: the claim is not released.
SettledWithClaim(m, status, availableAt) ==
    [rows[m] EXCEPT !.status = status, !.attempts = @ + 1, !.available = availableAt]

\* what the three of them write; only schedule_retry moves available_at
Settled(m, status, availableAt) ==
    [rows[m] EXCEPT !.status = status, !.attempts = @ + 1, !.token = None,
                    !.expires = 0, !.available = availableAt]

\* publish, in the transaction of the event's producer.  created_at is the time
\* of the event; the transactions commit in any order.
Publish(m) ==
    /\ rows[m].status = "ABSENT"
    /\ \E at \in ClockReading :
         rows' = [rows EXCEPT ![m] =
                   [NoMessage EXCEPT !.status = "PENDING", !.available = at,
                      !.ahead = {l \in Later(m) : rows[l].status # "ABSENT"}]]
    /\ UNCHANGED <<delivered, redriving, attempt, now>>

Redriven(m, at) ==
    [rows[m] EXCEPT !.status = "PENDING", !.attempts = 0, !.token = None,
                    !.expires = 0, !.available = at, !.redrives = @ + 1,
                    !.ahead = @ \cup {l \in Later(m) : rows[l].status = "CLAIMED"}]

\* redrive_quarantined is one statement, but under READ COMMITTED its WHERE
\* clause sees the table as it was when the statement began ...
BeginRedrive(m) ==
    /\ rows[m].status = "QUARANTINED"
    /\ \A l \in Later(m) : ~Exists(l)
    /\ rows[m].redrives < MaxRedrives
    /\ m \notin redriving
    /\ redriving' = redriving \cup {m}
    /\ UNCHANGED <<rows, delivered, attempt, now>>

\* ... and later messages may have come, and been claimed, by the time it
\* commits.  Only the row itself is looked at again, once it is locked.
RedriveQuarantined(m) ==
    /\ m \in redriving
    /\ redriving' = redriving \ {m}
    /\ \E at \in ClockReading :
         rows' = IF rows[m].status = "QUARANTINED"
                 THEN [rows EXCEPT ![m] = Redriven(m, at)]
                 ELSE rows
    /\ UNCHANGED <<delivered, attempt, now>>

\* delete_terminal_before, one row of its batch
DeleteTerminal(m) ==
    /\ Terminal(m)
    /\ rows' = [rows EXCEPT ![m].status = "DELETED"]
    /\ UNCHANGED <<delivered, redriving, attempt, now>>

-----------------------------------------------------------------------------
(* OutboxRelayService                                                      *)

\* Rows another transaction may hold locked at this instant (SKIP LOCKED).
Lockable ==
    {m \in Message : \E r \in Relay :
        attempt[r][m].pc \in {"finalize", "retry", "quarantine"}}

\* The BatchSize first candidates, oldest first.
IsBatch(B, candidates) ==
    /\ B \subseteq candidates
    /\ B # {}
    /\ Cardinality(B) <= BatchSize
    /\ B # candidates => Cardinality(B) = BatchSize
    /\ \A b \in B, c \in candidates \ B : b < c

\* run_once up to the concurrent publication of what was claimed.  A batch
\* holds one message per key at most, so its key streams are its messages.
RunOnce(r) ==
    /\ \A m \in Message : attempt[r][m].pc = "none"
    /\ \E at \in ClockReading, locked \in SUBSET Lockable, B \in SUBSET Message :
         /\ IsBatch(B, {m \in Message \ locked : Claimable(m, at)})
         /\ rows' = [m \in Message |-> IF m \in B THEN Claimed(m, r, at) ELSE rows[m]]
         /\ attempt' = [attempt EXCEPT ![r] =
                         [m \in Message |->
                           IF m \in B
                           THEN [pc |-> "publish", attempts |-> rows[m].attempts]
                           ELSE NoAttempt]]
    /\ UNCHANGED <<delivered, redriving, now>>

GoTo(r, m, pc) == attempt' = [attempt EXCEPT ![r][m].pc = pc]

Finish(r, m) == attempt' = [attempt EXCEPT ![r][m] = NoAttempt]

Deliver(m) == delivered' = delivered \cup {m}

\* publisher.publish returned
Delivered(r, m) ==
    /\ attempt[r][m].pc = "publish"
    /\ Deliver(m)
    /\ GoTo(r, m, "finalize")
    /\ UNCHANGED <<rows, redriving, now>>

\* PermanentPublishError: the payload never reaches the broker.
PublishRejected(r, m) ==
    /\ attempt[r][m].pc = "publish"
    /\ CanFail
    /\ GoTo(r, m, "quarantine")
    /\ UNCHANGED <<rows, delivered, redriving, now>>

\* Faulty variants: one attempt too many; the exception is swallowed.
AfterFailureLate(a) == IF a.attempts + 1 > MaxAttempts THEN "quarantine" ELSE "retry"

AfterFailureSwallowed(a) == "finalize"

AfterFailure(a) == IF a.attempts + 1 >= MaxAttempts THEN "quarantine" ELSE "retry"

\* Any other exception, a timeout among them: the broker may have appended the
\* message all the same.
PublishFailed(r, m) ==
    /\ attempt[r][m].pc = "publish"
    /\ CanFail
    /\ Deliver(m) \/ UNCHANGED delivered
    /\ GoTo(r, m, AfterFailure(attempt[r][m]))
    /\ UNCHANGED <<rows, redriving, now>>

FinalizePublished(r, m) ==
    /\ attempt[r][m].pc = "finalize"
    /\ rows' = IF Owned(m, r)
               THEN [rows EXCEPT ![m] = Settled(m, "SUCCESS", rows[m].available)]
               ELSE rows
    /\ Finish(r, m)
    /\ UNCHANGED <<delivered, redriving, now>>

ScheduleRetry(r, m) ==
    /\ attempt[r][m].pc = "retry"
    /\ \E at \in ClockReading, delay \in RetryDelay :
         rows' = IF Owned(m, r)
                 THEN [rows EXCEPT ![m] = Settled(m, "PENDING", Capped(at + delay))]
                 ELSE rows
    /\ Finish(r, m)
    /\ UNCHANGED <<delivered, redriving, now>>

Quarantine(r, m) ==
    /\ attempt[r][m].pc = "quarantine"
    /\ rows' = IF Owned(m, r)
               THEN [rows EXCEPT ![m] = Settled(m, "QUARANTINED", rows[m].available)]
               ELSE rows
    /\ Finish(r, m)
    /\ UNCHANGED <<delivered, redriving, now>>

\* A relay drops a message and leaves its claim to expire: the transaction of
\* the outcome raised (gather swallows it), stop() came before its stream
\* began, or the process died, which drops the rest of the batch too.
Abandon(r, m) ==
    /\ attempt[r][m].pc # "none"
    /\ CanFail
    /\ Finish(r, m)
    /\ UNCHANGED <<rows, delivered, redriving, now>>

Tick ==
    /\ now < MaxTime
    /\ now' = now + 1
    /\ UNCHANGED <<rows, delivered, redriving, attempt>>

Process(r, m) ==
    \/ Delivered(r, m) \/ PublishRejected(r, m) \/ PublishFailed(r, m)
    \/ FinalizePublished(r, m) \/ ScheduleRetry(r, m) \/ Quarantine(r, m)
    \/ Abandon(r, m)

Next ==
    \/ \E m \in Message :
         Publish(m) \/ BeginRedrive(m) \/ RedriveQuarantined(m) \/ DeleteTerminal(m)
    \/ \E r \in Relay : RunOnce(r)
    \/ \E r \in Relay, m \in Message : Process(r, m)
    \/ Tick

Spec == Init /\ [][Next]_vars

\* The relays poll forever (run), what they have in hand is scheduled, time
\* passes.  Producers, operators and failures owe nothing.
FairSpec ==
    /\ Spec
    /\ \A r \in Relay : WF_vars(RunOnce(r))
    /\ \A r \in Relay, m \in Message : WF_vars(Process(r, m))
    /\ WF_vars(Tick)

-----------------------------------------------------------------------------
(* Properties                                                              *)

\* finalize_published is reached only through a publish that returned: a
\* message recorded as SUCCESS has been appended to its topic, whoever
\* published it and whoever lost the claim in between.
SuccessMeansDelivered == \A m \in Message : rows[m].status = "SUCCESS" => m \in delivered

\* claim_batch never overtakes: a claimed message has an unfinished one before
\* it only where that one could not be seen, because it was committed after the
\* later one, or because it came back from quarantine (a redrive racing with a
\* new message of the key) when the later one had been claimed.
NoOvertaking ==
    \A m \in Message : rows[m].status = "CLAIMED" =>
        \A l \in Earlier(m) : Unfinished(l) => m \in rows[l].ahead

\* _publish_claimed compares the attempts it claimed with the limit, not the
\* row it updates; still an unfinished message always has an attempt left.
AttemptsWithinBudget ==
    \A m \in Message :
        /\ rows[m].attempts <= MaxAttempts
        /\ Unfinished(m) => rows[m].attempts < MaxAttempts

\* A claim belongs to a relay and a row has one exactly while CLAIMED
\* (ck_outbox_lifecycle); the holder of the token sees the current attempts.
ClaimsAreCurrent ==
    \A m \in Message :
        /\ rows[m].status = "CLAIMED" <=> rows[m].token # None
        /\ \A r \in Relay : attempt[r][m].pc # "none" /\ rows[m].token = r =>
             attempt[r][m].attempts = rows[m].attempts

\* Until its outcome is recorded no message is lost: unfinished rows are never
\* deleted, and a finished one changes only by cleanup or by the redrive of a
\* quarantined message.
NothingIsLost ==
    [][\A m \in Message :
          /\ Unfinished(m) => Exists(m)'
          /\ rows[m].status = "SUCCESS" => rows'[m].status \in {"SUCCESS", "DELETED"}
          /\ rows[m].status = "QUARANTINED" /\ rows'[m] # rows[m] =>
               \/ rows'[m].status = "DELETED"
               \/ rows'[m].redrives = rows[m].redrives + 1]_vars

\* Once failures have stopped, every message written to the outbox is
\* delivered or quarantined, also those whose relay died holding them and
\* those that wait behind them.
EveryMessageSettles == \A m \in Message : Unfinished(m) ~> ~Unfinished(m)

\* OutboxRelayService: FIFO is preserved within each key.  Once a later message
\* of a key is in the topic, an earlier one is not appended any more, unless the
\* later one went ahead of it in the table.
DeliveredInOrder ==
    [][\A r \in Relay, m \in Message :
          attempt[r][m].pc = "publish" /\ attempt'[r][m].pc = "finalize" =>
              Later(m) \cap delivered \subseteq rows[m].ahead]_vars
=============================================================================
