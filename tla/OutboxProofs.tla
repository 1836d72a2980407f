---------------------------- MODULE OutboxProofs ----------------------------
(***************************************************************************)
(* The safety of the outbox relay, for every number of messages, keys and  *)
(* relays and every batch size, lease, delay and attempt limit; and of its *)
(* composition with registration, for every number of operations.          *)
(***************************************************************************)
EXTENDS Announcement, TLAPS

\* What one message promises, whoever has it in hand.
MessageInv(m) ==
    /\ rows[m].status = "SUCCESS" => m \in delivered
    /\ rows[m].attempts <= MaxAttempts
    /\ Unfinished(m) => rows[m].attempts < MaxAttempts
    /\ rows[m].status = "CLAIMED" <=> rows[m].token # None
    /\ \A r \in Relay :
         LET a == attempt[r][m] IN
         /\ a.pc # "none" /\ rows[m].token = r => a.attempts = rows[m].attempts
         /\ a.pc = "finalize" => m \in delivered
         /\ a.pc = "retry" => a.attempts + 1 < MaxAttempts

\* What two messages of a key promise: the later one is claimed while the
\* earlier one is unfinished only if it went ahead of it.
OrderInv ==
    \A m \in Message : \A l \in Earlier(m) :
        rows[m].status = "CLAIMED" /\ Unfinished(l) => m \in rows[l].ahead

OutboxInv ==
    /\ TypeOK
    /\ \A m \in Message : MessageInv(m)
    /\ OrderInv

-----------------------------------------------------------------------------
(* Clock readings                                                          *)

LEMMA ReadingIsTime == ASSUME now \in Nat PROVE ClockReading \subseteq Nat
  BY DEF ClockReading

\* What schedule_retry puts off, it puts off to a time.
LEMMA DelayIsTime ==
    ASSUME now \in Nat, NEW at \in ClockReading, NEW delay \in RetryDelay
    PROVE  Capped(at + delay) \in Nat
<1>1. at \in Nat /\ delay \in Nat /\ MaxTime \in Nat
  BY ReadingIsTime, OutboxAssumption
<1>2. at + delay \in Nat
  BY <1>1
<1> QED
  BY <1>1, <1>2 DEF Capped

-----------------------------------------------------------------------------
(* What each statement writes, column by column.                           *)

\* finalize_published, schedule_retry and quarantine.
LEMMA SettledColumns ==
    ASSUME NEW m, rows[m] \in OutboxMessage, NEW at \in Nat,
           NEW status \in {"PENDING", "SUCCESS", "QUARANTINED"}
    PROVE  /\ Settled(m, status, at) \in OutboxMessage
           /\ Settled(m, status, at).status = status
           /\ Settled(m, status, at).token = None
           /\ Settled(m, status, at).attempts = rows[m].attempts + 1
           /\ Settled(m, status, at).redrives = rows[m].redrives
           /\ Settled(m, status, at).ahead = rows[m].ahead
<1>1. rows[m].attempts + 1 \in Nat
  BY DEF OutboxMessage
<1> QED
  BY <1>1, Zenon DEF OutboxMessage, OutboxStatus, Settled

\* claim_batch.
LEMMA ClaimedColumns ==
    ASSUME NEW m, rows[m] \in OutboxMessage, NEW r \in Relay, NEW at \in Nat
    PROVE  /\ Claimed(m, r, at) \in OutboxMessage
           /\ Claimed(m, r, at).status = "CLAIMED"
           /\ Claimed(m, r, at).token = r
           /\ Claimed(m, r, at).attempts = rows[m].attempts
           /\ Claimed(m, r, at).redrives = rows[m].redrives
           /\ Claimed(m, r, at).ahead = rows[m].ahead
<1>1. at + Lease \in Nat
  BY OutboxAssumption
<1> QED
  BY <1>1, Zenon DEF OutboxMessage, OutboxStatus, Claimed

\* publish.
LEMMA PublishedColumns ==
    ASSUME NEW at \in Nat, NEW ahead \in SUBSET Message
    PROVE  LET new == [NoMessage EXCEPT !.status = "PENDING", !.available = at,
                                        !.ahead = ahead] IN
           /\ new \in OutboxMessage
           /\ new.status = "PENDING" /\ new.token = None /\ new.attempts = 0
           /\ new.ahead = ahead
  BY Zenon DEF OutboxMessage, OutboxStatus, NoMessage

\* redrive_quarantined.
LEMMA RedrivenColumns ==
    ASSUME NEW m, rows[m] \in OutboxMessage, NEW at \in Nat
    PROVE  /\ Redriven(m, at) \in OutboxMessage
           /\ Redriven(m, at).status = "PENDING"
           /\ Redriven(m, at).token = None
           /\ Redriven(m, at).attempts = 0
           /\ Redriven(m, at).redrives = rows[m].redrives + 1
           /\ \A l \in Later(m) : rows[l].status = "CLAIMED" => l \in Redriven(m, at).ahead
<1> DEFINE ahead == rows[m].ahead \cup {l \in Later(m) : rows[l].status = "CLAIMED"}
<1>1. rows[m].redrives + 1 \in Nat /\ ahead \in SUBSET Message
  BY DEF OutboxMessage, Later, SameKey
<1>2. Redriven(m, at) = [rows[m] EXCEPT !.status = "PENDING", !.attempts = 0, !.token = None,
                            !.expires = 0, !.available = at, !.redrives = rows[m].redrives + 1,
                            !.ahead = ahead]
  BY Zenon DEF Redriven
<1>3. \A l \in Later(m) : rows[l].status = "CLAIMED" => l \in ahead
  OBVIOUS
<1> HIDE DEF ahead
<1>4. PICK redrives \in Nat, set \in SUBSET Message : redrives = rows[m].redrives + 1 /\ set = ahead
  BY <1>1, Zenon
<1>5. Redriven(m, at) = [status |-> "PENDING", attempts |-> 0, available |-> at, token |-> None,
                         expires |-> 0, redrives |-> redrives, ahead |-> set]
  BY <1>2, <1>4 DEF OutboxMessage
<1>6. Redriven(m, at) \in OutboxMessage
  BY <1>5 DEF OutboxMessage, OutboxStatus
<1> QED
  BY <1>3, <1>4, <1>5, <1>6

-----------------------------------------------------------------------------
(* Steps on one message and on a batch                                     *)

\* A step that writes one row preserves the invariant if it keeps the promises of
\* its message and, where it leaves the message unfinished, its record of the
\* later ones that went ahead of it.
LEMMA OneRowStep ==
    ASSUME OutboxInv, NEW m \in Message, NEW row \in OutboxMessage,
           rows' = [rows EXCEPT ![m] = row], now' \in Nat,
           delivered \subseteq delivered', delivered' \subseteq Message,
           redriving' \subseteq Message,
           attempt' \in [Relay -> [Message -> Attempt]],
           \A r \in Relay, l \in Message \ {m} : attempt'[r][l] = attempt[r][l],
           MessageInv(m)',
           row.status # "CLAIMED",
           row.status = "PENDING" =>
               \/ Unfinished(m) /\ row.ahead = rows[m].ahead
               \/ \A l \in Later(m) : rows[l].status = "CLAIMED" => l \in row.ahead
    PROVE  OutboxInv'
<1>1. rows'[m] = row /\ \A l \in Message \ {m} : rows'[l] = rows[l]
  BY DEF OutboxInv, TypeOK
<1>2. TypeOK'
  BY DEF OutboxInv, TypeOK
<1>3. ASSUME NEW l \in Message PROVE MessageInv(l)'
  <2>1. CASE l = m
    BY <2>1
  <2>2. CASE l # m
    <3>1. MessageInv(l) /\ rows'[l] = rows[l] /\ \A r \in Relay : attempt'[r][l] = attempt[r][l]
      BY <1>1, <2>2 DEF OutboxInv
    <3> QED
      BY <3>1 DEF MessageInv, Unfinished
  <2> QED
    BY <2>1, <2>2
<1>4. ASSUME NEW k \in Message, NEW l \in Earlier(k), rows'[k].status = "CLAIMED",
             rows'[l].status \in {"PENDING", "CLAIMED"}
      PROVE  k \in rows'[l].ahead
  <2>1. l \in Message /\ l # k /\ k \in Later(l)
    BY OutboxAssumption DEF Earlier, Later, SameKey
  <2>2. k # m /\ rows[k].status = "CLAIMED"
    BY <1>1, <1>4
  <2>3. Unfinished(l) => k \in rows[l].ahead
    BY <2>2 DEF OutboxInv, OrderInv
  <2>4. CASE m = l
    BY <1>1, <1>4, <2>1, <2>2, <2>3, <2>4
  <2>5. CASE m # l
    BY <1>1, <1>4, <2>1, <2>3, <2>5 DEF Unfinished
  <2> QED
    BY <2>4, <2>5
<1>5. OrderInv'
  BY <1>4 DEF OrderInv, Earlier, Unfinished, SameKey
<1> QED
  BY <1>2, <1>3, <1>5 DEF OutboxInv

\* A step that moves what a relay has in hand and leaves the table alone.
LEMMA NoRowStep ==
    ASSUME OutboxInv, NEW m \in Message, rows' = rows, now' \in Nat,
           delivered \subseteq delivered', delivered' \subseteq Message,
           redriving' \subseteq Message,
           attempt' \in [Relay -> [Message -> Attempt]],
           \A r \in Relay, l \in Message \ {m} : attempt'[r][l] = attempt[r][l],
           MessageInv(m)'
    PROVE  OutboxInv'
<1>1. ASSUME NEW l \in Message PROVE MessageInv(l)'
  <2>1. CASE l # m
    <3>1. MessageInv(l) /\ \A r \in Relay : attempt'[r][l] = attempt[r][l]
      BY <2>1 DEF OutboxInv
    <3> QED
      BY <3>1 DEF MessageInv, Unfinished
  <2> QED
    BY <2>1
<1>2. OrderInv'
  BY DEF OutboxInv, OrderInv, Earlier, Unfinished, SameKey
<1> QED
  BY <1>1, <1>2 DEF OutboxInv, TypeOK

\* The producers, the operator and the cleanup.
LEMMA TableStep ==
    ASSUME OutboxInv, NEW m \in Message,
           Publish(m) \/ BeginRedrive(m) \/ RedriveQuarantined(m) \/ DeleteTerminal(m)
    PROVE  OutboxInv'
<1> USE OutboxAssumption
<1>0. /\ rows[m] \in OutboxMessage /\ ClockReading \subseteq Nat /\ MessageInv(m)
      /\ delivered \subseteq Message /\ redriving \subseteq Message /\ now \in Nat
      /\ attempt \in [Relay -> [Message -> Attempt]]
  BY DEF OutboxInv, TypeOK, ClockReading
<1>u. delivered' = delivered /\ attempt' = attempt /\ now' = now
  BY Zenon DEF Publish, BeginRedrive, RedriveQuarantined, DeleteTerminal
<1>r. redriving' \subseteq Message
  BY <1>0 DEF Publish, BeginRedrive, RedriveQuarantined, DeleteTerminal
<1>1. ASSUME NEW row \in OutboxMessage, rows' = [rows EXCEPT ![m] = row],
             row.token = None, row.attempts <= MaxAttempts,
             row.status \in {"PENDING", "DELETED"},
             row.status = "PENDING" => row.attempts < MaxAttempts
      PROVE  MessageInv(m)'
  <2>1. rows'[m] = row
    BY <1>1 DEF OutboxInv, TypeOK
  <2> QED
    BY <1>0, <1>u, <1>1, <2>1 DEF MessageInv, Unfinished
<1>o. ASSUME NEW row \in OutboxMessage, rows' = [rows EXCEPT ![m] = row], MessageInv(m)',
             row.status \in {"PENDING", "DELETED"},
             row.status = "PENDING" =>
                 \A l \in Later(m) : rows[l].status = "CLAIMED" => l \in row.ahead
      PROVE  OutboxInv'
  <2>1. row.status # "CLAIMED"
    BY <1>o
  <2>2. \A r \in Relay, l \in Message \ {m} : attempt'[r][l] = attempt[r][l]
    BY <1>u
  <2> QED
    BY <1>0, <1>u, <1>r, <1>o, <2>1, <2>2, OneRowStep, ZenonT(60)
<1>n. CASE rows' = rows
  <2>1. MessageInv(m)'
    BY <1>0, <1>u, <1>n DEF MessageInv, Unfinished
  <2> QED
    BY <1>0, <1>u, <1>r, <1>n, <2>1, NoRowStep
<1>2. CASE Publish(m)
  <2> DEFINE ahead == {l \in Later(m) : rows[l].status # "ABSENT"}
  <2>1. PICK at \in ClockReading :
          rows' = [rows EXCEPT ![m] = [NoMessage EXCEPT !.status = "PENDING", !.available = at,
                                                        !.ahead = ahead]]
    BY <1>2, Zenon DEF Publish
  <2>4. /\ ahead \in SUBSET Message
        /\ \A l \in Later(m) : rows[l].status = "CLAIMED" => l \in ahead
    BY ZenonT(30) DEF Later, SameKey
  <2> HIDE DEF ahead
  <2> DEFINE row == [NoMessage EXCEPT !.status = "PENDING", !.available = at, !.ahead = ahead]
  <2>2. /\ row \in OutboxMessage /\ row.status = "PENDING" /\ row.token = None
        /\ row.attempts = 0 /\ row.ahead = ahead
    BY <1>0, <2>4, PublishedColumns, ZenonT(60)
  <2>3. rows' = [rows EXCEPT ![m] = row]
    BY <2>1, Zenon
  <2> HIDE DEF row
  <2>6. MessageInv(m)'
    <3>1. row.attempts <= MaxAttempts /\ row.attempts < MaxAttempts
      BY <2>2
    <3> QED
      BY <1>1, <2>2, <2>3, <3>1
  <2> QED
    BY <1>o, <2>2, <2>3, <2>4, <2>6, ZenonT(60)
<1>3. CASE RedriveQuarantined(m) /\ rows[m].status = "QUARANTINED"
  <2>1. PICK at \in ClockReading : rows' = [rows EXCEPT ![m] = Redriven(m, at)]
    BY <1>3 DEF RedriveQuarantined
  <2> DEFINE row == Redriven(m, at)
  <2>2. /\ row \in OutboxMessage /\ row.status = "PENDING" /\ row.token = None
        /\ row.attempts = 0
        /\ \A l \in Later(m) : rows[l].status = "CLAIMED" => l \in row.ahead
    BY <1>0, RedrivenColumns
  <2>3. rows' = [rows EXCEPT ![m] = row]
    BY <2>1
  <2> HIDE DEF row
  <2>5. MessageInv(m)'
    <3>1. row.attempts <= MaxAttempts /\ row.attempts < MaxAttempts
      BY <2>2
    <3> QED
      BY <1>1, <2>2, <2>3, <3>1
  <2> QED
    BY <1>o, <2>2, <2>3, <2>5, ZenonT(60)
<1>4. CASE DeleteTerminal(m)
  <2> DEFINE row == [rows[m] EXCEPT !.status = "DELETED"]
  <2>1. rows' = [rows EXCEPT ![m] = row] /\ rows[m].status \in {"SUCCESS", "QUARANTINED"}
    BY <1>4 DEF DeleteTerminal, Terminal
  <2>2. /\ row \in OutboxMessage /\ row.status = "DELETED" /\ row.token = rows[m].token
        /\ row.attempts = rows[m].attempts
    BY <1>0, Zenon DEF OutboxMessage, OutboxStatus
  <2>3. row.token = None /\ row.attempts <= MaxAttempts
    BY <1>0, <2>1, <2>2 DEF MessageInv
  <2> HIDE DEF row
  <2>4. MessageInv(m)'
    BY <1>1, <2>1, <2>2, <2>3
  <2> QED
    BY <1>o, <2>1, <2>2, <2>4
<1>5. CASE BeginRedrive(m) \/ (RedriveQuarantined(m) /\ rows[m].status # "QUARANTINED")
  BY <1>n, <1>5 DEF BeginRedrive, RedriveQuarantined
<1> QED
  BY <1>2, <1>3, <1>4, <1>5

\* A claimed batch: its messages were claimable, so their predecessors are
\* finished, and no two of them share a key.
LEMMA RunOnceStep == ASSUME OutboxInv, NEW r \in Relay, RunOnce(r) PROVE OutboxInv'
<1> USE OutboxAssumption
<1>1. PICK at \in ClockReading, locked \in SUBSET Lockable, B \in SUBSET Message :
         /\ IsBatch(B, {m \in Message \ locked : Claimable(m, at)})
         /\ rows' = [m \in Message |-> IF m \in B THEN Claimed(m, r, at) ELSE rows[m]]
         /\ attempt' = [attempt EXCEPT ![r] =
                         [m \in Message |->
                           IF m \in B
                           THEN [pc |-> "publish", attempts |-> rows[m].attempts]
                           ELSE NoAttempt]]
  BY Zenon DEF RunOnce
<1>2. /\ delivered' = delivered /\ redriving' = redriving /\ now' = now /\ at \in Nat
      /\ \A m \in Message : rows[m] \in OutboxMessage /\ MessageInv(m)
      /\ NoAttempt \in Attempt /\ NoAttempt.pc = "none"
  <2>1. delivered' = delivered /\ redriving' = redriving /\ now' = now
    BY Zenon DEF RunOnce
  <2>2. at \in Nat
    BY DEF OutboxInv, TypeOK, ClockReading
  <2>3. \A m \in Message : rows[m] \in OutboxMessage /\ MessageInv(m)
    BY DEF OutboxInv, TypeOK
  <2>4. NoAttempt \in Attempt /\ NoAttempt.pc = "none"
    BY DEF NoAttempt, Attempt
  <2> QED
    BY <2>1, <2>2, <2>3, <2>4
<1>3. \A m \in B : Unfinished(m) /\ \A l \in Earlier(m) : ~Unfinished(l)
  BY <1>1 DEF IsBatch, Claimable, Unfinished
<1>4. ASSUME NEW m \in B
      PROVE  /\ rows'[m] \in OutboxMessage
             /\ rows'[m].status = "CLAIMED" /\ rows'[m].token = r
             /\ rows'[m].attempts = rows[m].attempts /\ rows'[m].ahead = rows[m].ahead
  <2>1. rows'[m] = Claimed(m, r, at)
    BY <1>1
  <2>2. rows[m] \in OutboxMessage /\ at \in Nat
    BY <1>2
  <2> QED
    BY <2>1, <2>2, ClaimedColumns
<1>5. \A m \in Message \ B : rows'[m] = rows[m]
  BY <1>1
<1>6. \A m \in Message :
        /\ attempt'[r][m] = IF m \in B THEN [pc |-> "publish", attempts |-> rows[m].attempts]
                            ELSE NoAttempt
        /\ \A s \in Relay \ {r} : attempt'[s][m] = attempt[s][m]
  BY <1>1 DEF OutboxInv, TypeOK
<1>7. TypeOK'
  <2>1. rows' \in [Message -> OutboxMessage]
    <3>1. \A m \in Message : rows'[m] \in OutboxMessage
      BY <1>2, <1>4, <1>5
    <3>2. rows' = [m \in Message |-> rows'[m]]
      BY <1>1
    <3> QED
      BY <3>1, <3>2
  <2>2. [m \in Message |-> IF m \in B THEN [pc |-> "publish", attempts |-> rows[m].attempts]
                           ELSE NoAttempt] \in [Message -> Attempt]
    BY <1>2 DEF Attempt, OutboxMessage
  <2>3. attempt' \in [Relay -> [Message -> Attempt]]
    BY <1>1, <2>2 DEF OutboxInv, TypeOK
  <2> QED
    BY <1>2, <2>1, <2>3 DEF OutboxInv, TypeOK
<1>8. ASSUME NEW m \in Message PROVE MessageInv(m)'
  <2>1. CASE m \in B
    <3>1. /\ attempt'[r][m].pc = "publish" /\ attempt'[r][m].attempts = rows[m].attempts
          /\ \A s \in Relay \ {r} : attempt'[s][m] = attempt[s][m]
      <4>1. attempt'[r][m] = [pc |-> "publish", attempts |-> rows[m].attempts]
        BY <1>6, <2>1
      <4>2. \A s \in Relay \ {r} : attempt'[s][m] = attempt[s][m]
        BY <1>6, Zenon
      <4>3. attempt'[r][m].pc = "publish" /\ attempt'[r][m].attempts = rows[m].attempts
        BY <4>1, SMT
      <4> QED
        BY <4>2, <4>3
    <3>2. rows[m].attempts < MaxAttempts /\ rows[m].attempts \in Nat
      BY <1>2, <1>3, <2>1 DEF MessageInv, OutboxMessage
    <3> QED
      BY <1>2, <1>4, <2>1, <3>1, <3>2 DEF MessageInv, Unfinished
  <2>2. CASE m \notin B
    <3>1. /\ rows'[m] = rows[m] /\ attempt'[r][m] = NoAttempt
          /\ \A s \in Relay \ {r} : attempt'[s][m] = attempt[s][m]
      BY <1>5, <1>6, <2>2
    <3>2. MessageInv(m) /\ NoAttempt.pc = "none" /\ delivered' = delivered
      BY <1>2
    <3> QED
      BY <3>1, <3>2 DEF MessageInv, Unfinished
  <2> QED
    BY <2>1, <2>2
<1>9. OrderInv'
  <2> SUFFICES ASSUME NEW m \in Message, NEW l \in Earlier(m), rows'[m].status = "CLAIMED",
                      rows'[l].status \in {"PENDING", "CLAIMED"}
               PROVE  m \in rows'[l].ahead
    BY DEF OrderInv, Earlier, SameKey, Unfinished
  <2>1. l \in Message
    BY DEF Earlier, SameKey
  <2>2. Unfinished(l) /\ rows'[l].ahead = rows[l].ahead
    BY <1>3, <1>4, <1>5, <2>1 DEF Unfinished
  <2>3. m \notin B
    BY <1>3, <2>2
  <2>4. rows[m].status = "CLAIMED"
    BY <1>5, <2>3
  <2> QED
    BY <2>2, <2>4 DEF OutboxInv, OrderInv
<1> QED
  BY <1>7, <1>8, <1>9 DEF OutboxInv

\* Moving or ending what a relay has in hand touches nothing else.
LEMMA InHand ==
    ASSUME OutboxInv, NEW r \in Relay, NEW m \in Message, NEW x \in Attempt,
           attempt' = [attempt EXCEPT ![r][m] = x]
    PROVE  /\ attempt' \in [Relay -> [Message -> Attempt]]
           /\ attempt'[r][m] = x
           /\ \A s \in Relay \ {r} : attempt'[s][m] = attempt[s][m]
           /\ \A s \in Relay, l \in Message \ {m} : attempt'[s][l] = attempt[s][l]
  BY DEF OutboxInv, TypeOK

\* Publishing, with whatever outcome.
LEMMA PublishingStep ==
    ASSUME OutboxInv, NEW r \in Relay, NEW m \in Message,
           Delivered(r, m) \/ PublishRejected(r, m) \/ PublishFailed(r, m)
    PROVE  OutboxInv'
<1> USE OutboxAssumption
<1>0. /\ attempt[r][m] \in Attempt /\ MessageInv(m) /\ now \in Nat
      /\ delivered \subseteq Message /\ redriving \subseteq Message
  BY DEF OutboxInv, TypeOK
<1>u. rows' = rows /\ now' = now /\ redriving' = redriving /\ attempt[r][m].pc = "publish"
  BY Zenon DEF Delivered, PublishRejected, PublishFailed
<1>1. PICK pc \in {"finalize", "retry", "quarantine"} :
        /\ GoTo(r, m, pc)
        /\ delivered' = delivered \/ delivered' = delivered \cup {m}
        /\ pc = "finalize" => m \in delivered'
        /\ pc = "retry" => attempt[r][m].attempts + 1 < MaxAttempts
  <2>1. CASE Delivered(r, m)
    BY <2>1 DEF Delivered, Deliver
  <2>2. CASE PublishRejected(r, m)
    BY <2>2 DEF PublishRejected
  <2>3. CASE PublishFailed(r, m)
    <3>1. /\ AfterFailure(attempt[r][m]) \in {"retry", "quarantine"}
          /\ AfterFailure(attempt[r][m]) = "retry" => attempt[r][m].attempts + 1 < MaxAttempts
      BY <1>0 DEF AfterFailure, Attempt
    <3>2. /\ GoTo(r, m, AfterFailure(attempt[r][m]))
          /\ delivered' = delivered \/ delivered' = delivered \cup {m}
      BY <2>3 DEF PublishFailed, Deliver
    <3> QED
      BY <3>1, <3>2
  <2> QED
    BY <2>1, <2>2, <2>3
<1> DEFINE x == [attempt[r][m] EXCEPT !.pc = pc]
<1>2. x \in Attempt /\ x.pc = pc /\ x.attempts = attempt[r][m].attempts
  BY <1>0, Zenon DEF Attempt
<1>3. attempt' = [attempt EXCEPT ![r][m] = x]
  BY <1>1 DEF GoTo
<1> HIDE DEF x
<1>4. /\ attempt' \in [Relay -> [Message -> Attempt]]
      /\ attempt'[r][m] = x
      /\ \A s \in Relay \ {r} : attempt'[s][m] = attempt[s][m]
      /\ \A s \in Relay, l \in Message \ {m} : attempt'[s][l] = attempt[s][l]
  BY <1>2, <1>3, InHand, ZenonT(60)
<1>5. delivered \subseteq delivered' /\ delivered' \subseteq Message
  BY <1>0, <1>1
<1>6. MessageInv(m)'
  <2> SUFFICES ASSUME NEW s \in Relay
               PROVE  /\ attempt'[s][m].pc # "none" /\ rows[m].token = s =>
                           attempt'[s][m].attempts = rows[m].attempts
                      /\ attempt'[s][m].pc = "finalize" => m \in delivered'
                      /\ attempt'[s][m].pc = "retry" => attempt'[s][m].attempts + 1 < MaxAttempts
    BY <1>0, <1>u, <1>5 DEF MessageInv, Unfinished
  <2>1. CASE s = r
    BY <1>0, <1>u, <1>1, <1>2, <1>4, <2>1 DEF MessageInv
  <2>2. CASE s # r
    BY <1>0, <1>4, <1>5, <2>2 DEF MessageInv
  <2> QED
    BY <2>1, <2>2
<1> QED
  BY <1>0, <1>u, <1>4, <1>5, <1>6, NoRowStep

\* Recording the outcome, or losing the message from hand.
LEMMA RecordingStep ==
    ASSUME OutboxInv, NEW r \in Relay, NEW m \in Message,
           \/ FinalizePublished(r, m) \/ ScheduleRetry(r, m) \/ Quarantine(r, m)
           \/ Abandon(r, m)
    PROVE  OutboxInv'
<1> USE OutboxAssumption
<1>0. /\ rows[m] \in OutboxMessage /\ MessageInv(m) /\ now \in Nat
      /\ delivered \subseteq Message /\ redriving \subseteq Message
  BY DEF OutboxInv, TypeOK
<1>u. /\ delivered' = delivered /\ redriving' = redriving /\ now' = now
      /\ attempt[r][m].pc # "none" /\ Finish(r, m)
  BY DEF FinalizePublished, ScheduleRetry, Quarantine, Abandon
<1>1. NoAttempt \in Attempt /\ NoAttempt.pc = "none"
  BY DEF NoAttempt, Attempt
<1>2. /\ attempt' \in [Relay -> [Message -> Attempt]]
      /\ attempt'[r][m] = NoAttempt
      /\ \A s \in Relay \ {r} : attempt'[s][m] = attempt[s][m]
      /\ \A s \in Relay, l \in Message \ {m} : attempt'[s][l] = attempt[s][l]
  BY <1>u, <1>1, InHand, ZenonT(60) DEF Finish
<1>3. CASE rows' = rows
  <2>1. MessageInv(m)'
    BY <1>0, <1>u, <1>1, <1>2, <1>3 DEF MessageInv, Unfinished
  <2> QED
    BY <1>0, <1>u, <1>2, <1>3, <2>1, NoRowStep
<1>4. ASSUME NEW at \in Nat, NEW status \in {"PENDING", "SUCCESS", "QUARANTINED"},
             Owned(m, r), rows' = [rows EXCEPT ![m] = Settled(m, status, at)],
             status = "SUCCESS" => m \in delivered,
             status = "PENDING" => rows[m].attempts + 1 < MaxAttempts
      PROVE  OutboxInv'
  <2> DEFINE row == Settled(m, status, at)
  <2>1. /\ row \in OutboxMessage /\ row.status = status /\ row.token = None
        /\ row.attempts = rows[m].attempts + 1 /\ row.ahead = rows[m].ahead
    BY <1>0, <1>4, SettledColumns
  <2>2. rows' = [rows EXCEPT ![m] = row]
    BY <1>4
  <2> HIDE DEF row
  <2>3. rows'[m] = row
    BY <2>2 DEF OutboxInv, TypeOK
  <2>4. /\ Unfinished(m) /\ rows[m].status = "CLAIMED"
        /\ rows[m].attempts \in Nat /\ rows[m].attempts < MaxAttempts
    BY <1>0, <1>4 DEF Owned, Unfinished, MessageInv, OutboxMessage
  <2>5. MessageInv(m)'
    <3>1. row.attempts <= MaxAttempts /\ (status = "PENDING" => row.attempts < MaxAttempts)
      BY <1>4, <2>1, <2>4
    <3>2. ASSUME NEW s \in Relay
          PROVE  /\ attempt'[s][m].pc = "finalize" => m \in delivered'
                 /\ attempt'[s][m].pc = "retry" => attempt'[s][m].attempts + 1 < MaxAttempts
                 /\ rows'[m].token # s
      BY <1>0, <1>u, <1>1, <1>2, <2>1, <2>3 DEF MessageInv
    <3> QED
      BY <1>4, <1>u, <2>1, <2>3, <3>1, <3>2 DEF MessageInv, Unfinished
  <2>6. row.status # "CLAIMED"
    BY <1>4, <2>1
  <2>7. /\ now' \in Nat /\ delivered \subseteq delivered' /\ delivered' \subseteq Message
        /\ redriving' \subseteq Message
    BY <1>0, <1>u
  <2> QED
    BY <1>2, <2>1, <2>2, <2>4, <2>5, <2>6, <2>7, OneRowStep
<1>5. CASE FinalizePublished(r, m) /\ Owned(m, r)
  <2>1. rows[m].available \in Nat /\ m \in delivered
    BY <1>0, <1>5 DEF OutboxMessage, MessageInv, FinalizePublished
  <2> QED
    BY <1>4, <1>5, <2>1 DEF FinalizePublished
<1>6. CASE Quarantine(r, m) /\ Owned(m, r)
  <2>1. rows[m].available \in Nat
    BY <1>0 DEF OutboxMessage
  <2> QED
    BY <1>4, <1>6, <2>1 DEF Quarantine
<1>7. CASE ScheduleRetry(r, m) /\ Owned(m, r)
  <2>1. PICK at \in ClockReading, delay \in RetryDelay :
          rows' = [rows EXCEPT ![m] = Settled(m, "PENDING", Capped(at + delay))]
    BY <1>7 DEF ScheduleRetry
  <2>2. Capped(at + delay) \in Nat
    BY <1>0, DelayIsTime
  <2>3. rows[m].attempts + 1 < MaxAttempts
    BY <1>0, <1>7 DEF ScheduleRetry, MessageInv, Owned
  <2> QED
    BY <1>4, <1>7, <2>1, <2>2, <2>3
<1>8. CASE Abandon(r, m)
  BY <1>3, <1>8 DEF Abandon
<1>9. CASE ~Owned(m, r) /\ ~Abandon(r, m)
  BY <1>3, <1>9 DEF FinalizePublished, ScheduleRetry, Quarantine
<1> QED
  BY <1>5, <1>6, <1>7, <1>8, <1>9

-----------------------------------------------------------------------------
(* The theorems                                                            *)

LEMMA InitInv == Init => OutboxInv
<1> SUFFICES ASSUME Init PROVE OutboxInv
  OBVIOUS
<1>1. /\ NoMessage \in OutboxMessage /\ NoAttempt \in Attempt
      /\ NoMessage.status = "ABSENT" /\ NoMessage.attempts = 0 /\ NoMessage.token = None
      /\ NoAttempt.pc = "none"
  BY DEF NoMessage, NoAttempt, OutboxMessage, OutboxStatus, Attempt
<1>2. TypeOK
  BY <1>1 DEF Init, TypeOK
<1>3. \A m \in Message : rows[m] = NoMessage /\ \A r \in Relay : attempt[r][m] = NoAttempt
  BY DEF Init
<1>4. \A m \in Message : MessageInv(m)
  <2> SUFFICES ASSUME NEW m \in Message PROVE MessageInv(m)
    OBVIOUS
  <2>1. /\ rows[m].status = "ABSENT" /\ rows[m].attempts = 0 /\ rows[m].token = None
        /\ \A r \in Relay : attempt[r][m].pc = "none"
    BY <1>1, <1>3
  <2>2. 0 <= MaxAttempts
    BY OutboxAssumption
  <2> QED
    BY <2>1, <2>2 DEF MessageInv, Unfinished
<1>5. OrderInv
  BY <1>1, <1>3 DEF OrderInv, Earlier, SameKey, Unfinished
<1> QED
  BY <1>2, <1>4, <1>5 DEF OutboxInv

LEMMA NextInv == OutboxInv /\ [Next]_vars => OutboxInv'
<1> SUFFICES ASSUME OutboxInv, [Next]_vars PROVE OutboxInv'
  OBVIOUS
<1>1. ASSUME NEW m \in Message,
             Publish(m) \/ BeginRedrive(m) \/ RedriveQuarantined(m) \/ DeleteTerminal(m)
      PROVE  OutboxInv'
  BY <1>1, TableStep
<1>2. ASSUME NEW r \in Relay, RunOnce(r) PROVE OutboxInv'
  BY <1>2, RunOnceStep
<1>3. ASSUME NEW r \in Relay, NEW m \in Message, Process(r, m) PROVE OutboxInv'
  BY <1>3, PublishingStep, RecordingStep DEF Process
<1>4. CASE Tick
  <2>1. /\ now' \in Nat /\ rows' = rows /\ delivered' = delivered
        /\ redriving' = redriving /\ attempt' = attempt
    BY <1>4 DEF Tick, OutboxInv, TypeOK
  <2> QED
    BY <2>1 DEF OutboxInv, TypeOK, MessageInv, OrderInv, Unfinished, Earlier, SameKey
<1>5. CASE UNCHANGED vars
  <2>1. /\ now' = now /\ rows' = rows /\ delivered' = delivered
        /\ redriving' = redriving /\ attempt' = attempt
    BY <1>5 DEF vars
  <2> QED
    BY <2>1 DEF OutboxInv, TypeOK, MessageInv, OrderInv, Unfinished, Earlier, SameKey
<1> QED
  BY <1>1, <1>2, <1>3, <1>4, <1>5 DEF Next

\* However many relays share the outbox and wherever they lose their claims: a
\* message recorded as SUCCESS reached its topic, no claim overtakes an earlier
\* message it could see, no unfinished message has used up its attempts, and the
\* holder of a claim decides on the attempts the row really has.
THEOREM OutboxSafety ==
    Spec => [](/\ TypeOK
               /\ SuccessMeansDelivered
               /\ NoOvertaking
               /\ AttemptsWithinBudget
               /\ ClaimsAreCurrent)
<1>1. OutboxInv => /\ TypeOK /\ SuccessMeansDelivered /\ NoOvertaking
                   /\ AttemptsWithinBudget /\ ClaimsAreCurrent
  BY DEF OutboxInv, MessageInv, OrderInv, SuccessMeansDelivered, NoOvertaking,
         AttemptsWithinBudget, ClaimsAreCurrent
<1> QED
  BY <1>1, InitInv, NextInv, PTL DEF Spec

\* A SUCCESS row was appended to its topic by a publish that returned.
THEOREM SuccessAlwaysMeansDelivered == Spec => []SuccessMeansDelivered
  BY OutboxSafety, PTL

\* In whatever order producers commit and however a redrive races with them,
\* claim_batch takes a message before an earlier one of its key only where that
\* one was not yet, or not again, in the table.
THEOREM NeverOvertakes == Spec => []NoOvertaking
  BY OutboxSafety, PTL

\* Deciding on the attempts that were claimed never overruns the limit.
THEOREM OutboxBudgetAlwaysKept == Spec => []AttemptsWithinBudget
  BY OutboxSafety, PTL

\* The token of a row is that of its claim, and its holder is up to date.
THEOREM ClaimsAlwaysCurrent == Spec => []ClaimsAreCurrent
  BY OutboxSafety, PTL

\* What a step may do to a row is decided by the status it finds: a relay that
\* lost its claim writes nothing, so a finished row is only cleaned up or
\* redriven and an unfinished one stays in the table.
THEOREM NothingIsEverLost == Spec => NothingIsLost
<1> DEFINE Kept(m) ==
        /\ Unfinished(m) => Exists(m)'
        /\ rows[m].status = "SUCCESS" => rows'[m].status \in {"SUCCESS", "DELETED"}
        /\ rows[m].status = "QUARANTINED" /\ rows'[m] # rows[m] =>
             rows'[m].status = "DELETED" \/ rows'[m].redrives = rows[m].redrives + 1
<1>1. OutboxInv /\ [Next]_vars => [\A m \in Message : Kept(m)]_vars
  <2> SUFFICES ASSUME OutboxInv, Next, NEW m \in Message PROVE Kept(m)
    BY DEF Kept
  <2> USE OutboxAssumption
  <2>0. rows \in [Message -> OutboxMessage] /\ now \in Nat
    BY DEF OutboxInv, TypeOK
  <2>1. CASE rows'[m] = rows[m]
    BY <2>1 DEF Unfinished, Exists
  <2>2. ASSUME NEW l \in Message, Publish(l) PROVE Kept(m)
    BY <2>0, <2>2 DEF Publish, Unfinished, Exists
  <2>b. ASSUME NEW l \in Message, BeginRedrive(l) PROVE Kept(m)
    BY <2>1, <2>b DEF BeginRedrive
  <2>3. ASSUME NEW l \in Message, RedriveQuarantined(l) PROVE Kept(m)
    <3>n. CASE rows[l].status # "QUARANTINED"
      BY <2>1, <2>3, <3>n DEF RedriveQuarantined
    <3> SUFFICES ASSUME rows[l].status = "QUARANTINED" PROVE Kept(m)
      BY <3>n
    <3>1. PICK at \in ClockReading : rows' = [rows EXCEPT ![l] = Redriven(l, at)]
      BY <2>3, ZenonT(60) DEF RedriveQuarantined
    <3>0. at \in Nat
      BY <2>0 DEF ClockReading
    <3>2. CASE l = m
      <4>1. rows[m].status = "QUARANTINED" /\ rows'[m].redrives = rows[m].redrives + 1
        BY <2>0, <2>3, <3>0, <3>1, <3>2, RedrivenColumns DEF RedriveQuarantined
      <4> QED
        BY <4>1 DEF Unfinished
    <3> QED
      BY <2>0, <2>1, <3>1, <3>2
  <2>4. ASSUME NEW l \in Message, DeleteTerminal(l) PROVE Kept(m)
    <3>1. CASE l = m
      <4>1. rows'[m].status = "DELETED" /\ Terminal(m)
        BY <2>0, <2>4, <3>1 DEF DeleteTerminal, OutboxMessage
      <4> QED
        BY <4>1 DEF Unfinished, Terminal
    <3> QED
      BY <2>0, <2>1, <2>4, <3>1 DEF DeleteTerminal
  <2>5. ASSUME NEW r \in Relay, RunOnce(r) PROVE Kept(m)
    <3>1. PICK at \in Nat : rows'[m] # rows[m] => rows'[m] = Claimed(m, r, at) /\ Unfinished(m)
      BY <2>0, <2>5 DEF RunOnce, ClockReading, IsBatch, Claimable, Unfinished
    <3>2. Claimed(m, r, at).status = "CLAIMED"
      <4>1. rows[m] \in OutboxMessage
        BY <2>0, Zenon
      <4> QED
        BY <4>1, ClaimedColumns
    <3> QED
      BY <2>1, <3>1, <3>2 DEF Unfinished, Exists
  <2>6. ASSUME NEW r \in Relay, NEW l \in Message, Process(r, l) PROVE Kept(m)
    <3>0. ASSUME NEW at \in Nat, NEW status \in {"PENDING", "SUCCESS", "QUARANTINED"},
                 Owned(l, r), rows' = [rows EXCEPT ![l] = Settled(l, status, at)]
          PROVE  Kept(m)
      <4>1. Settled(l, status, at).status = status
        BY <2>0, SettledColumns
      <4>2. CASE l = m
        <5>1. rows[m].status = "CLAIMED" /\ rows'[m].status = status
          BY <2>0, <3>0, <4>1, <4>2 DEF Owned
        <5> QED
          BY <5>1 DEF Unfinished, Exists
      <4> QED
        BY <2>0, <2>1, <3>0, <4>2
    <3>1. CASE rows' = rows
      BY <2>1, <3>1
    <3>2. rows[l].available \in Nat
      BY <2>0 DEF OutboxMessage
    <3>3. CASE FinalizePublished(r, l) /\ Owned(l, r)
      BY <3>0, <3>2, <3>3 DEF FinalizePublished
    <3>4. CASE Quarantine(r, l) /\ Owned(l, r)
      BY <3>0, <3>2, <3>4 DEF Quarantine
    <3>5. CASE ScheduleRetry(r, l) /\ Owned(l, r)
      <4>1. PICK at \in ClockReading, delay \in RetryDelay :
              rows' = [rows EXCEPT ![l] = Settled(l, "PENDING", Capped(at + delay))]
        BY <3>5 DEF ScheduleRetry
      <4>2. Capped(at + delay) \in Nat
        BY <2>0, DelayIsTime
      <4> QED
        BY <3>0, <3>5, <4>1, <4>2
    <3> QED
      BY <2>6, <3>1, <3>3, <3>4, <3>5
         DEF Process, Delivered, PublishRejected, PublishFailed, Abandon,
             FinalizePublished, Quarantine, ScheduleRetry
  <2>7. CASE Tick
    BY <2>1, <2>7 DEF Tick
  <2> QED
    BY <2>2, <2>b, <2>3, <2>4, <2>5, <2>6, <2>7 DEF Next
<1>2. OutboxInv /\ [Next]_vars =>
        [\A m \in Message :
          /\ Unfinished(m) => Exists(m)'
          /\ rows[m].status = "SUCCESS" => rows'[m].status \in {"SUCCESS", "DELETED"}
          /\ rows[m].status = "QUARANTINED" /\ rows'[m] # rows[m] =>
               \/ rows'[m].status = "DELETED"
               \/ rows'[m].redrives = rows[m].redrives + 1]_vars
  BY <1>1
<1> QED
  BY <1>2, InitInv, NextInv, PTL DEF Spec, NothingIsLost
-----------------------------------------------------------------------------
(* The composition with registration                                       *)

\* What is in the topic or in the hands of a relay was written to the outbox.
HandledExists ==
    \A m \in Message :
        m \in delivered \/ (\E r \in Relay : attempt[r][m].pc # "none")
            => rows[m].status # "ABSENT"

ServiceTypeOK ==
    /\ phase \in [Key -> {"none", "open", "blocked", "done"}]
    /\ reserved \in [Key -> Email \cup {None}]
    /\ account \in [Email -> Key \cup {LegacyId, None}]

\* An operation in progress has an email; one whose event is in the outbox is
\* done and has its account.
ProducerInv ==
    \A k \in Key :
        /\ phase[k] # "none" => reserved[k] \in Email
        /\ rows[MessageOf[k]].status # "ABSENT" =>
             phase[k] = "done" /\ \E e \in Email : account[e] = k

AnnouncementInv == OutboxInv /\ HandledExists /\ ServiceTypeOK /\ ProducerInv

\* Two operations never share a message.
LEMMA OwnMessages ==
    ASSUME NEW k \in Key, NEW l \in Key, MessageOf[k] = MessageOf[l]
    PROVE  k = l
  BY AnnouncementAssumption

\* Whatever is not Finalize happens in the outbox alone or in registration alone.
LEMMA RelayingIsNext == ASSUME Relaying PROVE Next /\ UNCHANGED svcVars
  BY Zenon DEF Relaying, Next

\* Relays only handle rows that exist, and no row ever ceases to have existed.
LEMMA HandledStep ==
    ASSUME OutboxInv, HandledExists, Next
    PROVE  /\ HandledExists'
           /\ \A m \in Message : rows[m].status # "ABSENT" => rows'[m].status # "ABSENT"
<1> USE OutboxAssumption
<1>0. /\ rows \in [Message -> OutboxMessage] /\ now \in Nat
      /\ attempt \in [Relay -> [Message -> Attempt]]
  BY DEF OutboxInv, TypeOK
<1>1. ASSUME NEW m \in Message, rows[m].status # "ABSENT"
      PROVE  rows'[m].status # "ABSENT"
  <2>1. CASE rows'[m] = rows[m]
    BY <1>1, <2>1
  <2>2. ASSUME NEW l \in Message, Publish(l) PROVE rows'[m] = rows[m]
    BY <1>0, <1>1, <2>2 DEF Publish
  <2>b. ASSUME NEW l \in Message, BeginRedrive(l) PROVE rows'[m] = rows[m]
    BY <2>b DEF BeginRedrive
  <2>3. ASSUME NEW l \in Message, RedriveQuarantined(l), rows'[m] # rows[m]
        PROVE  rows'[m].status # "ABSENT"
    <3>1. PICK at \in Nat : rows' = [rows EXCEPT ![l] = Redriven(l, at)]
      BY <1>0, <2>3, ReadingIsTime, Zenon DEF RedriveQuarantined
    <3>2. l = m
      BY <1>0, <2>3, <3>1
    <3> QED
      BY <1>0, <3>1, <3>2, RedrivenColumns
  <2>4. ASSUME NEW l \in Message, DeleteTerminal(l), rows'[m] # rows[m]
        PROVE  rows'[m].status # "ABSENT"
    <3>1. l = m /\ rows' = [rows EXCEPT ![l].status = "DELETED"]
      BY <1>0, <2>4 DEF DeleteTerminal
    <3> QED
      BY <1>0, <3>1 DEF OutboxMessage
  <2>5. ASSUME NEW r \in Relay, RunOnce(r)
        PROVE  rows'[m] = rows[m] \/ rows'[m].status # "ABSENT"
    <3>1. PICK at \in Nat : rows'[m] # rows[m] => rows'[m] = Claimed(m, r, at)
      BY <1>0, <2>5, ReadingIsTime, ZenonT(60) DEF RunOnce
    <3> QED
      BY <1>0, <3>1, ClaimedColumns
  <2>6. ASSUME NEW r \in Relay, NEW l \in Message, Process(r, l), rows'[m] # rows[m]
        PROVE  rows'[m].status # "ABSENT"
    <3>1. PICK at \in Nat, status \in {"PENDING", "SUCCESS", "QUARANTINED"} :
            rows' = [rows EXCEPT ![l] = Settled(l, status, at)]
      <4>1. rows[l].available \in Nat
        BY <1>0 DEF OutboxMessage
      <4>2. CASE FinalizePublished(r, l)
        BY <2>6, <4>1, <4>2 DEF FinalizePublished
      <4>3. CASE Quarantine(r, l)
        BY <2>6, <4>1, <4>3 DEF Quarantine
      <4>4. CASE ScheduleRetry(r, l)
        <5>1. PICK at \in ClockReading, delay \in RetryDelay :
                rows' = [rows EXCEPT ![l] = Settled(l, "PENDING", Capped(at + delay))]
          BY <2>6, <4>4 DEF ScheduleRetry
        <5>2. Capped(at + delay) \in Nat
          BY <1>0, DelayIsTime
        <5> QED
          BY <5>1, <5>2
      <4> QED
        BY <2>6, <4>2, <4>3, <4>4 DEF Process, Delivered, PublishRejected, PublishFailed, Abandon
    <3>2. l = m
      BY <1>0, <2>6, <3>1
    <3> QED
      BY <1>0, <3>1, <3>2, SettledColumns
  <2> QED
    BY <1>1, <2>1, <2>2, <2>b, <2>3, <2>4, <2>5, <2>6 DEF Next, Tick
<1>2. HandledExists'
  <2> SUFFICES ASSUME NEW m \in Message,
                      m \in delivered' \/ \E r \in Relay : attempt'[r][m].pc # "none"
               PROVE  rows'[m].status # "ABSENT"
    BY DEF HandledExists
  <2>1. CASE m \in delivered \/ \E r \in Relay : attempt[r][m].pc # "none"
    BY <1>1, <2>1 DEF HandledExists
  <2>2. ASSUME NEW r \in Relay, RunOnce(r), m \notin delivered,
               \A q \in Relay : attempt[q][m].pc = "none"
        PROVE  rows'[m].status # "ABSENT"
    <3>1. PICK at \in ClockReading, locked \in SUBSET Lockable, B \in SUBSET Message :
            /\ rows' = [l \in Message |-> IF l \in B THEN Claimed(l, r, at) ELSE rows[l]]
            /\ attempt' = [attempt EXCEPT ![r] =
                 [l \in Message |-> IF l \in B
                    THEN [pc |-> "publish", attempts |-> rows[l].attempts]
                    ELSE NoAttempt]]
      BY <2>2, ZenonT(60) DEF RunOnce
    <3>0. at \in Nat
      BY <1>0, ReadingIsTime
    <3>2. delivered' = delivered
      BY <2>2 DEF RunOnce
    <3>3. m \in B
      BY <1>0, <2>2, <3>1, <3>2 DEF NoAttempt
    <3> QED
      BY <1>0, <3>0, <3>1, <3>3, ClaimedColumns
  <2>3. ASSUME NEW r \in Relay, NEW l \in Message, Process(r, l)
        PROVE  m \in delivered \/ \E q \in Relay : attempt[q][m].pc # "none"
    <3>1. attempt[r][l].pc # "none"
      BY <2>3 DEF Process, Delivered, PublishRejected, PublishFailed, FinalizePublished,
         ScheduleRetry, Quarantine, Abandon
    <3>2. \A q \in Relay : q # r \/ m # l => attempt'[q][m] = attempt[q][m]
      BY <1>0, <2>3 DEF Process, Delivered, PublishRejected, PublishFailed, FinalizePublished,
         ScheduleRetry, Quarantine, Abandon, GoTo, Finish
    <3>3. m \in delivered' => m \in delivered \/ m = l
      BY <2>3 DEF Process, Delivered, PublishRejected, PublishFailed, FinalizePublished,
         ScheduleRetry, Quarantine, Abandon, Deliver
    <3> QED
      BY <3>1, <3>2, <3>3
  <2>4. CASE \/ Tick
             \/ \E l \in Message : \/ Publish(l) \/ BeginRedrive(l)
                                   \/ RedriveQuarantined(l) \/ DeleteTerminal(l)
    <3>1. UNCHANGED <<delivered, attempt>>
      BY <2>4, Zenon DEF Tick, Publish, BeginRedrive, RedriveQuarantined, DeleteTerminal
    <3> QED
      BY <2>1, <3>1
  <2> QED
    BY <2>1, <2>2, <2>3, <2>4 DEF Next
<1> QED
  BY <1>1, <1>2

\* At first nothing is written, handled or registered.
LEMMA ComposedInit == AnnouncementInit => AnnouncementInv
<1> SUFFICES ASSUME AnnouncementInit PROVE AnnouncementInv
  OBVIOUS
<1>1. OutboxInv
  BY InitInv DEF AnnouncementInit
<1>2. HandledExists
  BY DEF AnnouncementInit, Init, HandledExists, NoAttempt
<1>3. ServiceTypeOK /\ \A k \in Key : phase[k] = "none"
  BY DEF AnnouncementInit, Service!SvcInit, ServiceTypeOK
<1>4. \A m \in Message : rows[m].status = "ABSENT"
  BY DEF AnnouncementInit, Init, NoMessage
<1>5. ProducerInv
  BY <1>3, <1>4, AnnouncementAssumption DEF ProducerInv
<1> QED
  BY <1>1, <1>2, <1>3, <1>5 DEF AnnouncementInv

\* _finalize: the event appears together with the account it announces.
LEMMA FinalizeStep ==
    ASSUME AnnouncementInv, NEW k \in Key, FinalizeRegistration(k)
    PROVE  AnnouncementInv'
<1> USE AnnouncementAssumption
<1>0. MessageOf[k] \in Message
  OBVIOUS
<1>1. Publish(MessageOf[k]) /\ Next
  BY <1>0, Zenon DEF FinalizeRegistration, Next
<1>2. OutboxInv' /\ HandledExists'
  BY <1>1, NextInv, HandledStep DEF AnnouncementInv
<1>3. /\ phase[k] = "open" /\ reserved[k] \in Email /\ account[reserved[k]] = None
      /\ phase' = [phase EXCEPT ![k] = "done"]
      /\ account' = [account EXCEPT ![reserved[k]] = k]
      /\ reserved' = reserved
  BY DEF AnnouncementInv, ProducerInv, FinalizeRegistration, Service!Complete
<1>4. ServiceTypeOK'
  BY <1>3 DEF AnnouncementInv, ServiceTypeOK
<1>5. \A m \in Message : m # MessageOf[k] => rows'[m] = rows[m]
  BY <1>0, <1>1 DEF Publish, AnnouncementInv, OutboxInv, TypeOK
<1>6. ASSUME NEW l \in Key
      PROVE  /\ phase'[l] # "none" => reserved'[l] \in Email
             /\ rows'[MessageOf[l]].status # "ABSENT" =>
                  phase'[l] = "done" /\ \E e \in Email : account'[e] = l
  <2>1. CASE l = k
    <3>1. phase'[k] = "done" /\ account'[reserved[k]] = k
      BY <1>3 DEF AnnouncementInv, ServiceTypeOK
    <3> QED
      BY <1>3, <2>1, <3>1
  <2>2. CASE l # k
    <3>1. rows'[MessageOf[l]] = rows[MessageOf[l]]
      BY <1>5, <2>2, OwnMessages
    <3>2. phase'[l] = phase[l]
      BY <1>3, <2>2 DEF AnnouncementInv, ServiceTypeOK
    <3>3. \A e \in Email : account[e] = l => account'[e] = l
      BY <1>3 DEF AnnouncementInv, ServiceTypeOK
    <3> QED
      BY <1>3, <3>1, <3>2, <3>3 DEF AnnouncementInv, ProducerInv
  <2> QED
    BY <2>1, <2>2
<1> QED
  BY <1>2, <1>4, <1>6 DEF AnnouncementInv, ProducerInv

\* Accepting, blocking and reopening leave finished operations and accounts alone.
LEMMA OperateStep ==
    ASSUME AnnouncementInv, NEW k \in Key, Operate(k)
    PROVE  AnnouncementInv'
<1>1. OutboxInv' /\ HandledExists' /\ rows' = rows /\ account' = account
  <2>1. UNCHANGED vars /\ account' = account
    BY DEF Operate, Service!Accept, Service!Block, Service!Reopen
  <2>2. rows' = rows /\ delivered' = delivered /\ attempt' = attempt
    BY <2>1 DEF vars
  <2>3. OutboxInv'
    BY <2>1, NextInv DEF AnnouncementInv
  <2> QED
    BY <2>1, <2>2, <2>3 DEF AnnouncementInv, HandledExists
<1>2. /\ phase[k] # "done"
      /\ ServiceTypeOK'
      /\ phase'[k] # "none" => reserved'[k] \in Email
      /\ \A l \in Key \ {k} : phase'[l] = phase[l] /\ reserved'[l] = reserved[l]
  <2>1. CASE \E e \in Email : Service!Accept(k, e)
    BY <2>1 DEF AnnouncementInv, ServiceTypeOK, Service!Accept
  <2>2. CASE Service!Block(k) \/ Service!Reopen(k)
    BY <2>2 DEF AnnouncementInv, ServiceTypeOK, ProducerInv, Service!Block, Service!Reopen
  <2> QED
    BY <2>1, <2>2 DEF Operate
<1>3. ProducerInv'
  BY <1>1, <1>2 DEF AnnouncementInv, ProducerInv
<1> QED
  BY <1>1, <1>2, <1>3 DEF AnnouncementInv

\* Relays, operator and cleanup write no row that was not there.
LEMMA RelayingWrites ==
    ASSUME OutboxInv, Relaying, NEW m \in Message, rows[m].status = "ABSENT"
    PROVE  rows'[m] = rows[m]
<1>0. rows \in [Message -> OutboxMessage]
  BY DEF OutboxInv, TypeOK
<1>1. ASSUME NEW l \in Message,
             BeginRedrive(l) \/ RedriveQuarantined(l) \/ DeleteTerminal(l)
      PROVE  rows'[m] = rows[m]
  BY <1>0, <1>1 DEF BeginRedrive, RedriveQuarantined, DeleteTerminal, Terminal
<1>2. ASSUME NEW r \in Relay, RunOnce(r)
      PROVE  rows'[m] = rows[m]
  BY <1>0, <1>2 DEF RunOnce, IsBatch, Claimable
<1>3. ASSUME NEW r \in Relay, NEW l \in Message, Process(r, l)
      PROVE  rows'[m] = rows[m]
  <2>1. rows' # rows => Owned(l, r) /\ \E row : rows' = [rows EXCEPT ![l] = row]
    BY <1>3 DEF Process, Delivered, PublishRejected, PublishFailed, FinalizePublished,
       ScheduleRetry, Quarantine, Abandon
  <2> QED
    BY <1>0, <2>1, ZenonT(60) DEF Owned
<1> QED
  BY <1>1, <1>2, <1>3 DEF Relaying, Tick

\* So they announce nobody who is not registered.
LEMMA RelayingStep == ASSUME AnnouncementInv, Relaying PROVE AnnouncementInv'
<1>1. Next /\ UNCHANGED svcVars
  BY RelayingIsNext, ZenonT(60)
<1>2. OutboxInv' /\ HandledExists'
  BY <1>1, NextInv, HandledStep DEF AnnouncementInv
<1>3. \A m \in Message : rows[m].status = "ABSENT" => rows'[m] = rows[m]
  BY RelayingWrites DEF AnnouncementInv
<1>4. phase' = phase /\ reserved' = reserved /\ account' = account
  BY <1>1 DEF svcVars
<1>5. ServiceTypeOK'
  BY <1>4 DEF AnnouncementInv, ServiceTypeOK
<1>6. ProducerInv'
  BY <1>3, <1>4, AnnouncementAssumption DEF AnnouncementInv, ProducerInv
<1> QED
  BY <1>2, <1>5, <1>6 DEF AnnouncementInv

\* AnnouncementInv is inductive.
LEMMA ComposedNext ==
    AnnouncementInv /\ [AnnouncementNext]_announcementVars => AnnouncementInv'
<1>1. ASSUME AnnouncementInv, UNCHANGED announcementVars
      PROVE  AnnouncementInv'
  <2>1. /\ UNCHANGED vars
        /\ phase' = phase /\ reserved' = reserved /\ account' = account
    BY <1>1 DEF announcementVars, svcVars
  <2>2. OutboxInv'
    BY <1>1, <2>1, NextInv DEF AnnouncementInv
  <2>3. rows' = rows /\ delivered' = delivered /\ attempt' = attempt
    BY <2>1 DEF vars
  <2> QED
    BY <1>1, <2>1, <2>2, <2>3 DEF AnnouncementInv, HandledExists, ServiceTypeOK, ProducerInv
<1> QED
  BY <1>1, FinalizeStep, OperateStep, RelayingStep DEF AnnouncementNext

\* An event is in the topic only if its user is in the users table: for every
\* number of operations, messages and relays, whatever is repeated, lost,
\* quarantined, redriven or cleaned up.
THEOREM AnnouncedAccountsAlwaysExist == AnnouncementSpec => []AnnouncedAccountsExist
<1>1. AnnouncementInv => AnnouncedAccountsExist
  BY AnnouncementAssumption
     DEF AnnouncementInv, HandledExists, ProducerInv, AnnouncedAccountsExist
<1> QED
  BY <1>1, ComposedInit, ComposedNext, PTL DEF AnnouncementSpec

\* Composition keeps both parts: every behaviour of the whole is one of the
\* outbox, so its theorems hold of the composition too, ...
THEOREM AnnouncementIsOutbox == AnnouncementSpec => Spec
<1>1. AnnouncementInit => Init
  BY DEF AnnouncementInit
<1>2. [AnnouncementNext]_announcementVars => [Next]_vars
  <2>1. ASSUME NEW k \in Key, FinalizeRegistration(k) PROVE Next
    BY <2>1, AnnouncementAssumption DEF FinalizeRegistration, Next
  <2> QED
    BY <2>1, RelayingIsNext DEF AnnouncementNext, Operate, announcementVars
<1> QED
  BY <1>1, <1>2, PTL DEF AnnouncementSpec, Spec

\* ... and one of the service that registration implements.
THEOREM AnnouncementIsService == AnnouncementSpec => Service!SvcSpec
<1>1. AnnouncementInit => Service!SvcInit
  BY DEF AnnouncementInit
<1>2. [AnnouncementNext]_announcementVars => [Service!SvcNext]_(Service!svcVars)
  BY RelayingIsNext DEF AnnouncementNext, FinalizeRegistration, Operate, announcementVars,
     svcVars, Service!svcVars, Service!SvcNext
<1> QED
  BY <1>1, <1>2, PTL DEF AnnouncementSpec, Service!SvcSpec
=============================================================================
