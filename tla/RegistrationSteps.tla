------------------------- MODULE RegistrationSteps --------------------------
(***************************************************************************)
(* The steps of Registration, for every number of keys, emails, requests,  *)
(* handlers and reconcilers, every lease, delay and clock bound: they keep *)
(* the types, and they treat a row and a user in a few ways only.          *)
(***************************************************************************)
EXTENDS Registration, TLAPS
-----------------------------------------------------------------------------
(* Types                                                                   *)

\* A reading of the clock is a time.
LEMMA ReadingIsTime == ASSUME now \in Nat PROVE ClockReading \subseteq Nat
  BY DEF ClockReading

\* Every row the repository writes is a well-formed row.
LEMMA CreatedType ==
    ASSUME NEW r \in Request, NEW o \in Owner, NEW at \in Nat
    PROVE  Created(r, o, at) \in RegistrationOperation
<1>1. r.email \in Email /\ r.password \in Password /\ at + Lease \in Nat
  BY RegistrationAssumption
<1> QED
  BY <1>1, Zenon DEF RegistrationOperation, Status, Created, NoOperation

\* A claim keeps the row well-formed.
LEMMA ClaimedType ==
    ASSUME NEW row \in RegistrationOperation, NEW o \in Owner, NEW at \in Nat
    PROVE  Claimed(row, o, at) \in RegistrationOperation
<1>1. at + Lease \in Nat
  BY RegistrationAssumption
<1> QED
  BY <1>1, Zenon DEF RegistrationOperation, Status, Claimed

\* So does completing an operation,
LEMMA CompletedType ==
    ASSUME NEW row \in RegistrationOperation
    PROVE  Completed(row) \in RegistrationOperation
<1>1. row.attempts + 1 \in Nat
  BY DEF RegistrationOperation
<1> QED
  BY <1>1, Zenon DEF RegistrationOperation, Status, Completed

\* putting it off,
LEMMA RescheduledType ==
    ASSUME NEW row \in RegistrationOperation, NEW at \in Nat
    PROVE  Rescheduled(row, at) \in RegistrationOperation
<1>1. row.attempts + 1 \in Nat
  BY DEF RegistrationOperation
<1> QED
  BY <1>1, Zenon DEF RegistrationOperation, Status, Rescheduled

\* blocking it,
LEMMA BlockedType ==
    ASSUME NEW row \in RegistrationOperation
    PROVE  Blocked(row) \in RegistrationOperation
<1>1. row.attempts + 1 \in Nat
  BY DEF RegistrationOperation
<1> QED
  BY <1>1, Zenon DEF RegistrationOperation, Status, Blocked

\* and redriving it.
LEMMA RedrivenType ==
    ASSUME NEW row \in RegistrationOperation, NEW at \in Nat
    PROVE  Redriven(row, at) \in RegistrationOperation
<1>1. row.redrives + 1 \in Nat
  BY DEF RegistrationOperation
<1> QED
  BY <1>1, Zenon DEF RegistrationOperation, Status, Redriven

\* An attempt starts with a well-formed copy of the row it claimed.
LEMMA BeginAttemptType ==
    ASSUME NEW row \in RegistrationOperation
    PROVE  BeginAttempt(row) \in Attempt
  BY Zenon DEF RegistrationOperation, BeginAttempt, NoAttempt, Attempt

\* The initial state is well-formed.
LEMMA TypeInit == Init => TypeOK
  BY RegistrationAssumption
  DEF Init, TypeOK, RegistrationOperation, Status, User, Attempt, HandlerState,
      Answer, NoOperation, NoUser, LegacyUser, NoAttempt

\* Answering a request, and deciding how to resume it, keeps it well-formed.
LEMMA AnsweredType ==
    ASSUME NEW state \in HandlerState, NEW answer \in Answer
    PROVE  /\ Answered(state, answer) \in HandlerState
           /\ Answered(state, answer).pc = "idle"
           /\ Answered(state, answer).request = state.request
           /\ Answered(state, answer).answer = answer
  BY Zenon DEF HandlerState, Answered

\* _resume_existing leaves the request answered or about to claim.
LEMMA ResumeExistingType ==
    ASSUME NEW state \in HandlerState, NEW k \in Key
    PROVE  /\ ResumeExisting(state, k) \in HandlerState
           /\ ResumeExisting(state, k).request = state.request
<1>1. [state EXCEPT !.pc = "claim"] \in HandlerState
  BY DEF HandlerState
<1>2. [state EXCEPT !.pc = "claim"].request = state.request
  BY DEF HandlerState
<1>3. {"conflict", "broken", "completed", "unavailable"} \subseteq Answer
  BY DEF Answer
<1> QED
  BY <1>1, <1>2, <1>3, AnsweredType, Zenon DEF ResumeExisting

\* The steps of an attempt keep it well-formed.
LEMMA AttemptTypes ==
    ASSUME NEW a \in Attempt
    PROVE  /\ Blocking(a, "unavailable") \in Attempt
           /\ Blocking(a, "error") \in Attempt
           /\ RetryOrBlock(a) \in Attempt
           /\ [a EXCEPT !.pc = "finalize"] \in Attempt
           /\ NoAttempt \in Attempt
  BY Zenon DEF Attempt, Blocking, RetryOrBlock, NoAttempt

\* Ending an attempt keeps attempts and requests well-formed.
LEMMA FinishType ==
    ASSUME TypeOK, NEW o \in Owner, NEW k \in Key, NEW answer \in Answer,
           Finish(o, k, answer)
    PROVE  /\ attempt' \in [Owner -> [Key -> Attempt]]
           /\ handler' \in [Handler -> HandlerState]
           /\ \A h \in Handler : handler'[h].pc # "idle" => handler'[h].request \in Request
<1>1. attempt' \in [Owner -> [Key -> Attempt]]
  BY AttemptTypes, Zenon DEF TypeOK, Finish
<1>2. CASE o \in Handler
  <2>1. /\ Answered(handler[o], answer) \in HandlerState
        /\ Answered(handler[o], answer).pc = "idle"
    BY <1>2, AnsweredType DEF TypeOK
  <2>2. handler' = [handler EXCEPT ![o] = Answered(handler[o], answer)]
    BY <1>2 DEF Finish
  <2> QED
    BY <1>1, <2>1, <2>2, Zenon DEF TypeOK
<1>3. CASE o \notin Handler
  BY <1>1, <1>3 DEF TypeOK, Finish
<1> QED
  BY <1>2, <1>3

\* So does moving an attempt to its next control point.
LEMMA GoToType ==
    ASSUME TypeOK, NEW o \in Owner, NEW k \in Key, NEW step \in Attempt,
           GoTo(o, k, step)
    PROVE  attempt' \in [Owner -> [Key -> Attempt]] /\ UNCHANGED handler
  BY DEF TypeOK, GoTo

\* Every step keeps the state well-formed.
LEMMA TypeStep == TypeOK /\ [Next]_vars => TypeOK'
<1> SUFFICES ASSUME TypeOK, [Next]_vars PROVE TypeOK'
  OBVIOUS
<1> USE RegistrationAssumption
<1>a. /\ \A k \in Key : ops[k] \in RegistrationOperation
      /\ \A h \in Handler : handler[h] \in HandlerState
      /\ \A o \in Owner, k \in Key : attempt[o][k] \in Attempt
      /\ ClockReading \subseteq Nat
  BY DEF TypeOK, ClockReading
<1>b. \A r \in Request : r.key \in Key /\ r.email \in Email /\ r.password \in Password
  OBVIOUS
<1>1. ASSUME NEW h \in Handler, NEW r \in Request, Send(h, r) PROVE TypeOK'
  <2>1. [pc |-> "load", request |-> r, answer |-> "none"] \in HandlerState
    BY DEF HandlerState, Answer
  <2> QED
    BY <1>1, <2>1 DEF Send, TypeOK
<1>2. ASSUME NEW h \in Handler, LoadByKey(h) PROVE TypeOK'
  <2> DEFINE k == handler[h].request.key
             next == IF ops[k].status = "ABSENT" THEN [handler[h] EXCEPT !.pc = "lookup"]
                     ELSE ResumeExisting(handler[h], k)
  <2>1. k \in Key /\ handler[h].request \in Request
    BY <1>2, <1>b DEF LoadByKey, TypeOK
  <2>2. next \in HandlerState /\ next.request = handler[h].request
    <3>1. [handler[h] EXCEPT !.pc = "lookup"] \in HandlerState
      BY <1>a DEF HandlerState
    <3>2. [handler[h] EXCEPT !.pc = "lookup"].request = handler[h].request
      BY <1>a DEF HandlerState
    <3> QED
      BY <1>a, <2>1, <3>1, <3>2, ResumeExistingType
  <2>3. handler' = [handler EXCEPT ![h] = next]
    BY <1>2 DEF LoadByKey
  <2> HIDE DEF next, k
  <2> QED
    BY <1>2, <2>1, <2>2, <2>3 DEF LoadByKey, TypeOK
<1>l. ASSUME NEW h \in Handler, LookupEmail(h) PROVE TypeOK'
  <2>1. PICK pc \in {"insert", "reload"} : handler' = [handler EXCEPT ![h].pc = pc]
    BY <1>l, Zenon DEF LookupEmail
  <2>2. handler[h].request \in Request
    BY <1>l DEF LookupEmail, TypeOK
  <2>3. handler' \in [Handler -> HandlerState]
    BY <2>1 DEF TypeOK, HandlerState
  <2>4. \A g \in Handler : handler'[g].pc # "idle" => handler'[g].request \in Request
    BY <2>1, <2>2 DEF TypeOK, HandlerState
  <2> QED
    BY <1>l, <2>3, <2>4 DEF LookupEmail, TypeOK
<1>3. ASSUME NEW h \in Handler, TryCreate(h) PROVE TypeOK'
  <2> DEFINE r == handler[h].request
  <2>1. r \in Request
    BY <1>3 DEF TryCreate, TypeOK
  <2>2. /\ handler' \in [Handler -> HandlerState]
        /\ \A g \in Handler : handler'[g].request = handler[g].request
        /\ \A g \in Handler \ {h} : handler'[g] = handler[g]
    <3>1. CASE handler' = [handler EXCEPT ![h].pc = "resume"]
      BY <3>1 DEF TypeOK, HandlerState
    <3>2. CASE handler' = [handler EXCEPT ![h].pc = "reload"]
      BY <3>2 DEF TypeOK, HandlerState
    <3> QED
      BY <1>3, <3>1, <3>2 DEF TryCreate
  <2>3. ops' \in [Key -> RegistrationOperation] /\ attempt' \in [Owner -> [Key -> Attempt]]
    <3>1. CASE UNCHANGED <<ops, attempt>>
      BY <3>1 DEF TypeOK
    <3>2. ASSUME NEW at \in ClockReading,
                 ops' = [ops EXCEPT ![r.key] = Created(r, h, at)],
                 attempt' = [attempt EXCEPT ![h][r.key] = BeginAttempt(Created(r, h, at))]
          PROVE  /\ ops' \in [Key -> RegistrationOperation]
                 /\ attempt' \in [Owner -> [Key -> Attempt]]
      <4>1. Created(r, h, at) \in RegistrationOperation
        BY <1>a, <2>1, CreatedType DEF Owner
      <4>2. BeginAttempt(Created(r, h, at)) \in Attempt
        BY <4>1, BeginAttemptType
      <4> QED
        BY <1>b, <2>1, <3>2, <4>1, <4>2, Zenon DEF TypeOK
    <3> QED
      BY <1>3, <3>1, <3>2 DEF TryCreate
  <2> QED
    BY <1>3, <2>1, <2>2, <2>3, Zenon DEF TryCreate, TypeOK
<1>4. ASSUME NEW h \in Handler, ReloadByKey(h) PROVE TypeOK'
  <2> DEFINE k == handler[h].request.key
             next == IF ops[k].status = "ABSENT" THEN Answered(handler[h], "exists")
                     ELSE ResumeExisting(handler[h], k)
  <2>1. k \in Key /\ handler[h].request \in Request
    BY <1>4, <1>b DEF ReloadByKey, TypeOK
  <2>2. next \in HandlerState /\ next.request = handler[h].request
    <3>1. "exists" \in Answer
      BY DEF Answer
    <3> QED
      BY <1>a, <2>1, <3>1, AnsweredType, ResumeExistingType
  <2>3. handler' = [handler EXCEPT ![h] = next]
    BY <1>4 DEF ReloadByKey
  <2> HIDE DEF next, k
  <2> QED
    BY <1>4, <2>1, <2>2, <2>3 DEF ReloadByKey, TypeOK
<1>5. ASSUME NEW h \in Handler, ClaimByKey(h) PROVE TypeOK'
  <2> DEFINE k == handler[h].request.key
  <2>1. k \in Key /\ handler[h].request \in Request
    BY <1>5, <1>b DEF ClaimByKey, TypeOK
  <2>2. PICK at \in ClockReading :
          \/ /\ ops' = [ops EXCEPT ![k] = Claimed(ops[k], h, at)]
             /\ attempt' = [attempt EXCEPT ![h][k] = BeginAttempt(ops[k])]
             /\ handler' = [handler EXCEPT ![h].pc = "resume"]
          \/ /\ handler' = [handler EXCEPT ![h] = Answered(handler[h], "pending")]
             /\ UNCHANGED <<ops, attempt>>
    BY <1>5 DEF ClaimByKey
  <2>3. /\ Claimed(ops[k], h, at) \in RegistrationOperation
        /\ BeginAttempt(ops[k]) \in Attempt
    BY <1>a, <2>1, ClaimedType, BeginAttemptType DEF Owner
  <2>4. /\ Answered(handler[h], "pending") \in HandlerState
        /\ Answered(handler[h], "pending").request = handler[h].request
    <3>1. "pending" \in Answer
      BY DEF Answer
    <3> QED
      BY <1>a, <3>1, AnsweredType
  <2>5. /\ handler' \in [Handler -> HandlerState]
        /\ handler'[h].request = handler[h].request
        /\ \A g \in Handler \ {h} : handler'[g] = handler[g]
    <3>1. CASE handler' = [handler EXCEPT ![h].pc = "resume"]
      BY <3>1 DEF TypeOK, HandlerState
    <3>2. CASE handler' = [handler EXCEPT ![h] = Answered(handler[h], "pending")]
      BY <2>4, <3>2 DEF TypeOK
    <3> QED
      BY <2>2, <3>1, <3>2
  <2>6. ops' \in [Key -> RegistrationOperation] /\ attempt' \in [Owner -> [Key -> Attempt]]
    <3> DEFINE claimed == Claimed(ops[k], h, at)
               begun == BeginAttempt(ops[k])
    <3>1. claimed \in RegistrationOperation /\ begun \in Attempt
      BY <2>3
    <3>2. \/ /\ ops' = [ops EXCEPT ![k] = claimed]
             /\ attempt' = [attempt EXCEPT ![h][k] = begun]
          \/ UNCHANGED <<ops, attempt>>
      BY <2>2
    <3>3. /\ ops \in [Key -> RegistrationOperation]
          /\ attempt \in [Owner -> [Key -> Attempt]]
      BY DEF TypeOK
    <3>4. k \in Key /\ h \in Owner
      BY <2>1 DEF Owner
    <3> HIDE DEF k, claimed, begun
    <3>5. ops' \in [Key -> RegistrationOperation]
      BY <3>1, <3>2, <3>3, <3>4
    <3>6. attempt' \in [Owner -> [Key -> Attempt]]
      BY <3>1, <3>2, <3>3, <3>4
    <3> QED
      BY <3>5, <3>6
  <2> QED
    BY <1>5, <2>1, <2>5, <2>6 DEF ClaimByKey, TypeOK
<1>6. ASSUME NEW r \in Reconciler, RunOnce(r) PROVE TypeOK'
  <2>1. PICK at \in ClockReading, B \in SUBSET Key :
          /\ ops' = [k \in Key |-> IF k \in B THEN Claimed(ops[k], r, at) ELSE ops[k]]
          /\ attempt' = [attempt EXCEPT ![r] =
                          [k \in Key |-> IF k \in B THEN BeginAttempt(ops[k]) ELSE NoAttempt]]
    BY <1>6, Zenon DEF RunOnce
  <2>2. \A k \in Key : /\ Claimed(ops[k], r, at) \in RegistrationOperation
                       /\ BeginAttempt(ops[k]) \in Attempt
    <3> TAKE k \in Key
    <3>1. r \in Owner /\ at \in Nat /\ ops[k] \in RegistrationOperation
      BY <1>a DEF Owner
    <3> QED
      BY <3>1, ClaimedType, BeginAttemptType
  <2>3. NoAttempt \in Attempt
    BY DEF Attempt, NoAttempt
  <2> QED
    BY <1>6, <2>1, <2>2, <2>3, Zenon DEF RunOnce, TypeOK
<1>7. ASSUME NEW o \in Owner, NEW k \in Key, Resume(o, k) \/ Failure(o, k)
      PROVE  TypeOK'
  <2> DEFINE a == attempt[o][k]
  <2>a. a \in Attempt /\ ops[k] \in RegistrationOperation
    BY <1>a
  <2>b. {"pending", "completed", "error", a.answer} \subseteq Answer
    BY <2>a DEF Answer, Attempt
  <2>c. CommitFinalize(a, k) =>
          /\ ops' \in [Key -> RegistrationOperation]
          /\ users' \in [Email -> User]
          /\ events' \in [Key -> Nat]
    <3>1. Completed(ops[k]) \in RegistrationOperation
      BY <2>a, CompletedType
    <3>2. [id |-> k, password |-> a.password] \in User
      BY <2>a DEF User, Attempt
    <3>3. events[k] + 1 \in Nat
      BY DEF TypeOK
    <3> HIDE DEF a
    <3> HAVE CommitFinalize(a, k)
    <3>4. ops' \in [Key -> RegistrationOperation]
      BY <3>1 DEF CommitFinalize, TypeOK
    <3>5. users' \in [Email -> User]
      BY <3>2, Zenon DEF CommitFinalize, TypeOK
    <3>6. events' \in [Key -> Nat]
      BY <3>3 DEF CommitFinalize, TypeOK
    <3> QED
      BY <3>4, <3>5, <3>6
  <2> HIDE DEF a
  <2>1. CASE Provisioned(o, k)
    BY <2>1, <2>a, AttemptTypes, GoToType DEF Provisioned, TypeOK, a
  <2>2. CASE ProvisionUnavailable(o, k)
    BY <2>2, <2>a, AttemptTypes, GoToType, Zenon DEF ProvisionUnavailable, TypeOK, a
  <2>3. CASE ProvisionRejected(o, k)
    BY <2>3, <2>a, AttemptTypes, GoToType, Zenon DEF ProvisionRejected, TypeOK, a
  <2>4. CASE Finalize(o, k)
    <3>1. \/ Finish(o, k, "pending") /\ UNCHANGED <<ops, users, events>>
          \/ Finish(o, k, "completed") /\ CommitFinalize(a, k)
          \/ GoTo(o, k, Blocking(a, "unavailable")) /\ UNCHANGED <<ops, users, events>>
      BY <2>4 DEF Finalize, a
    <3>2. UNCHANGED <<profiles, now>>
      BY <2>4 DEF Finalize
    <3>3. CASE Finish(o, k, "pending") /\ UNCHANGED <<ops, users, events>>
      BY <3>2, <3>3, <2>b, FinishType DEF TypeOK
    <3>4. CASE Finish(o, k, "completed") /\ CommitFinalize(a, k)
      BY <3>2, <3>4, <2>b, <2>c, FinishType DEF TypeOK
    <3>5. CASE GoTo(o, k, Blocking(a, "unavailable")) /\ UNCHANGED <<ops, users, events>>
      BY <3>2, <3>5, <2>a, AttemptTypes, GoToType, Zenon DEF TypeOK
    <3> QED
      BY <3>1, <3>3, <3>4, <3>5
  <2>5. CASE FinalizeUncertain(o, k)
    <3>1. UNCHANGED <<ops, users, events>> \/ CommitFinalize(a, k)
      BY <2>5 DEF FinalizeUncertain, a
    <3>2. GoTo(o, k, RetryOrBlock(a)) /\ UNCHANGED <<profiles, now>>
      BY <2>5 DEF FinalizeUncertain, a
    <3>3. /\ attempt' \in [Owner -> [Key -> Attempt]]
          /\ UNCHANGED handler
      BY <2>a, <3>2, AttemptTypes, GoToType, Zenon
    <3> QED
      BY <2>c, <3>1, <3>2, <3>3 DEF TypeOK
  <2>6. CASE FinalizeError(o, k)
    BY <2>6, <2>a, AttemptTypes, GoToType, Zenon DEF FinalizeError, TypeOK, a
  <2>7. CASE ScheduleRetry(o, k)
    <3>1. PICK at \in ClockReading, delay \in RetryDelay :
            ops' = IF Owned(ops[k], o, at)
                   THEN [ops EXCEPT ![k] = Rescheduled(ops[k], at + delay)] ELSE ops
      BY <2>7 DEF ScheduleRetry
    <3>2. Rescheduled(ops[k], at + delay) \in RegistrationOperation
      <4>1. at + delay \in Nat
        BY <1>a
      <4> QED
        BY <4>1, <2>a, RescheduledType
    <3>3. ops' \in [Key -> RegistrationOperation]
      BY <3>1, <3>2 DEF TypeOK
    <3>4. PICK answer \in Outcome("pending") : Finish(o, k, answer)
      BY <2>7 DEF ScheduleRetry
    <3>5. answer \in Answer /\ UNCHANGED <<users, events, profiles, now>>
      BY <2>7, <2>b DEF ScheduleRetry, Outcome
    <3> QED
      BY <3>5, <3>3, <3>4, <2>b, FinishType DEF TypeOK
  <2>8. CASE BlockOperation(o, k)
    <3>1. Blocked(ops[k]) \in RegistrationOperation
      BY <2>a, BlockedType
    <3>2. ops' \in [Key -> RegistrationOperation]
      BY <2>8, <3>1 DEF BlockOperation, TypeOK
    <3>3. PICK answer \in Outcome(a.answer) : Finish(o, k, answer)
      BY <2>8 DEF BlockOperation, a
    <3>4. answer \in Answer /\ UNCHANGED <<users, events, profiles, now>>
      BY <2>8, <2>b DEF BlockOperation, Outcome
    <3> QED
      BY <3>4, <3>2, <3>3, <2>b, FinishType DEF TypeOK
  <2>9. CASE AttemptRaises(o, k)
    <3>1. Finish(o, k, "error") /\ UNCHANGED <<ops, users, events, profiles, now>>
      BY <2>9 DEF AttemptRaises
    <3> QED
      BY <3>1, <2>b, FinishType DEF TypeOK
  <2> QED
    BY <1>7, <2>1, <2>2, <2>3, <2>4, <2>5, <2>6, <2>7, <2>8, <2>9 DEF Resume, Failure
<1>8. ASSUME NEW k \in Key, Redrive(k) PROVE TypeOK'
  <2>1. PICK at \in ClockReading : ops' = [ops EXCEPT ![k] = Redriven(ops[k], at)]
    BY <1>8, Zenon DEF Redrive
  <2>2. Redriven(ops[k], at) \in RegistrationOperation
    BY <1>a, RedrivenType
  <2> QED
    BY <1>8, <2>1, <2>2 DEF Redrive, TypeOK
<1>9. ASSUME NEW o \in Owner, Crash(o) PROVE TypeOK'
  <2>1. attempt' \in [Owner -> [Key -> Attempt]]
    <3>1. NoAttempt \in Attempt
      BY DEF Attempt, NoAttempt
    <3> QED
      BY <1>9, <3>1 DEF Crash, TypeOK
  <2>2. /\ handler' \in [Handler -> HandlerState]
        /\ \A h \in Handler : handler'[h].pc # "idle" => handler'[h].request \in Request
    <3>1. CASE o \in Handler
      <4>1. /\ Answered(handler[o], "error") \in HandlerState
            /\ Answered(handler[o], "error").pc = "idle"
        BY <1>a, <3>1, AnsweredType, "error" \in Answer DEF Answer
      <4> QED
        BY <1>9, <3>1, <4>1 DEF Crash, TypeOK
    <3>2. CASE o \notin Handler
      BY <1>9, <3>2 DEF Crash, TypeOK
    <3> QED
      BY <3>1, <3>2
  <2> QED
    BY <1>9, <2>1, <2>2 DEF Crash, TypeOK
<1>10. CASE Tick
  BY <1>10 DEF Tick, TypeOK
<1>11. CASE UNCHANGED vars
  BY <1>11 DEF vars, TypeOK
<1> QED
  BY <1>1, <1>2, <1>l, <1>3, <1>4, <1>5, <1>6, <1>7, <1>8, <1>9, <1>10, <1>11
  DEF Next, Register

\* In every reachable state the tables, the requests and the attempts have the
\* columns and the control points the code gives them.
THEOREM TypeCorrect == Spec => []TypeOK
  BY TypeInit, TypeStep, PTL DEF Spec

-----------------------------------------------------------------------------
(* Columns                                                                 *)

\* What each repository statement writes, column by column.
LEMMA RowColumns ==
    ASSUME NEW row \in RegistrationOperation, NEW o \in Owner, NEW at \in Nat
    PROVE  /\ LET new == Claimed(row, o, at) IN
              /\ new.status = "CLAIMED" /\ new.token = o
              /\ new.email = row.email /\ new.password = row.password
              /\ new.attempts = row.attempts
           /\ LET new == Completed(row) IN
              /\ new.status = "COMPLETED" /\ new.token = None
              /\ new.email = row.email /\ new.password = None
              /\ new.attempts = row.attempts + 1
           /\ LET new == Rescheduled(row, at) IN
              /\ new.status = "PENDING" /\ new.token = None
              /\ new.email = row.email /\ new.password = row.password
              /\ new.attempts = row.attempts + 1
           /\ LET new == Blocked(row) IN
              /\ new.status = "BLOCKED" /\ new.token = None
              /\ new.email = row.email /\ new.password = row.password
              /\ new.attempts = row.attempts + 1
           /\ LET new == Redriven(row, at) IN
              /\ new.status = "PENDING" /\ new.token = None
              /\ new.email = row.email /\ new.password = row.password
              /\ new.attempts = 0
  BY DEF RegistrationOperation, Claimed, Completed, Rescheduled, Blocked, Redriven

\* What an attempt remembers when it begins.
LEMMA BeginColumns ==
    ASSUME NEW row \in RegistrationOperation
    PROVE  /\ BeginAttempt(row).pc = "provision"
           /\ BeginAttempt(row).attempts = row.attempts
           /\ BeginAttempt(row).email = row.email
           /\ BeginAttempt(row).password = row.password
  BY DEF RegistrationOperation, BeginAttempt, NoAttempt

\* Going on to block changes nothing an attempt remembers of its row.
LEMMA BlockingColumns ==
    ASSUME NEW a \in Attempt, NEW answer \in {"unavailable", "error"}
    PROVE  /\ Blocking(a, answer).pc = "block"
           /\ Blocking(a, answer).attempts = a.attempts
           /\ Blocking(a, answer).email = a.email
           /\ Blocking(a, answer).password = a.password
  BY DEF Attempt, Blocking

\* _retry_or_block retries only with an attempt left.
LEMMA RetryOrBlockColumns ==
    ASSUME NEW a \in Attempt
    PROVE  /\ RetryOrBlock(a).pc \in {"retry", "block"}
           /\ RetryOrBlock(a).pc = "retry" => a.attempts + 1 < MaxAttempts
           /\ RetryOrBlock(a).attempts = a.attempts
           /\ RetryOrBlock(a).email = a.email
           /\ RetryOrBlock(a).password = a.password
<1>1. a.attempts + 1 \in Nat /\ MaxAttempts \in Nat
  BY RegistrationAssumption DEF Attempt
<1> QED
  BY <1>1 DEF Attempt, Blocking, RetryOrBlock

-----------------------------------------------------------------------------
(* What a step can do to one row, and to the users                         *)

\* An owner whose lease runs records the outcome of its attempt.
Records(k) ==
    \E o \in Owner, at \in ClockReading :
        /\ Owned(ops[k], o, at)
        /\ attempt[o][k].pc \in {"finalize", "retry", "block"}
        /\ attempt'[o][k].pc # attempt[o][k].pc
        /\ \/ ops'[k] = Completed(ops[k])
           \/ \E t \in Nat : ops'[k] = Rescheduled(ops[k], t)
           \/ ops'[k] = Blocked(ops[k])

RowStep(k) ==
    \/ ops'[k] = ops[k]
    \/ \E r \in Request, h \in Handler, at \in Nat :
         ops[k].status = "ABSENT" /\ ops'[k] = Created(r, h, at)
    \/ \E o \in Owner, at \in ClockReading :
         Eligible(ops[k], at) /\ ops'[k] = Claimed(ops[k], o, at)
    \/ Records(k)
    \/ \E at \in Nat : ops[k].status = "BLOCKED" /\ ops'[k] = Redriven(ops[k], at)

\* The commit of _finalize, by an owner whose lease runs.
Commits(o, k) ==
    /\ attempt[o][k].pc = "finalize"
    /\ ops[k].status = "CLAIMED" /\ ops[k].token = o
    /\ users[attempt[o][k].email] = NoUser
    /\ CommitFinalize(attempt[o][k], k)

\* A step of an attempt changes its own row only, while it holds the lease.
LEMMA AttemptRow ==
    ASSUME TypeOK, NEW o \in Owner, NEW k \in Key, Resume(o, k) \/ Failure(o, k),
           NEW j \in Key
    PROVE  ops'[j] = ops[j] \/ (j = k /\ Records(k))
<1> USE RegistrationAssumption
<1>0. /\ ops \in [Key -> RegistrationOperation] /\ attempt[o][k] \in Attempt
      /\ attempt \in [Owner -> [Key -> Attempt]]
      /\ ClockReading \subseteq Nat
  BY DEF TypeOK, ClockReading
<1>1. CASE ops' = ops
  BY <1>1
<1>2. ASSUME NEW at \in ClockReading, NEW new, Owned(ops[k], o, at),
             ops' = [ops EXCEPT ![k] = new],
             attempt[o][k].pc \in {"finalize", "retry", "block"},
             attempt'[o][k].pc # attempt[o][k].pc,
             \/ new = Completed(ops[k])
             \/ \E t \in Nat : new = Rescheduled(ops[k], t)
             \/ new = Blocked(ops[k])
      PROVE  ops'[j] = ops[j] \/ (j = k /\ Records(k))
  <2>1. ops'[k] = new /\ (j # k => ops'[j] = ops[j])
    BY <1>0, <1>2
  <2>2. Records(k)
    BY <1>2, <2>1 DEF Records
  <2> QED
    BY <2>1, <2>2
<1>3. ASSUME NEW answer, Finish(o, k, answer) PROVE attempt'[o][k].pc = "none"
  BY <1>0, <1>3 DEF Finish, NoAttempt
<1>4. CASE Finalize(o, k)
  <2>1. CASE ops' = ops
    BY <2>1
  <2>2. CASE ops' # ops
    <3>1. PICK at \in ClockReading : Owned(ops[k], o, at) /\ Finish(o, k, "completed")
                                     /\ CommitFinalize(attempt[o][k], k)
      BY <1>4, <2>2 DEF Finalize
    <3>2. attempt[o][k].pc = "finalize"
      BY <1>4 DEF Finalize
    <3>3. ops' = [ops EXCEPT ![k] = Completed(ops[k])]
      BY <3>1 DEF CommitFinalize
    <3>4. attempt'[o][k].pc = "none"
      BY <1>3, <3>1
    <3> QED
      BY <1>2, <3>1, <3>2, <3>3, <3>4
  <2> QED
    BY <2>1, <2>2
<1>5. CASE FinalizeUncertain(o, k)
  <2>1. CASE ops' = ops
    BY <2>1
  <2>2. CASE ops' # ops
    <3>1. PICK at \in ClockReading : Owned(ops[k], o, at) /\ CommitFinalize(attempt[o][k], k)
      BY <1>5, <2>2 DEF FinalizeUncertain
    <3>2. /\ attempt[o][k].pc = "finalize"
          /\ attempt' = [attempt EXCEPT ![o][k] = RetryOrBlock(attempt[o][k])]
      BY <1>5 DEF FinalizeUncertain, GoTo
    <3>3. ops' = [ops EXCEPT ![k] = Completed(ops[k])]
      BY <3>1 DEF CommitFinalize
    <3>4. attempt'[o][k].pc \in {"retry", "block"}
      BY <1>0, <3>2, RetryOrBlockColumns
    <3> QED
      BY <1>2, <3>1, <3>2, <3>3, <3>4
  <2> QED
    BY <2>1, <2>2
<1>6. CASE ScheduleRetry(o, k)
  <2>1. CASE ops' = ops
    BY <2>1
  <2>2. CASE ops' # ops
    <3>1. PICK at \in ClockReading, delay \in RetryDelay :
            Owned(ops[k], o, at) /\ ops' = [ops EXCEPT ![k] = Rescheduled(ops[k], at + delay)]
      BY <1>6, <2>2 DEF ScheduleRetry
    <3>2. at + delay \in Nat
      <4>1. at \in Nat /\ delay \in Nat
        BY <1>0
      <4> QED
        BY <4>1
    <3>3. attempt[o][k].pc = "retry" /\ attempt'[o][k].pc = "none"
      BY <1>3, <1>6 DEF ScheduleRetry
    <3> QED
      BY <1>2, <3>1, <3>2, <3>3
  <2> QED
    BY <2>1, <2>2
<1>7. CASE BlockOperation(o, k)
  <2>1. CASE ops' = ops
    BY <2>1
  <2>2. CASE ops' # ops
    <3>1. PICK at \in ClockReading :
            Owned(ops[k], o, at) /\ ops' = [ops EXCEPT ![k] = Blocked(ops[k])]
      BY <1>7, <2>2 DEF BlockOperation
    <3>2. attempt[o][k].pc = "block" /\ attempt'[o][k].pc = "none"
      BY <1>3, <1>7 DEF BlockOperation
    <3> QED
      BY <1>2, <3>1, <3>2
  <2> QED
    BY <2>1, <2>2
<1> QED
  BY <1>1, <1>4, <1>5, <1>6, <1>7 DEF Resume, Failure, Provisioned, ProvisionUnavailable,
     ProvisionRejected, FinalizeError, AttemptRaises

\* Every step treats every row in one of these ways.
LEMMA RowSteps == ASSUME TypeOK, Next, NEW k \in Key PROVE RowStep(k)
<1> USE RegistrationAssumption
<1>0. ops \in [Key -> RegistrationOperation] /\ ClockReading \subseteq Nat
  BY DEF TypeOK, ClockReading
<1>1. CASE ops'[k] = ops[k]
  BY <1>1 DEF RowStep
<1>2. ASSUME NEW h \in Handler, Register(h) PROVE RowStep(k)
  <2>0. h \in Owner
    BY DEF Owner
  <2>1. CASE LoadByKey(h) \/ LookupEmail(h) \/ ReloadByKey(h)
    BY <1>1, <2>1 DEF LoadByKey, LookupEmail, ReloadByKey
  <2>2. CASE TryCreate(h)
    <3>1. handler[h].request \in Request
      BY <2>2 DEF TypeOK, TryCreate
    <3>2. CASE ops'[k] # ops[k]
      <4>1. PICK at \in ClockReading :
              /\ ops' = [ops EXCEPT ![handler[h].request.key] = Created(handler[h].request, h, at)]
              /\ ops[handler[h].request.key].status = "ABSENT"
        BY <2>2, <3>2 DEF TryCreate, CanCreate
      <4>2. k = handler[h].request.key
        BY <1>0, <3>2, <4>1
      <4> QED
        BY <1>0, <3>1, <4>1, <4>2 DEF RowStep
    <3> QED
      BY <1>1, <3>2
  <2>3. CASE ClaimByKey(h)
    <3>1. CASE ops'[k] # ops[k]
      <4>1. PICK at \in ClockReading :
              /\ Eligible(ops[handler[h].request.key], at)
              /\ ops' = [ops EXCEPT ![handler[h].request.key] =
                          Claimed(ops[handler[h].request.key], h, at)]
        BY <2>3, <3>1 DEF ClaimByKey
      <4>2. k = handler[h].request.key
        BY <1>0, <3>1, <4>1
      <4> QED
        BY <1>0, <2>0, <4>1, <4>2 DEF RowStep
    <3> QED
      BY <1>1, <3>1
  <2> QED
    BY <1>2, <2>1, <2>2, <2>3 DEF Register
<1>3. ASSUME NEW r \in Reconciler, RunOnce(r) PROVE RowStep(k)
  <2>1. CASE ops'[k] # ops[k]
    <3>1. PICK at \in ClockReading : Eligible(ops[k], at) /\ ops'[k] = Claimed(ops[k], r, at)
      BY <1>3, <2>1 DEF RunOnce, IsBatch
    <3> QED
      BY <3>1 DEF RowStep, Owner
  <2> QED
    BY <1>1, <2>1
<1>4. ASSUME NEW o \in Owner, NEW j \in Key, Resume(o, j) \/ Failure(o, j) PROVE RowStep(k)
  BY <1>4, AttemptRow DEF RowStep
<1>5. ASSUME NEW j \in Key, Redrive(j) PROVE RowStep(k)
  <2>1. PICK at \in Nat : ops' = [ops EXCEPT ![j] = Redriven(ops[j], at)]
    BY <1>0, <1>5 DEF Redrive
  <2>2. CASE j = k
    BY <1>0, <1>5, <2>1, <2>2 DEF Redrive, RowStep
  <2> QED
    BY <1>0, <1>1, <2>1, <2>2
<1> QED
  BY <1>1, <1>2, <1>3, <1>4, <1>5 DEF Next, Send, Crash, Tick

\* While a lease runs, nobody else creates, claims or redrives the operation, and
\* only the attempt that holds it records an outcome, for every number of
\* handlers and reconcilers and every lease and stall.
THEOREM LiveClaimAlwaysExclusive == Spec => LiveClaimIsExclusive
<1>1. ASSUME TypeOK, Next, NEW k \in Key,
             ops[k].status = "CLAIMED", ops[k].expires > now, ops'[k] # ops[k]
      PROVE  /\ attempt[ops[k].token][k].pc # "none"
             /\ attempt'[ops[k].token][k] # attempt[ops[k].token][k]
  <2>1. ASSUME NEW at \in ClockReading PROVE ~Eligible(ops[k], at)
    <3>1. at \in Nat /\ at <= now /\ now \in Nat /\ ops[k].expires \in Nat
      BY <1>1 DEF TypeOK, RegistrationOperation, ClockReading
    <3> QED
      BY <1>1, <3>1 DEF Eligible
  <2>2. Records(k)
    BY <1>1, <2>1, RowSteps DEF RowStep
  <2> QED
    BY <2>2 DEF Records, Owned
<1>2. TypeOK /\ [Next]_vars =>
        [\A k \in Key :
          ops[k].status = "CLAIMED" /\ ops[k].expires > now /\ ops'[k] # ops[k]
            => /\ attempt[ops[k].token][k].pc # "none"
               /\ attempt'[ops[k].token][k] # attempt[ops[k].token][k]]_vars
  BY <1>1, ZenonT(60)
<1> QED
  BY <1>2, TypeCorrect, PTL DEF Spec, LiveClaimIsExclusive

\* A row that exists keeps its email, and its password until it is scrubbed; a
\* completed row never changes.
LEMMA RowKept ==
    ASSUME TypeOK, [Next]_vars, NEW k \in Key, ops[k].status # "ABSENT"
    PROVE  /\ ops'[k].status # "ABSENT"
           /\ ops'[k].email = ops[k].email
           /\ ops'[k].password \in {None, ops[k].password}
           /\ ops[k].status = "COMPLETED" => ops'[k] = ops[k]
<1>0. ops[k] \in RegistrationOperation /\ ClockReading \subseteq Nat
  BY DEF TypeOK, ClockReading
<1>1. CASE ops'[k] = ops[k]
  BY <1>1
<1>2. ASSUME Next PROVE RowStep(k)
  BY <1>2, RowSteps
<1>3. ASSUME NEW o \in Owner, NEW at \in ClockReading, Eligible(ops[k], at),
             ops'[k] = Claimed(ops[k], o, at)
      PROVE  /\ ops'[k].status # "ABSENT" /\ ops'[k].email = ops[k].email
             /\ ops'[k].password = ops[k].password /\ ops[k].status # "COMPLETED"
  BY <1>0, <1>3, RowColumns DEF Eligible
<1>4. ASSUME NEW at \in Nat, ops[k].status = "BLOCKED", ops'[k] = Redriven(ops[k], at)
      PROVE  /\ ops'[k].status # "ABSENT" /\ ops'[k].email = ops[k].email
             /\ ops'[k].password = ops[k].password /\ ops[k].status # "COMPLETED"
  BY <1>0, <1>4 DEF Redriven, RegistrationOperation
<1>5. ASSUME Records(k)
      PROVE  /\ ops'[k].status # "ABSENT" /\ ops'[k].email = ops[k].email
             /\ ops'[k].password \in {None, ops[k].password} /\ ops[k].status # "COMPLETED"
  <2>0. PICK o \in Owner, at \in ClockReading : Owned(ops[k], o, at)
    BY <1>5 DEF Records
  <2>1. ops[k].status = "CLAIMED"
    BY <2>0 DEF Owned
  <2>2. ASSUME NEW t \in Nat, \/ ops'[k] = Completed(ops[k]) \/ ops'[k] = Rescheduled(ops[k], t)
                               \/ ops'[k] = Blocked(ops[k])
        PROVE  /\ ops'[k].status # "ABSENT" /\ ops'[k].email = ops[k].email
               /\ ops'[k].password \in {None, ops[k].password}
    BY <1>0, <2>2, RowColumns
  <2>3. 0 \in Nat
    OBVIOUS
  <2> QED
    BY <1>5, <2>1, <2>2, <2>3 DEF Records
<1> QED
  BY <1>1, <1>2, <1>3, <1>4, <1>5 DEF RowStep, vars

\* The users and the outbox change only in the commit of _finalize.
LEMMA AccountSteps ==
    ASSUME TypeOK, [Next]_vars
    PROVE  \/ UNCHANGED <<users, events>>
           \/ \E o \in Owner, k \in Key : Commits(o, k)
<1>1. ASSUME NEW o \in Owner, NEW k \in Key, Resume(o, k) \/ Failure(o, k)
      PROVE  UNCHANGED <<users, events>> \/ Commits(o, k)
  BY <1>1 DEF Resume, Failure, Provisioned, Finalize, ScheduleRetry, BlockOperation,
     ProvisionUnavailable, ProvisionRejected, FinalizeUncertain, FinalizeError,
     AttemptRaises, Commits, Owned
<1>2. ASSUME NEW h \in Handler, Register(h) PROVE UNCHANGED <<users, events>>
  BY <1>2, ZenonT(60) DEF Register, LoadByKey, LookupEmail, TryCreate, ReloadByKey, ClaimByKey
<1> QED
  BY <1>1, <1>2, ZenonT(60) DEF Next, Send, RunOnce, Redrive, Crash, Tick, vars

\* An account never changes.
LEMMA AccountKept ==
    ASSUME TypeOK, [Next]_vars, NEW e \in Email, users[e] # NoUser
    PROVE  users'[e] = users[e]
<1>1. ASSUME NEW o \in Owner, NEW k \in Key, Commits(o, k) PROVE users'[e] = users[e]
  BY <1>1 DEF Commits, CommitFinalize, TypeOK
<1> QED
  BY <1>1, AccountSteps
=============================================================================
