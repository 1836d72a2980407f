------------------------- MODULE RegistrationProofs -------------------------
(***************************************************************************)
(* What registration promises, for every number of keys, emails, requests, *)
(* handlers and reconcilers, every lease, delay and clock bound: the       *)
(* invariant's consequences, that completion is final, that every answer   *)
(* is true, and that the protocol implements RegistrationService.          *)
(***************************************************************************)
EXTENDS RegistrationRefinement, RegistrationInvariant

\* A COMPLETED operation, its user row and its single outbox row exist together
\* or not at all, whatever owners race, crash or commit without knowing it.
THEOREM CompletionAlwaysAtomic == Spec => []CompletionIsAtomic
  BY RegistrationSafety, PTL DEF RegistrationInv

\* No user created by registration lacks its profile.
THEOREM ProfileAlwaysFirst == Spec => []ProfilePrecedesUser
  BY RegistrationSafety, PTL DEF RegistrationInv

\* An operation's email is never taken by anyone else, so finalization never
\* conflicts.
THEOREM EmailAlwaysReserved == Spec => []EmailReserved
  BY RegistrationSafety, PTL DEF RegistrationInv

\* Deciding on a snapshot never overruns the attempt budget.
THEOREM BudgetAlwaysKept == Spec => []AttemptsWithinBudget
  BY RegistrationSafety, PTL DEF RegistrationInv

\* Neither a late retry, block or claim of an owner that lost its lease nor a
\* redrive reopens a completed operation; its user and its event stay.
THEOREM CompletedAlwaysFinal == Spec => CompletedIsFinal
<1>1. ASSUME TypeOK, RegistrationInv, [Next]_vars, NEW k \in Key, ops[k].status = "COMPLETED"
      PROVE  /\ ops'[k] = ops[k]
             /\ events'[k] = events[k]
             /\ users'[ops[k].email] = users[ops[k].email]
  <2>1. ops'[k] = ops[k]
    BY <1>1, RowKept
  <2>2. events'[k] = events[k]
    <3>1. ASSUME NEW o \in Owner, NEW j \in Key, Commits(o, j) PROVE events'[k] = events[k]
      BY <1>1, <3>1 DEF Commits, CommitFinalize, TypeOK
    <3> QED
      BY <1>1, <3>1, AccountSteps
  <2>3. ops[k].email \in Email /\ users[ops[k].email].id = k
    BY <1>1 DEF RegistrationInv, LifecycleValid, CompletionIsAtomic, TypeOK, RegistrationOperation
  <2>4. users[ops[k].email] # NoUser
    BY <2>3, RegistrationAssumption DEF NoUser
  <2> QED
    BY <1>1, <2>1, <2>2, <2>3, <2>4, AccountKept
<1>2. TypeOK /\ RegistrationInv /\ [Next]_vars =>
        [\A k \in Key : ops[k].status = "COMPLETED" =>
          /\ ops'[k] = ops[k]
          /\ events'[k] = events[k]
          /\ users'[ops[k].email] = users[ops[k].email]]_vars
  BY <1>1
<1> QED
  BY <1>2, TypeCorrect, RegistrationSafety, PTL DEF Spec, CompletedIsFinal

-----------------------------------------------------------------------------
(* The answers                                                             *)

Taken(O, r) ==
    r.email \in LegacyEmail \/ \E k \in Key \ {r.key} : O[k].email = r.email

\* What AnswersInv says of one request s, with O for ops and U for users.
Reply(O, U, s) ==
    LET r == s.request IN
    /\ s.pc = "claim" =>
         /\ O[r.key].status # "ABSENT"
         /\ O[r.key].email = r.email
         /\ O[r.key].password \in {None, r.password}
    /\ s.pc = "reload" => O[r.key].status # "ABSENT" \/ Taken(O, r)
    /\ s.answer = "completed" =>
         r \in Request /\ U[r.email] = [id |-> r.key, password |-> r.password]
    /\ s.answer = "exists" => r \in Request /\ Taken(O, r)
    /\ s.answer # "broken"

\* What it says of one attempt a at k, made for request s.
MadeFor(a, k, s) ==
    a.pc # "none" =>
        /\ s.pc = "resume"
        /\ s.request.key = k
        /\ a.email = s.request.email
        /\ a.password = s.request.password

\* The invariant, read off one request, ...
LEMMA ReplyNow ==
    ASSUME AnswersInv, NEW h \in Handler
    PROVE  /\ Reply(ops, users, handler[h])
           /\ \A k \in Key : MadeFor(attempt[h][k], k, handler[h])
  BY DEF AnswersInv, RequestsAreVerified, AttemptsAreOfRequests, CompletedAnswerIsTrue,
     ReplayFindsUser, ExistsAnswerIsTrue, EmailTaken, Reply, MadeFor, Taken

\* ... and put together again.
LEMMA ReplyAll ==
    ASSUME \A h \in Handler : /\ Reply(ops, users, handler[h])
                              /\ \A k \in Key : MadeFor(attempt[h][k], k, handler[h])
    PROVE  AnswersInv
  BY DEF AnswersInv, RequestsAreVerified, AttemptsAreOfRequests, CompletedAnswerIsTrue,
     ReplayFindsUser, ExistsAnswerIsTrue, EmailTaken, Reply, MadeFor, Taken

LEMMA ReplyAllNext ==
    ASSUME \A h \in Handler : /\ Reply(ops', users', handler'[h])
                              /\ \A k \in Key : MadeFor(attempt'[h][k], k, handler'[h])
    PROVE  AnswersInv'
  BY DEF AnswersInv, RequestsAreVerified, AttemptsAreOfRequests, CompletedAnswerIsTrue,
     ReplayFindsUser, ExistsAnswerIsTrue, EmailTaken, Reply, MadeFor, Taken

\* An email that is taken stays taken.
LEMMA TakenKept ==
    ASSUME TypeOK, LifecycleValid, [Next]_vars, NEW r \in Request, Taken(ops, r)
    PROVE  Taken(ops', r)
<1>1. r.email # None
  BY RegistrationAssumption
<1>2. ASSUME NEW k \in Key \ {r.key}, ops[k].email = r.email PROVE ops'[k].email = r.email
  BY <1>1, <1>2, RowKept DEF LifecycleValid
<1> QED
  BY <1>2 DEF Taken

\* No step makes false what a request that does not move relies on.
LEMMA ReplyKept ==
    ASSUME TypeOK, LifecycleValid, [Next]_vars, NEW s, Reply(ops, users, s),
           s.pc \in {"claim", "reload"} => s.request \in Request
    PROVE  Reply(ops', users', s)
<1> DEFINE r == s.request
<1> USE RegistrationAssumption
<1>1. ASSUME r \in Request, ops[r.key].status # "ABSENT"
      PROVE  /\ ops'[r.key].status # "ABSENT"
             /\ ops'[r.key].email = ops[r.key].email
             /\ ops'[r.key].password \in {None, ops[r.key].password}
  <2>1. r.key \in Key
    BY <1>1
  <2> QED
    BY <1>1, <2>1, RowKept
<1>2. ASSUME r \in Request, users[r.email] = [id |-> r.key, password |-> r.password]
      PROVE  users'[r.email] = users[r.email]
  <2>1. r.email \in Email /\ r.key # None
    BY <1>2
  <2>2. users[r.email] # NoUser
    BY <1>2, <2>1 DEF NoUser
  <2> QED
    BY <2>1, <2>2, AccountKept
<1>3. ASSUME r \in Request, Taken(ops, r) PROVE Taken(ops', r)
  BY <1>3, TakenKept
<1> HIDE DEF r
<1>4. Reply(ops, users, s) => Reply(ops', users', s)
  BY <1>1, <1>2, <1>3 DEF Reply, r
<1> QED
  BY <1>4

\* A failure promises nothing.
LEMMA FailureReply ==
    ASSUME NEW O, NEW U, NEW s \in HandlerState,
           NEW answer \in {"none", "pending", "unavailable", "conflict", "error"}
    PROVE  Reply(O, U, Answered(s, answer))
<1>1. Answered(s, answer).pc = "idle" /\ Answered(s, answer).answer = answer
  BY DEF Answered, HandlerState
<1> QED
  BY <1>1 DEF Reply

\* _resume_existing: a stored password is found, it is that of the operation or,
\* once completed, of its user.
LEMMA ResumeReply ==
    ASSUME TypeOK, RegistrationInv, NEW s \in HandlerState, s.request \in Request,
           ops[s.request.key].status # "ABSENT", Reply(ops, users, s)
    PROVE  Reply(ops, users, ResumeExisting(s, s.request.key))
<1> DEFINE r == s.request
           k == r.key
           row == ops[k]
<1> USE RegistrationAssumption
<1>0. /\ k \in Key /\ r.email \in Email /\ r.password \in Password
      /\ row \in RegistrationOperation /\ row.email \in Email
  BY DEF TypeOK, RegistrationInv, LifecycleValid, RegistrationOperation
<1>1. row.status = "COMPLETED" =>
        /\ users[row.email].id = k
        /\ StoredPassword(k) = {users[row.email].password}
  <2> SUFFICES ASSUME row.status = "COMPLETED"
               PROVE  /\ users[row.email].id = k
                      /\ StoredPassword(k) = {users[row.email].password}
    OBVIOUS
  <2>1. row.password = None
    BY <1>0 DEF RegistrationInv, LifecycleValid
  <2>2. users[row.email].id = k /\ \A e \in Email : users[e].id = k => e = row.email
    BY <1>0 DEF RegistrationInv, CompletionIsAtomic
  <2>3. {f \in Email : users[f].id = k} = {row.email}
    BY <1>0, <2>2
  <2> QED
    BY <2>1, <2>2, <2>3 DEF StoredPassword
<1>2. row.status # "COMPLETED" => row.password # None /\ StoredPassword(k) = {row.password}
  BY <1>0 DEF RegistrationInv, LifecycleValid, StoredPassword
<1>3. StoredPassword(k) # {}
  BY <1>1, <1>2
<1> DEFINE x == ResumeExisting(s, k)
<1>4. \/ \E answer \in {"conflict", "unavailable"} : x = Answered(s, answer)
      \/ /\ row.email = r.email /\ r.password \in StoredPassword(k) /\ row.status = "COMPLETED"
         /\ x = Answered(s, "completed")
      \/ /\ row.email = r.email /\ r.password \in StoredPassword(k) /\ row.status # "COMPLETED"
         /\ x = [s EXCEPT !.pc = "claim"]
  BY <1>3 DEF ResumeExisting
<1>5. CASE \E answer \in {"conflict", "unavailable"} : x = Answered(s, answer)
  BY <1>5, FailureReply
<1>6. CASE /\ row.email = r.email /\ r.password \in StoredPassword(k) /\ row.status = "COMPLETED"
           /\ x = Answered(s, "completed")
  <2>1. x.pc = "idle" /\ x.answer = "completed" /\ x.request = r
    BY <1>6 DEF Answered, HandlerState
  <2>2. users[r.email] \in User /\ users[r.email].id = k /\ users[r.email].password = r.password
    BY <1>0, <1>1, <1>6 DEF TypeOK
  <2>3. users[r.email] = [id |-> k, password |-> r.password]
    BY <2>2 DEF User
  <2> HIDE DEF x
  <2> QED
    BY <2>1, <2>3 DEF Reply, x
<1>7. CASE /\ row.email = r.email /\ r.password \in StoredPassword(k) /\ row.status # "COMPLETED"
           /\ x = [s EXCEPT !.pc = "claim"]
  <2>1. x.pc = "claim" /\ x.answer = s.answer /\ x.request = r
    BY <1>7 DEF HandlerState
  <2>2. row.password = r.password
    BY <1>2, <1>7
  <2> HIDE DEF x
  <2> QED
    BY <1>7, <2>1, <2>2 DEF Reply, x
<1> QED
  BY <1>4, <1>5, <1>6, <1>7

\* A step that moves one request to x, and keeps the attempts of the others.
LEMMA RequestMoves ==
    ASSUME TypeOK, RegistrationInv, AnswersInv, [Next]_vars,
           NEW h \in Handler, NEW x, handler' = [handler EXCEPT ![h] = x],
           Reply(ops', users', x),
           \A g \in Handler \ {h}, k \in Key : attempt'[g][k] = attempt[g][k],
           \A k \in Key : MadeFor(attempt'[h][k], k, x)
    PROVE  AnswersInv'
<1>0. LifecycleValid /\ handler \in [Handler -> HandlerState]
  BY DEF RegistrationInv, TypeOK
<1>1. ASSUME NEW g \in Handler
      PROVE  /\ Reply(ops', users', handler'[g])
             /\ \A k \in Key : MadeFor(attempt'[g][k], k, handler'[g])
  <2>1. CASE g = h
    BY <1>0, <2>1
  <2>2. CASE g # h
    <3>1. handler'[g] = handler[g]
      BY <1>0, <2>2
    <3>2. /\ Reply(ops, users, handler[g])
          /\ \A k \in Key : MadeFor(attempt[g][k], k, handler[g])
      BY ReplyNow
    <3>3. PICK s : s = handler[g]
      OBVIOUS
    <3>4. s.pc \in {"claim", "reload"} => s.request \in Request
      BY <3>3 DEF TypeOK
    <3>5. Reply(ops', users', s)
      BY <1>0, <3>2, <3>3, <3>4, ReplyKept
    <3> QED
      BY <2>2, <3>1, <3>2, <3>3, <3>5
  <2> QED
    BY <2>1, <2>2
<1> QED
  BY <1>1, ReplyAllNext

\* A step that moves no request, and changes no attempt but its progress.
LEMMA RequestsRest ==
    ASSUME TypeOK, RegistrationInv, AnswersInv, [Next]_vars, handler' = handler,
           \A h \in Handler, k \in Key :
               attempt'[h][k].pc # "none" =>
                   /\ attempt[h][k].pc # "none"
                   /\ attempt'[h][k].email = attempt[h][k].email
                   /\ attempt'[h][k].password = attempt[h][k].password
    PROVE  AnswersInv'
<1>0. LifecycleValid
  BY DEF RegistrationInv
<1>1. ASSUME NEW g \in Handler
      PROVE  /\ Reply(ops', users', handler'[g])
             /\ \A k \in Key : MadeFor(attempt'[g][k], k, handler'[g])
  <2>2. /\ Reply(ops, users, handler[g])
        /\ \A k \in Key : MadeFor(attempt[g][k], k, handler[g])
    BY ReplyNow
  <2>3. PICK s : s = handler[g]
    OBVIOUS
  <2>4. s.pc \in {"claim", "reload"} => s.request \in Request
    BY <2>3 DEF TypeOK
  <2>5. Reply(ops', users', s)
    BY <1>0, <2>2, <2>3, <2>4, ReplyKept
  <2>6. \A k \in Key : MadeFor(attempt'[g][k], k, handler[g])
    BY <2>2 DEF MadeFor
  <2> QED
    BY <2>3, <2>5, <2>6
<1> QED
  BY <1>1, ReplyAllNext

\* RegisterUserHandler up to the attempt.
LEMMA RegisterAnswers ==
    ASSUME TypeOK, TypeOK', RegistrationInv, AccountsHaveOperations, AnswersInv,
           NEW h \in Handler, Register(h)
    PROVE  AnswersInv'
<1> DEFINE r == handler[h].request
<1> USE RegistrationAssumption
<1>0. /\ Next /\ h \in Owner /\ handler[h] \in HandlerState
      /\ ops \in [Key -> RegistrationOperation] /\ attempt \in [Owner -> [Key -> Attempt]]
      /\ ClockReading \subseteq Nat
  <2>1. Next /\ h \in Owner
    BY Zenon DEF Next, Owner
  <2>2. now \in Nat /\ handler \in [Handler -> HandlerState]
    BY Zenon DEF TypeOK
  <2>3. ClockReading \subseteq Nat
    BY <2>2, ReadingIsTime, Zenon
  <2> QED
    BY <2>1, <2>2, <2>3, Zenon DEF TypeOK
<1>1. handler[h].pc \in {"load", "lookup", "insert", "reload", "claim"}
  BY DEF Register, LoadByKey, LookupEmail, TryCreate, ReloadByKey, ClaimByKey
<1>2. r \in Request /\ r.key \in Key /\ r.email \in Email /\ r.password \in Password
  BY <1>1 DEF TypeOK
<1>3. /\ Reply(ops, users, handler[h])
      /\ \A k \in Key : attempt[h][k].pc = "none"
  BY <1>1, ReplyNow DEF MadeFor
<1>4. ASSUME NEW x, handler' = [handler EXCEPT ![h] = x], Reply(ops, users, x),
             UNCHANGED <<ops, users, attempt>>
      PROVE  AnswersInv'
  <2>1. \A k \in Key : MadeFor(attempt'[h][k], k, x)
    BY <1>3, <1>4 DEF MadeFor
  <2> QED
    BY <1>0, <1>4, <2>1, RequestMoves
<1>5. ASSUME NEW pc, pc \in {"lookup", "insert"},
             handler' = [handler EXCEPT ![h].pc = pc], UNCHANGED <<ops, users, attempt>>
      PROVE  AnswersInv'
  <2>1. PICK x : x = [handler[h] EXCEPT !.pc = pc]
    OBVIOUS
  <2>2. x.pc = pc /\ x.answer = handler[h].answer /\ x.request = r
    BY <1>0, <2>1 DEF HandlerState
  <2>3. Reply(ops, users, x)
    BY <1>3, <1>5, <2>2 DEF Reply
  <2> QED
    BY <1>4, <1>5, <2>1, <2>3
<1>6. ASSUME handler' = [handler EXCEPT ![h].pc = "reload"], UNCHANGED <<ops, users, attempt>>,
             ops[r.key].status # "ABSENT" \/ Taken(ops, r)
      PROVE  AnswersInv'
  <2>1. PICK x : x = [handler[h] EXCEPT !.pc = "reload"]
    OBVIOUS
  <2>2. x.pc = "reload" /\ x.answer = handler[h].answer /\ x.request = r
    BY <1>0, <2>1 DEF HandlerState
  <2>3. Reply(ops, users, x)
    BY <1>3, <1>6, <2>2 DEF Reply
  <2> QED
    BY <1>4, <1>6, <2>1, <2>3
<1>7. ASSUME NEW at \in Nat, NEW row \in RegistrationOperation,
             row.email = r.email, row.password = r.password,
             handler' = [handler EXCEPT ![h].pc = "resume"], UNCHANGED users,
             attempt' = [attempt EXCEPT ![h][r.key] = BeginAttempt(row)]
      PROVE  AnswersInv'
  <2>1. PICK x : x = [handler[h] EXCEPT !.pc = "resume"]
    OBVIOUS
  <2>2. x.pc = "resume" /\ x.answer = handler[h].answer /\ x.request = r
    BY <1>0, <2>1 DEF HandlerState
  <2>3. Reply(ops, users, x)
    BY <1>3, <2>2 DEF Reply
  <2>4. Reply(ops', users', x)
    BY <1>0, <2>2, <2>3, ReplyKept DEF RegistrationInv
  <2>5. ASSUME NEW k \in Key PROVE MadeFor(attempt'[h][k], k, x)
    <3>1. CASE k = r.key
      <4>1. attempt'[h][k] = BeginAttempt(row)
        BY <1>0, <1>2, <1>7, <3>1
      <4> QED
        BY <1>7, <2>2, <3>1, <4>1, BeginColumns DEF MadeFor
    <3>2. CASE k # r.key
      <4>1. attempt'[h][k] = attempt[h][k]
        BY <1>0, <1>7, <3>2
      <4> QED
        BY <1>3, <4>1 DEF MadeFor
    <3> QED
      BY <3>1, <3>2
  <2>6. \A g \in Handler \ {h}, k \in Key : attempt'[g][k] = attempt[g][k]
    BY <1>0, <1>7 DEF Owner
  <2>7. handler' = [handler EXCEPT ![h] = x]
    BY <1>7, <2>1
  <2> QED
    BY <1>0, <2>4, <2>5, <2>6, <2>7, RequestMoves
<1>8. CASE LoadByKey(h) \/ ReloadByKey(h)
  <2>1. UNCHANGED <<ops, users, attempt>>
    BY <1>8 DEF LoadByKey, ReloadByKey
  <2>2. CASE ops[r.key].status # "ABSENT"
    <3>1. handler' = [handler EXCEPT ![h] = ResumeExisting(handler[h], r.key)]
      BY <1>8, <2>2 DEF LoadByKey, ReloadByKey
    <3>2. Reply(ops, users, ResumeExisting(handler[h], r.key))
      BY <1>0, <1>2, <1>3, <2>2, ResumeReply
    <3> QED
      BY <1>4, <2>1, <3>1, <3>2
  <2>3. CASE ops[r.key].status = "ABSENT" /\ LoadByKey(h)
    BY <1>5, <2>1, <2>3 DEF LoadByKey
  <2>4. CASE ops[r.key].status = "ABSENT" /\ ReloadByKey(h)
    <3>1. handler' = [handler EXCEPT ![h] = Answered(handler[h], "exists")]
      BY <2>4 DEF ReloadByKey
    <3>2. Taken(ops, r)
      BY <1>3, <2>4 DEF Reply, ReloadByKey
    <3>3. PICK x : x = Answered(handler[h], "exists")
      OBVIOUS
    <3>4. x.pc = "idle" /\ x.answer = "exists" /\ x.request = r
      BY <1>0, <3>3 DEF Answered, HandlerState
    <3>5. Reply(ops, users, x)
      BY <1>2, <3>2, <3>4 DEF Reply
    <3> QED
      BY <1>4, <2>1, <3>1, <3>3, <3>5
  <2> QED
    BY <1>8, <2>2, <2>3, <2>4
<1>9. CASE LookupEmail(h)
  <2>1. UNCHANGED <<ops, users, attempt>>
    BY <1>9 DEF LookupEmail
  <2>2. CASE users[r.email] = NoUser
    BY <1>5, <1>9, <2>1, <2>2 DEF LookupEmail
  <2>3. CASE users[r.email] # NoUser
    <3>1. ops[r.key].status # "ABSENT" \/ Taken(ops, r)
      <4>1. CASE r.email \in LegacyEmail
        BY <4>1 DEF Taken
      <4>2. CASE r.email \notin LegacyEmail
        <5>1. PICK k \in Key : users[r.email].id = k
          BY <1>2, <2>3, <4>2 DEF AccountsHaveOperations
        <5>2. ops[k].status = "COMPLETED" /\ ops[k].email = r.email
          BY <1>2, <5>1 DEF RegistrationInv, CompletionIsAtomic
        <5> QED
          BY <5>2 DEF Taken
      <4> QED
        BY <4>1, <4>2
    <3> QED
      BY <1>6, <1>9, <2>1, <2>3, <3>1 DEF LookupEmail
  <2> QED
    BY <2>2, <2>3
<1>10. CASE TryCreate(h)
  <2>1. CASE CanCreate(r.key, r.email)
    <3>1. PICK at \in ClockReading :
            /\ attempt' = [attempt EXCEPT ![h][r.key] = BeginAttempt(Created(r, h, at))]
            /\ handler' = [handler EXCEPT ![h].pc = "resume"]
      BY <1>10, <2>1 DEF TryCreate
    <3>2. at \in Nat
      BY <1>0
    <3>3. Created(r, h, at) \in RegistrationOperation
      BY <1>0, <1>2, <3>2, CreatedType
    <3>4. Created(r, h, at).email = r.email /\ Created(r, h, at).password = r.password
      BY DEF Created, NoOperation
    <3>5. UNCHANGED users
      BY <1>10 DEF TryCreate
    <3> QED
      BY <1>7, <3>1, <3>2, <3>3, <3>4, <3>5
  <2>2. CASE ~CanCreate(r.key, r.email)
    <3>1. ops[r.key].status # "ABSENT" \/ Taken(ops, r)
      BY <1>2, <2>2 DEF CanCreate, Taken, RegistrationInv, LifecycleValid
    <3> QED
      BY <1>6, <1>10, <2>2, <3>1 DEF TryCreate
  <2> QED
    BY <2>1, <2>2
<1>11. CASE ClaimByKey(h)
  <2>1. PICK at \in ClockReading :
          IF Eligible(ops[r.key], at)
          THEN /\ attempt' = [attempt EXCEPT ![h][r.key] = BeginAttempt(ops[r.key])]
               /\ handler' = [handler EXCEPT ![h].pc = "resume"]
          ELSE /\ handler' = [handler EXCEPT ![h] = Answered(handler[h], "pending")]
               /\ UNCHANGED <<ops, attempt>>
    BY <1>11 DEF ClaimByKey
  <2>2. UNCHANGED users /\ handler[h].pc = "claim"
    BY <1>11 DEF ClaimByKey
  <2>3. CASE Eligible(ops[r.key], at)
    <3>1. ops[r.key].email = r.email /\ ops[r.key].password \in {None, r.password}
      BY <1>3, <2>2 DEF Reply
    <3>2. ops[r.key].password # None
      BY <1>2, <2>3 DEF Eligible, RegistrationInv, LifecycleValid
    <3>3. ops[r.key] \in RegistrationOperation /\ at \in Nat
      BY <1>0, <1>2
    <3> QED
      BY <1>7, <2>1, <2>2, <2>3, <3>1, <3>2, <3>3
  <2>4. CASE ~Eligible(ops[r.key], at)
    <3>1. Reply(ops, users, Answered(handler[h], "pending"))
      BY <1>0, FailureReply
    <3> QED
      BY <1>4, <2>1, <2>2, <2>4, <3>1
  <2> QED
    BY <2>3, <2>4
<1> QED
  BY <1>8, <1>9, <1>10, <1>11 DEF Register

\* ResumeRegistrationHandler: an attempt keeps what it remembers of its request,
\* and tells the request COMPLETED only in the commit itself.
LEMMA AttemptAnswers ==
    ASSUME TypeOK, TypeOK', RegistrationInv, AnswersInv,
           NEW o \in Owner, NEW k \in Key, Resume(o, k) \/ Failure(o, k)
    PROVE  AnswersInv'
<1> DEFINE a == attempt[o][k]
<1> USE RegistrationAssumption
<1>0. /\ Next /\ attempt \in [Owner -> [Key -> Attempt]] /\ a \in Attempt
      /\ Handler \subseteq Owner /\ users \in [Email -> User]
      /\ \A h \in Handler : handler[h] \in HandlerState
  BY DEF Next, TypeOK, Owner
<1>1. a.pc # "none"
  BY DEF Resume, Failure, Provisioned, Finalize, ScheduleRetry, BlockOperation,
     ProvisionUnavailable, ProvisionRejected, FinalizeUncertain, FinalizeError, AttemptRaises
<1>2. ASSUME NEW step, GoTo(o, k, step), step.email = a.email, step.password = a.password
      PROVE  AnswersInv'
  <2>1. /\ handler' = handler
        /\ \A p \in Owner, j \in Key :
             attempt'[p][j] = IF p = o /\ j = k THEN step ELSE attempt[p][j]
    BY <1>0, <1>2 DEF GoTo
  <2> QED
    BY <1>0, <1>1, <1>2, <2>1, RequestsRest
<1>3. ASSUME NEW answer, Finish(o, k, answer),
             o \in Handler => Reply(ops', users', Answered(handler[o], answer))
      PROVE  AnswersInv'
  <2>1. /\ NoAttempt.pc = "none"
        /\ \A p \in Owner, j \in Key :
             attempt'[p][j] = IF p = o /\ j = k THEN NoAttempt ELSE attempt[p][j]
    BY <1>0, <1>3 DEF Finish, NoAttempt
  <2>2. CASE o \in Handler
    <3>1. handler' = [handler EXCEPT ![o] = Answered(handler[o], answer)]
      BY <1>3, <2>2 DEF Finish
    <3>2. ASSUME NEW j \in Key
          PROVE  MadeFor(attempt'[o][j], j, Answered(handler[o], answer))
      <4>1. CASE j = k
        BY <2>1, <4>1 DEF MadeFor
      <4>2. CASE j # k
        <5>1. MadeFor(attempt[o][j], j, handler[o]) /\ MadeFor(a, k, handler[o])
          BY <2>2, ReplyNow
        <5>2. attempt'[o][j] = attempt[o][j]
          BY <2>1, <4>2
        <5> QED
          BY <1>1, <4>2, <5>1, <5>2 DEF MadeFor
      <4> QED
        BY <4>1, <4>2
    <3>3. \A g \in Handler \ {o}, j \in Key : attempt'[g][j] = attempt[g][j]
      BY <1>0, <2>1
    <3> QED
      BY <1>0, <1>3, <2>2, <3>1, <3>2, <3>3, RequestMoves
  <2>3. CASE o \notin Handler
    <3>1. handler' = handler
      BY <1>3, <2>3 DEF Finish
    <3> QED
      BY <1>0, <2>1, <3>1, RequestsRest
  <2> QED
    BY <2>2, <2>3
<1>4. ASSUME NEW answer \in {"none", "pending", "unavailable", "error"}, Finish(o, k, answer)
      PROVE  AnswersInv'
  <2>1. o \in Handler => Reply(ops', users', Answered(handler[o], answer))
    BY <1>0, FailureReply
  <2> QED
    BY <1>3, <1>4, <2>1
<1>5. \A answer \in {"unavailable", "error"} :
        Blocking(a, answer).email = a.email /\ Blocking(a, answer).password = a.password
  BY <1>0, BlockingColumns
<1>6. RetryOrBlock(a).email = a.email /\ RetryOrBlock(a).password = a.password
  BY <1>0, RetryOrBlockColumns
<1>7. CASE Provisioned(o, k)
  <2>1. PICK step : step = [a EXCEPT !.pc = "finalize"]
    OBVIOUS
  <2>2. step.email = a.email /\ step.password = a.password
    BY <1>0, <2>1 DEF Attempt
  <2>3. GoTo(o, k, step)
    BY <1>7, <2>1 DEF Provisioned
  <2> QED
    BY <1>2, <2>2, <2>3
<1>8. CASE ProvisionUnavailable(o, k) \/ FinalizeUncertain(o, k)
  BY <1>2, <1>6, <1>8 DEF ProvisionUnavailable, FinalizeUncertain
<1>9. CASE ProvisionRejected(o, k) \/ FinalizeError(o, k)
  BY <1>2, <1>5, <1>9 DEF ProvisionRejected, FinalizeError
<1>10. CASE Finalize(o, k)
  <2>1. CASE Finish(o, k, "completed") /\ CommitFinalize(a, k)
    <3>1. ASSUME o \in Handler PROVE Reply(ops', users', Answered(handler[o], "completed"))
      <4>1. MadeFor(a, k, handler[o])
        BY <3>1, ReplyNow
      <4>2. /\ handler[o].request.key = k /\ handler[o].request.email = a.email
            /\ handler[o].request.password = a.password /\ handler[o].request \in Request
        BY <1>1, <3>1, <4>1 DEF MadeFor, TypeOK
      <4>3. users'[a.email] = [id |-> k, password |-> a.password]
        BY <1>0, <2>1, <4>2 DEF CommitFinalize
      <4>4. PICK x : x = Answered(handler[o], "completed")
        OBVIOUS
      <4>5. x.pc = "idle" /\ x.answer = "completed" /\ x.request = handler[o].request
        BY <1>0, <3>1, <4>4 DEF Answered, HandlerState
      <4> QED
        BY <4>2, <4>3, <4>4, <4>5 DEF Reply
    <3> QED
      BY <1>3, <2>1, <3>1, ZenonT(60)
  <2>2. CASE Finish(o, k, "pending")
    BY <1>4, <2>2
  <2>3. CASE GoTo(o, k, Blocking(a, "unavailable"))
    BY <1>2, <1>5, <2>3
  <2> QED
    BY <1>10, <2>1, <2>2, <2>3 DEF Finalize
<1>11. CASE ScheduleRetry(o, k)
  BY <1>4, <1>11 DEF ScheduleRetry, Outcome
<1>12. CASE BlockOperation(o, k)
  <2>1. a.answer \in {"none", "unavailable", "error"}
    BY <1>0 DEF Attempt
  <2> QED
    BY <1>4, <1>12, <2>1 DEF BlockOperation, Outcome
<1>13. CASE AttemptRaises(o, k)
  BY <1>4, <1>13 DEF AttemptRaises
<1> QED
  BY <1>7, <1>8, <1>9, <1>10, <1>11, <1>12, <1>13 DEF Resume, Failure

\* Sending and dying.
LEMMA ClientAnswers ==
    ASSUME TypeOK, TypeOK', RegistrationInv, AnswersInv, Next,
           \/ \E h \in Handler, r \in Request : Send(h, r)
           \/ \E o \in Owner : Crash(o)
    PROVE  AnswersInv'
<1>0. /\ attempt \in [Owner -> [Key -> Attempt]] /\ Handler \subseteq Owner
      /\ \A h \in Handler : handler[h] \in HandlerState
  BY DEF TypeOK, Owner
<1>1. ASSUME NEW h \in Handler, NEW r \in Request, Send(h, r) PROVE AnswersInv'
  <2>1. PICK x : x = [pc |-> "load", request |-> r, answer |-> "none"]
    OBVIOUS
  <2>2. /\ handler' = [handler EXCEPT ![h] = x]
        /\ attempt' = attempt /\ handler[h].pc = "idle"
    BY <1>1, <2>1 DEF Send
  <2>3. x.pc = "load" /\ x.answer = "none"
    BY <2>1
  <2>4. Reply(ops', users', x)
    BY <2>3 DEF Reply
  <2>5. \A k \in Key : MadeFor(attempt'[h][k], k, x)
    BY <2>2, ReplyNow DEF MadeFor
  <2> QED
    BY <2>2, <2>4, <2>5, RequestMoves
<1>2. ASSUME NEW o \in Owner, Crash(o) PROVE AnswersInv'
  <2>1. /\ NoAttempt.pc = "none"
        /\ \A p \in Owner, k \in Key :
             attempt'[p][k] = IF p = o THEN NoAttempt ELSE attempt[p][k]
    BY <1>0, <1>2 DEF Crash, NoAttempt
  <2>2. CASE o \in Handler
    <3>1. handler' = [handler EXCEPT ![o] = Answered(handler[o], "error")]
      BY <1>2, <2>2 DEF Crash
    <3>2. Reply(ops', users', Answered(handler[o], "error"))
      BY <1>0, <2>2, FailureReply
    <3>3. \A k \in Key : MadeFor(attempt'[o][k], k, Answered(handler[o], "error"))
      BY <2>1 DEF MadeFor
    <3>4. \A g \in Handler \ {o}, k \in Key : attempt'[g][k] = attempt[g][k]
      BY <1>0, <2>1
    <3> QED
      BY <2>2, <3>1, <3>2, <3>3, <3>4, RequestMoves
  <2>3. CASE o \notin Handler
    <3>1. handler' = handler
      BY <1>2, <2>3 DEF Crash
    <3> QED
      BY <1>0, <2>1, <3>1, RequestsRest
  <2> QED
    BY <2>2, <2>3
<1> QED
  BY <1>1, <1>2

\* AnswersInv is kept by every step.
LEMMA AnswersStep ==
    ASSUME TypeOK, TypeOK', RegistrationInv, AccountsHaveOperations, AnswersInv, [Next]_vars
    PROVE  AnswersInv'
<1>0. attempt \in [Owner -> [Key -> Attempt]]
  BY DEF TypeOK
<1>1. CASE handler' = handler /\ attempt' = attempt
  BY <1>1, RequestsRest
<1>2. ASSUME NEW r \in Reconciler, RunOnce(r) PROVE AnswersInv'
  <2>1. handler' = handler /\ \A h \in Handler, k \in Key : attempt'[h][k] = attempt[h][k]
    BY <1>0, <1>2, RegistrationAssumption DEF RunOnce, Owner
  <2> QED
    BY <2>1, RequestsRest
<1>3. CASE UNCHANGED vars
  BY <1>1, <1>3 DEF vars
<1>4. CASE Next
  <2>1. CASE Tick \/ \E k \in Key : Redrive(k)
    <3>1. handler' = handler /\ attempt' = attempt
      BY <2>1 DEF Tick, Redrive
    <3> QED
      BY <1>1, <3>1
  <2>2. CASE \/ \E h \in Handler, r \in Request : Send(h, r)
             \/ \E o \in Owner : Crash(o)
    BY <1>4, <2>2, ClientAnswers
  <2> QED
    BY <1>2, <1>4, <2>1, <2>2, RegisterAnswers, AttemptAnswers DEF Next
<1> QED
  BY <1>3, <1>4

\* At first nobody has asked.
LEMMA AnswersInit == Init => AnswersInv
<1> SUFFICES ASSUME Init PROVE AnswersInv
  OBVIOUS
<1>1. \A h \in Handler : handler[h].pc = "idle" /\ handler[h].answer = "none"
  BY DEF Init
<1>2. \A h \in Handler, k \in Key : attempt[h][k].pc = "none"
  BY DEF Init, NoAttempt, Owner
<1> QED
  BY <1>1, <1>2, ReplyAll DEF Reply, MadeFor

\* Whatever a request is answered, it is true of the database, and stays true.
THEOREM AnswersSafety == Spec => []AnswersInv
<1>1. Init => TypeOK /\ RegistrationInv /\ LookupsStayValid /\ AnswersInv
  BY TypeInit, InvInit, LookupInit, AnswersInit
<1>2. TypeOK /\ RegistrationInv /\ LookupsStayValid /\ AnswersInv /\ [Next]_vars
        => (TypeOK /\ RegistrationInv /\ LookupsStayValid /\ AnswersInv)'
  BY TypeStep, InvStep, AccountsStep, InsertsStep, AnswersStep DEF LookupsStayValid
<1> QED
  BY <1>1, <1>2, PTL DEF Spec

\* COMPLETED is only answered to a command that names the registered email and
\* proves its password, by the attempt of the request itself or by a replay.
THEOREM CompletedAnswerAlwaysTrue == Spec => []CompletedAnswerIsTrue
  BY AnswersSafety, PTL DEF AnswersInv

\* "completed registration has no user" is never raised.
THEOREM ReplayAlwaysFindsUser == Spec => []ReplayFindsUser
  BY AnswersSafety, PTL DEF AnswersInv

\* UserAlreadyExistsError is only raised for an email that is someone else's for
\* good, although the two statements that decide it see different snapshots.
THEOREM ExistsAnswerAlwaysTrue == Spec => []ExistsAnswerIsTrue
  BY AnswersSafety, PTL DEF AnswersInv

-----------------------------------------------------------------------------
(* Refinement.  A step is mapped through the phases, emails and accounts   *)
(* it changes: none, one (MapRewrite), or those of an insert (MapCreate)   *)
(* and of a completion (MapCommit).                                        *)

\* A step that keeps the phase and the email of every row is invisible.
LEMMA MapSame ==
    ASSUME UNCHANGED <<users, events>>,
           \A k \in Key : /\ PhaseOf(ops'[k].status) = PhaseOf(ops[k].status)
                          /\ ops'[k].email = ops[k].email
    PROVE  UNCHANGED Service!svcVars
  BY DEF Service!svcVars

\* Phases, emails and accounts change one at a time.
LEMMA MapPhase ==
    ASSUME NEW k \in Key, NEW p,
           \A j \in Key : PhaseOf(ops'[j].status) = IF j = k THEN p ELSE PhaseOf(ops[j].status)
    PROVE  [j \in Key |-> PhaseOf(ops'[j].status)]
             = [[j \in Key |-> PhaseOf(ops[j].status)] EXCEPT ![k] = p]
  BY Zenon

\* The same for emails.
LEMMA MapEmail ==
    ASSUME NEW k \in Key, NEW e,
           \A j \in Key : ops'[j].email = IF j = k THEN e ELSE ops[j].email
    PROVE  [j \in Key |-> ops'[j].email] = [[j \in Key |-> ops[j].email] EXCEPT ![k] = e]
  BY ZenonT(60)

\* The initial states of registration are initial states of the service.
LEMMA MapInit == Init => Service!SvcInit
<1> SUFFICES ASSUME Init PROVE Service!SvcInit
  OBVIOUS
<1>1. \A k \in Key : PhaseOf(ops[k].status) = "none" /\ ops[k].email = None
  BY DEF Init, NoOperation, PhaseOf
<1>2. \A e \in Email : users[e].id = IF e \in LegacyEmail THEN LegacyId ELSE None
  BY DEF Init, LegacyUser, NoUser
<1> QED
  BY <1>1, <1>2 DEF Init, Service!SvcInit

\* Creating an operation is Accept.
LEMMA MapCreate ==
    ASSUME TypeOK, NEW h \in Handler, NEW r \in Request, NEW at \in Nat,
           CanCreate(r.key, r.email), users[r.email] = NoUser,
           ops' = [ops EXCEPT ![r.key] = Created(r, h, at)], UNCHANGED <<users, events>>
    PROVE  Service!Accept(r.key, r.email)
<1> DEFINE k == r.key
           new == Created(r, h, at)
<1>1. k \in Key /\ r.email \in Email
  BY RegistrationAssumption
<1>2. new.status = "CLAIMED" /\ new.email = r.email
  BY DEF Created, NoOperation
<1>3. PhaseOf(new.status) = "open" /\ PhaseOf(ops[k].status) = "none"
  BY <1>2 DEF CanCreate, PhaseOf
<1>4. users[r.email].id = None /\ \A j \in Key : ops[j].email # r.email
  BY DEF NoUser, CanCreate
<1> HIDE DEF k, new
<1>5. ops' = [ops EXCEPT ![k] = new]
  BY DEF k, new
<1>6. Service!Accept(k, r.email)
  <2>1. /\ [j \in Key |-> PhaseOf(ops[j].status)][k] = "none"
        /\ [e \in Email |-> users[e].id][r.email] = None
        /\ \A other \in Key : [j \in Key |-> ops[j].email][other] # r.email
    BY <1>1, <1>3, <1>4
  <2>2. \A j \in Key : ops'[j] = IF j = k THEN new ELSE ops[j]
    BY <1>1, <1>5 DEF TypeOK
  <2>3. [j \in Key |-> PhaseOf(ops'[j].status)]
          = [[j \in Key |-> PhaseOf(ops[j].status)] EXCEPT ![k] = "open"]
    <3>1. \A j \in Key : PhaseOf(ops'[j].status) = IF j = k THEN "open"
                                                   ELSE PhaseOf(ops[j].status)
      BY <1>3, <2>2
    <3> QED
      BY <1>1, <3>1, MapPhase, ZenonT(60)
  <2>4. [j \in Key |-> ops'[j].email] = [[j \in Key |-> ops[j].email] EXCEPT ![k] = r.email]
    <3>1. \A j \in Key : ops'[j].email = IF j = k THEN r.email ELSE ops[j].email
      BY <1>2, <2>2
    <3> QED
      BY <1>1, <3>1, MapEmail, ZenonT(60)
  <2> QED
    BY <2>1, <2>3, <2>4 DEF Service!Accept
<1> QED
  BY <1>6 DEF k

\* The _finalize transaction is Complete.
LEMMA MapCommit ==
    ASSUME TypeOK, NEW k \in Key, NEW a, a.email = ops[k].email, a.email \in Email,
           ops[k].status = "CLAIMED", users[a.email] = NoUser, CommitFinalize(a, k)
    PROVE  Service!Complete(k)
<1> DEFINE new == Completed(ops[k])
           user == [id |-> k, password |-> a.password]
<1>1. new.status = "COMPLETED" /\ new.email = ops[k].email
  BY DEF Completed, TypeOK, RegistrationOperation
<1>2. PhaseOf(new.status) = "done" /\ PhaseOf(ops[k].status) = "open"
  BY <1>1 DEF PhaseOf
<1>3. users[a.email].id = None
  BY DEF NoUser
<1>4. ops' = [ops EXCEPT ![k] = new] /\ events' = [events EXCEPT ![k] = @ + 1]
  BY DEF CommitFinalize
<1>5. \A e \in Email : users'[e].id = IF e = a.email THEN k ELSE users[e].id
  BY DEF CommitFinalize, TypeOK
<1>6. [e \in Email |-> users'[e].id]
        = [[e \in Email |-> users[e].id] EXCEPT ![a.email] = k]
  BY <1>5, ZenonT(60)
<1> HIDE DEF new
<1>7. [j \in Key |-> ops'[j].email] = [j \in Key |-> ops[j].email]
  <2>1. \A j \in Key : ops'[j].email = ops[j].email
    BY <1>1, <1>4 DEF TypeOK
  <2> QED
    BY <2>1
<1> QED
  <2>1. /\ [j \in Key |-> PhaseOf(ops[j].status)][k] = "open"
        /\ [j \in Key |-> ops[j].email][k] = a.email
        /\ [e \in Email |-> users[e].id][a.email] = None
    BY <1>2, <1>3
  <2>2. [j \in Key |-> PhaseOf(ops'[j].status)]
          = [[j \in Key |-> PhaseOf(ops[j].status)] EXCEPT ![k] = "done"]
    <3>1. \A j \in Key : PhaseOf(ops'[j].status) = IF j = k THEN "done"
                                                   ELSE PhaseOf(ops[j].status)
      BY <1>2, <1>4 DEF TypeOK
    <3> QED
      BY <3>1, MapPhase, ZenonT(60)
  <2> QED
    BY <1>4, <1>6, <1>7, <2>1, <2>2 DEF Service!Complete

\* Rewriting the row of one unfinished operation is Block, Reopen or invisible.
LEMMA MapRewrite ==
    ASSUME TypeOK, NEW k \in Key, NEW new, ops[k].status \in Unfinished,
           new.status \in Unfinished, new.email = ops[k].email,
           ops' = [ops EXCEPT ![k] = new], UNCHANGED <<users, events>>
    PROVE  [Service!SvcNext]_(Service!svcVars)
<1>2. \A j \in Key : ops'[j] = IF j = k THEN new ELSE ops[j]
  BY DEF TypeOK
<1>3. [j \in Key |-> ops'[j].email] = [j \in Key |-> ops[j].email]
  BY <1>2
<1>4. PhaseOf(ops[k].status) \in {"open", "blocked"} /\ PhaseOf(new.status) \in {"open", "blocked"}
  BY DEF Unfinished, PhaseOf
<1>5. CASE PhaseOf(ops[k].status) = PhaseOf(new.status)
  BY <1>2, <1>5, MapSame
<1>6. CASE PhaseOf(ops[k].status) = "open" /\ PhaseOf(new.status) = "blocked"
  <2>1. Service!Block(k)
    <3>1. [j \in Key |-> PhaseOf(ops[j].status)][k] = "open"
      BY <1>6
    <3>2. [j \in Key |-> PhaseOf(ops'[j].status)]
            = [[j \in Key |-> PhaseOf(ops[j].status)] EXCEPT ![k] = "blocked"]
      <4>1. \A j \in Key : PhaseOf(ops'[j].status) = IF j = k THEN "blocked"
                                                     ELSE PhaseOf(ops[j].status)
        BY <1>2, <1>6
      <4> QED
        BY <4>1, MapPhase, Zenon
    <3> QED
      BY <1>3, <3>1, <3>2 DEF Service!Block
  <2> QED
    BY <2>1 DEF Service!SvcNext
<1>7. CASE PhaseOf(ops[k].status) = "blocked" /\ PhaseOf(new.status) = "open"
  <2>1. Service!Reopen(k)
    <3>1. [j \in Key |-> PhaseOf(ops[j].status)][k] = "blocked"
      BY <1>7
    <3>2. [j \in Key |-> PhaseOf(ops'[j].status)]
            = [[j \in Key |-> PhaseOf(ops[j].status)] EXCEPT ![k] = "open"]
      <4>1. \A j \in Key : PhaseOf(ops'[j].status) = IF j = k THEN "open"
                                                     ELSE PhaseOf(ops[j].status)
        BY <1>2, <1>7
      <4> QED
        BY <4>1, MapPhase, Zenon
    <3> QED
      BY <1>3, <3>1, <3>2 DEF Service!Reopen
  <2> QED
    BY <2>1 DEF Service!SvcNext
<1> QED
  BY <1>4, <1>5, <1>6, <1>7

\* Every step of registration is a step of the service it promises, or
\* invisible to its clients.
LEMMA MapStep ==
    ASSUME TypeOK, TypeOK', RegistrationInv, RegistrationInv', [Next]_vars
    PROVE  [Service!SvcNext]_(Service!svcVars)
<1> USE RegistrationAssumption
<1>a. ASSUME UNCHANGED <<ops, users, events>> PROVE UNCHANGED Service!svcVars
  BY <1>a, MapSame
<1>b. ClockReading \subseteq Nat
  BY ReadingIsTime, Zenon DEF TypeOK
<1>1. ASSUME NEW h \in Handler, TryCreate(h) PROVE [Service!SvcNext]_(Service!svcVars)
  <2>1. PICK r \in Request : r = handler[h].request
    BY <1>1 DEF TryCreate, TypeOK
  <2>2. UNCHANGED <<users, events>> /\ r.key \in Key /\ r.email \in Email
    BY <1>1 DEF TryCreate
  <2>3. CASE UNCHANGED ops
    BY <2>2, <2>3, <1>a
  <2>4. ASSUME NEW at \in ClockReading, CanCreate(r.key, r.email),
               ops' = [ops EXCEPT ![r.key] = Created(r, h, at)]
        PROVE  Service!SvcNext
    <3>1. ops'[r.key].status = "CLAIMED" /\ ops'[r.key].email = r.email
      BY <2>2, <2>4 DEF TypeOK, Created, NoOperation
    <3>2. users[r.email] = NoUser /\ at \in Nat
      BY <1>b, <2>2, <3>1 DEF RegistrationInv, EmailReserved
    <3>3. Service!Accept(r.key, r.email)
      BY <2>2, <2>4, <3>2, MapCreate, Zenon
    <3> QED
      BY <2>2, <3>3, Zenon DEF Service!SvcNext
  <2> QED
    BY <1>1, <2>1, <2>3, <2>4 DEF TryCreate
<1>2. ASSUME NEW o \in Owner, NEW at \in Nat, NEW B \in SUBSET Key,
             \A k \in B : Eligible(ops[k], at),
             \A k \in Key : ops'[k] = IF k \in B THEN Claimed(ops[k], o, at) ELSE ops[k],
             UNCHANGED <<users, events>>
      PROVE  UNCHANGED Service!svcVars
  <2>1. \A k \in Key : /\ PhaseOf(ops'[k].status) = PhaseOf(ops[k].status)
                       /\ ops'[k].email = ops[k].email
    <3> TAKE k \in Key
    <3>1. CASE k \in B
      <4>1. ops'[k] = Claimed(ops[k], o, at) /\ ops[k].status \in {"PENDING", "CLAIMED"}
        BY <1>2, <3>1 DEF Eligible
      <4>2. ops[k] \in RegistrationOperation
        BY DEF TypeOK
      <4>3. Claimed(ops[k], o, at).status = "CLAIMED" /\ Claimed(ops[k], o, at).email = ops[k].email
        BY <4>2 DEF Claimed, RegistrationOperation
      <4>4. ops'[k].status = "CLAIMED" /\ ops'[k].email = ops[k].email
        BY <4>1, <4>3
      <4> QED
        BY <4>1, <4>4 DEF PhaseOf
    <3>2. CASE k \notin B
      BY <1>2, <3>2
    <3> QED
      BY <3>1, <3>2
  <2> QED
    BY <1>2, <2>1, MapSame
<1>3. ASSUME NEW o \in Owner, NEW k \in Key,
             ops[k].status = "CLAIMED", attempt[o][k].pc # "none",
             users[attempt[o][k].email] = NoUser, CommitFinalize(attempt[o][k], k)
      PROVE  Service!SvcNext
  <2>1. PICK a \in Attempt : a = attempt[o][k]
    BY DEF TypeOK
  <2>2. a.email = ops[k].email
    BY <1>3, <2>1, ZenonT(60) DEF RegistrationInv, SnapshotsValid
  <2>3. a.email \in Email
    BY <1>3, <2>2 DEF RegistrationInv, LifecycleValid, TypeOK, RegistrationOperation
  <2>4. Service!Complete(k)
    BY <1>3, <2>1, <2>2, <2>3, MapCommit, Zenon
  <2> QED
    BY <2>4 DEF Service!SvcNext
<1>4. ASSUME NEW h \in Handler, ClaimByKey(h) PROVE UNCHANGED Service!svcVars
  <2>1. PICK k \in Key : k = handler[h].request.key
    BY <1>4 DEF ClaimByKey, TypeOK
  <2>2. UNCHANGED <<users, events>>
    BY <1>4 DEF ClaimByKey
  <2>3. CASE UNCHANGED ops
    BY <2>2, <2>3, <1>a
  <2>4. ASSUME NEW at \in ClockReading, Eligible(ops[k], at),
               ops' = [ops EXCEPT ![k] = Claimed(ops[k], h, at)]
        PROVE  UNCHANGED Service!svcVars
    <3>1. PICK B \in SUBSET Key : B = {k}
      BY Zenon
    <3>2. \A j \in Key : ops'[j] = IF j \in B THEN Claimed(ops[j], h, at) ELSE ops[j]
      BY <2>4, <3>1, ZenonT(60) DEF TypeOK
    <3>3. h \in Owner /\ at \in Nat /\ \A j \in B : Eligible(ops[j], at)
      BY <1>b, <2>4, <3>1 DEF Owner
    <3> QED
      BY <2>2, <3>2, <3>3, <1>2
  <2> QED
    BY <1>4, <2>1, <2>3, <2>4 DEF ClaimByKey
<1>5. ASSUME NEW r \in Reconciler, RunOnce(r) PROVE UNCHANGED Service!svcVars
  <2>1. PICK at \in ClockReading, B \in SUBSET Key :
          /\ \A k \in B : Eligible(ops[k], at)
          /\ ops' = [k \in Key |-> IF k \in B THEN Claimed(ops[k], r, at) ELSE ops[k]]
    BY <1>5, ZenonT(60) DEF RunOnce, IsBatch
  <2>2. \A k \in Key : ops'[k] = IF k \in B THEN Claimed(ops[k], r, at) ELSE ops[k]
    BY <2>1
  <2>3. r \in Owner /\ at \in Nat /\ UNCHANGED <<users, events>>
    BY <1>5, <1>b DEF RunOnce, Owner
  <2> QED
    BY <2>1, <2>2, <2>3, <1>2
<1>6. ASSUME NEW o \in Owner, NEW k \in Key, Resume(o, k) \/ Failure(o, k)
      PROVE  [Service!SvcNext]_(Service!svcVars)
  <2>1. CASE Finalize(o, k) \/ FinalizeUncertain(o, k)
    <3>1. \/ UNCHANGED <<ops, users, events>>
          \/ /\ ops[k].status = "CLAIMED" /\ attempt[o][k].pc # "none"
             /\ users[attempt[o][k].email] = NoUser /\ CommitFinalize(attempt[o][k], k)
      BY <2>1, ZenonT(60) DEF Finalize, FinalizeUncertain, Owned
    <3> QED
      BY <3>1, <1>3, <1>a, ZenonT(60)
  <2>2. CASE ScheduleRetry(o, k) \/ BlockOperation(o, k)
    <3>1. UNCHANGED <<users, events>>
      BY <2>2 DEF ScheduleRetry, BlockOperation
    <3>2. CASE UNCHANGED ops
      BY <3>1, <3>2, <1>a
    <3>3. ASSUME NEW new, ops[k].status = "CLAIMED", ops' = [ops EXCEPT ![k] = new],
                 new.status \in {"PENDING", "BLOCKED"}, new.email = ops[k].email
          PROVE  [Service!SvcNext]_(Service!svcVars)
      <4>1. ops[k].status \in Unfinished /\ new.status \in Unfinished
        BY <3>3 DEF Unfinished
      <4> QED
        BY <3>1, <3>3, <4>1, MapRewrite, ZenonT(60)
    <3>4. ASSUME NEW at \in ClockReading, NEW delay \in RetryDelay, Owned(ops[k], o, at),
                 ops' = [ops EXCEPT ![k] = Rescheduled(ops[k], at + delay)]
          PROVE  [Service!SvcNext]_(Service!svcVars)
      <4>1. PICK new : new = Rescheduled(ops[k], at + delay)
        OBVIOUS
      <4>2. new.status = "PENDING" /\ new.email = ops[k].email
        BY <4>1 DEF TypeOK, RegistrationOperation, Rescheduled
      <4> QED
        BY <3>3, <3>4, <4>1, <4>2, Zenon DEF Owned
    <3>5. ASSUME NEW at \in ClockReading, Owned(ops[k], o, at),
                 ops' = [ops EXCEPT ![k] = Blocked(ops[k])]
          PROVE  [Service!SvcNext]_(Service!svcVars)
      <4>1. PICK new : new = Blocked(ops[k])
        OBVIOUS
      <4>2. new.status = "BLOCKED" /\ new.email = ops[k].email
        BY <4>1 DEF TypeOK, RegistrationOperation, Blocked
      <4> QED
        BY <3>3, <3>5, <4>1, <4>2, Zenon DEF Owned
    <3> QED
      BY <2>2, <3>2, <3>4, <3>5, ZenonT(60) DEF ScheduleRetry, BlockOperation
  <2>3. CASE ~(\/ Finalize(o, k) \/ FinalizeUncertain(o, k)
               \/ ScheduleRetry(o, k) \/ BlockOperation(o, k))
    <3>1. UNCHANGED <<ops, users, events>>
      BY <1>6, <2>3 DEF Resume, Failure, Provisioned, ProvisionUnavailable,
         ProvisionRejected, FinalizeError, AttemptRaises
    <3> QED
      BY <3>1, <1>a
  <2> QED
    BY <2>1, <2>2, <2>3
<1>7. ASSUME NEW k \in Key, Redrive(k) PROVE [Service!SvcNext]_(Service!svcVars)
  <2>1. PICK at \in ClockReading : ops' = [ops EXCEPT ![k] = Redriven(ops[k], at)]
    BY <1>7, Zenon DEF Redrive
  <2>2. PICK new : new = Redriven(ops[k], at)
    OBVIOUS
  <2>3. /\ new.status = "PENDING" /\ new.email = ops[k].email
        /\ ops[k].status = "BLOCKED" /\ UNCHANGED <<users, events>>
    BY <1>7, <2>2 DEF Redrive, TypeOK, RegistrationOperation, Redriven
  <2> QED
    <3>1. ops[k].status \in Unfinished /\ new.status \in Unfinished
      BY <2>3 DEF Unfinished
    <3>2. ops' = [ops EXCEPT ![k] = new]
      BY <2>1, <2>2
    <3> QED
      BY <2>3, <3>1, <3>2, MapRewrite, Zenon
<1>8. ASSUME NEW h \in Handler, Register(h) PROVE [Service!SvcNext]_(Service!svcVars)
  BY <1>8, <1>1, <1>4, <1>a DEF Register, LoadByKey, LookupEmail, ReloadByKey
<1> QED
  BY <1>5, <1>6, <1>7, <1>8, <1>a, ZenonT(60) DEF Next, Send, Crash, Tick, vars

\* The detailed protocol implements RegistrationService for any number of
\* keys, requests, reconcilers and failures.
THEOREM Refinement == Spec => ImplementsService
<1>1. TypeOK /\ RegistrationInv /\ TypeOK' /\ RegistrationInv' /\ [Next]_vars
        => [Service!SvcNext]_(Service!svcVars)
  BY MapStep
<1> QED
  BY <1>1, MapInit, TypeCorrect, RegistrationSafety, PTL
  DEF Spec, ImplementsService, Service!SvcSpec
=============================================================================
